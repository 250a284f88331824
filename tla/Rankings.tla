------------------------------ MODULE Rankings ------------------------------
(* Sorting by what is ahead of what, and sums: what intents and decisions  *)
(* are chosen with.                                                        *)
EXTENDS Integers, FiniteSets, Sequences

\* The elements of S in order, where ahead[x] has those that come before x.
Arranged(S, ahead) ==
    [p \in 1..Cardinality(S) |-> CHOOSE x \in S : Cardinality(ahead[x]) = p - 1]

\* The sum of a sequence of numbers.
Total(values) ==
    LET sum[k \in 0..Len(values)] == IF k = 0 THEN 0 ELSE sum[k - 1] + values[k]
    IN  sum[Len(values)]

Least(a, b) == IF a < b THEN a ELSE b
Greatest(a, b) == IF a > b THEN a ELSE b
=============================================================================
