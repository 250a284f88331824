----------------------------- MODULE RulesProofs -----------------------------
(***************************************************************************)
(* Proofs about how intents and actions are chosen.  For any texts and any *)
(* callers: rankings are sound, whatever is found in a text and whatever   *)
(* the model says of it.  For any requests, limits, weights and models:    *)
(* decisions are well-formed, keep the limits, and are reviewed when they  *)
(* have to be.                                                             *)
(***************************************************************************)
EXTENDS IntentRules, DecisionEngine,
        FiniteSetTheorems, SequenceTheorems, WellFoundedInduction, TLAPS

-----------------------------------------------------------------------------
(* Whatever strategies and models do: an answer is the response to the     *)
(* request that was asked.                                                 *)
AnswerInv ==
    /\ request \in Requests
    /\ response # NoOutcome => by # "nobody" /\ response = Response(Extract(request), outcome)

LEMMA AnswersFollow == EngineSpec => []AnswerInv
<1>1. EngineInit => AnswerInv
  BY DEF EngineInit, AnswerInv
<1>2. AnswerInv /\ [EngineNext]_engineVars => AnswerInv'
  <2> SUFFICES ASSUME AnswerInv, [EngineNext]_engineVars
               PROVE  AnswerInv'
    OBVIOUS
  <2>1. ASSUME NEW result, NEW used, Evaluated(result, used)
        PROVE  AnswerInv'
    BY <2>1 DEF AnswerInv, Evaluated
  <2>2. CASE RulesDecide \/ RulesStandIn \/ EnsembleOfRules
    BY <2>1, <2>2 DEF RulesDecide, RulesStandIn, EnsembleOfRules
  <2>3. CASE \E votes \in ModelVotes : ModelDecides(votes) \/ EnsembleDecides(votes)
    BY <2>1, <2>3 DEF ModelDecides, EnsembleDecides
  <2>4. CASE Respond
    BY <2>4 DEF Respond, AnswerInv, Vector
  <2>5. CASE UNCHANGED engineVars
    BY <2>5 DEF engineVars, AnswerInv
  <2> QED
    BY <2>2, <2>3, <2>4, <2>5 DEF EngineNext
<1> QED
  BY <1>1, <1>2, PTL DEF EngineSpec

(* Every order that goes through without a reviewer is worth less than the *)
(* ceiling, and no more than the floor if it is approved.                  *)
THEOREM NothingGoesUnseen == EngineSpec => []NothingIsApprovedUnseen
<1>1. AnswerInv => NothingIsApprovedUnseen
  <2> SUFFICES ASSUME AnswerInv, Answered, ~response.review, request.price > 0
               PROVE  /\ request.price < Ceiling
                      /\ request.price * request.quantity < Ceiling
                      /\ response.action = "approve_purchase" =>
                            request.price <= Floor /\ request.price * request.quantity <= Floor
    BY DEF NothingIsApprovedUnseen
  <2> DEFINE f == Extract(request)
             p == request.price
             q == request.quantity
  <2>1. p \in Nat /\ q \in Nat /\ Floor \in Nat /\ Ceiling \in Nat
    BY RequestsAssumption, PolicyAssumption DEF AnswerInv
  <2>2. f.amount = p * Greatest(q, 1)
    BY RequestsAssumption DEF Extract, AnswerInv
  <2>3. ~NeedsReview(f, response.action, response.risk)
    BY DEF AnswerInv, Answered, Response
  <2>4. /\ ~(f.amount > 0 /\ f.amount >= Ceiling)
        /\ response.action = "approve_purchase" => ~(f.amount > Floor)
    BY <2>3 DEF NeedsReview
  <2>5. f.amount \in Nat /\ p <= f.amount /\ p * q <= f.amount
    <3> HIDE DEF f, p, q
    <3>1. CASE q = 0
      BY <2>1, <2>2, <3>1 DEF Greatest
    <3>2. CASE q # 0
      <4>1. Greatest(q, 1) = q
        BY <2>1, <3>2 DEF Greatest
      <4>2. q - 1 \in Nat /\ p * q = p + p * (q - 1) /\ p * (q - 1) \in Nat
        BY <2>1, <3>2
      <4> QED
        BY <2>1, <2>2, <4>1, <4>2
    <3> QED
      BY <3>1, <3>2
  <2> HIDE DEF f
  <2> QED
    BY <2>1, <2>4, <2>5
<1> QED
  BY <1>1, AnswersFollow, PTL

-----------------------------------------------------------------------------
(* Sorting.  Where ahead is a strict total order of a finite set, that set *)
(* is arranged by it, without gaps or repetitions.                         *)
IsOrder(S, ahead) ==
    /\ ahead \in [S -> SUBSET S]
    /\ \A x \in S : x \notin ahead[x]
    /\ \A x, y \in S : y \in ahead[x] => ahead[y] \subseteq ahead[x]
    /\ \A x, y \in S : x # y => x \in ahead[y] \/ y \in ahead[x]

\* What is ahead has fewer ahead of itself.
LEMMA FewerAhead ==
    ASSUME NEW S, IsFiniteSet(S), NEW ahead, IsOrder(S, ahead),
           NEW x \in S, NEW y \in S, y \in ahead[x]
    PROVE  Cardinality(ahead[y]) < Cardinality(ahead[x])
<1>1. /\ ahead[x] \in SUBSET S /\ ahead[y] \in SUBSET ahead[x] /\ y \notin ahead[y]
  BY DEF IsOrder
<1>2. IsFiniteSet(ahead[x])
  BY <1>1, FS_Subset
<1>3. Cardinality(ahead[y]) <= Cardinality(ahead[x]) /\ Cardinality(ahead[x]) # Cardinality(ahead[y])
  BY <1>1, <1>2, FS_Subset
<1>4. Cardinality(ahead[x]) \in Nat /\ IsFiniteSet(ahead[y]) /\ Cardinality(ahead[y]) \in Nat
  BY <1>1, <1>2, FS_Subset, FS_CardinalityType
<1> QED
  BY <1>3, <1>4

LEMMA RanksAreTaken ==
    ASSUME NEW S, IsFiniteSet(S), NEW ahead, IsOrder(S, ahead)
    PROVE  [x \in S |-> Cardinality(ahead[x]) + 1] \in Bijection(S, 1..Cardinality(S))
<1> DEFINE n == Cardinality(S)
           rank == [x \in S |-> Cardinality(ahead[x]) + 1]
<1>1. n \in Nat
  BY FS_CardinalityType
<1>2. ASSUME NEW x \in S
      PROVE  Cardinality(ahead[x]) \in 0..(n - 1)
  <2>1. ahead[x] \in SUBSET S /\ x \in S /\ x \notin ahead[x]
    BY DEF IsOrder
  <2>2. Cardinality(ahead[x]) <= n /\ n # Cardinality(ahead[x]) /\ IsFiniteSet(ahead[x])
    BY <2>1, FS_Subset
  <2>3. Cardinality(ahead[x]) \in Nat
    BY <2>2, FS_CardinalityType
  <2> QED
    BY <1>1, <2>2, <2>3
<1>3. \A x \in S : rank[x] \in 1..n
  BY <1>1, <1>2
<1>4. ASSUME NEW x \in S, NEW y \in S, rank[x] = rank[y], x # y
      PROVE  FALSE
  <2>1. Cardinality(ahead[x]) = Cardinality(ahead[y])
    BY <1>2, <1>4
  <2>2. x \in ahead[y] \/ y \in ahead[x]
    BY <1>4 DEF IsOrder
  <2> QED
    BY <1>2, <2>1, <2>2, FewerAhead
<1>5. rank \in Injection(S, 1..n)
  <2> HIDE DEF n
  <2>1. rank \in [S -> 1..n]
    BY <1>3
  <2> QED
    BY <2>1, <1>4 DEF Injection, IsInjective
<1>6. IsFiniteSet(1..n) /\ Cardinality(1..n) = n
  <2> HIDE DEF n
  <2> QED
    BY <1>1, FS_Interval
<1>7. rank \in Surjection(S, 1..n)
  <2> HIDE DEF rank
  <2> QED
    BY <1>5, <1>6, FS_Injection
<1> QED
  BY <1>5, <1>7 DEF Bijection

LEMMA ArrangedInOrder ==
    ASSUME NEW S, IsFiniteSet(S), NEW ahead, IsOrder(S, ahead)
    PROVE  LET order == Arranged(S, ahead) IN
           /\ Cardinality(S) \in Nat /\ order \in [1..Cardinality(S) -> S]
           /\ \A x \in S : \E p \in 1..Cardinality(S) : order[p] = x
           /\ \A p, q \in 1..Cardinality(S) : p < q => order[p] \in ahead[order[q]]
<1> DEFINE n == Cardinality(S)
           rank == [x \in S |-> Cardinality(ahead[x]) + 1]
           order == Arranged(S, ahead)
<1>1. n \in Nat
  BY FS_CardinalityType
<1>2. rank \in Bijection(S, 1..n)
  BY RanksAreTaken
<1>3. \A p \in 1..n : \E x \in S : rank[x] = p
  BY <1>2 DEF Bijection, Surjection
<1>4. \A x \in S : Cardinality(ahead[x]) \in Nat
  <2> TAKE x \in S
  <2>1. ahead[x] \in SUBSET S
    BY DEF IsOrder
  <2> QED
    BY <2>1, FS_Subset, FS_CardinalityType
<1>5. ASSUME NEW p \in 1..n
      PROVE  order[p] \in S /\ rank[order[p]] = p
  <2>1. \E x \in S : Cardinality(ahead[x]) = p - 1
    BY <1>1, <1>3, <1>4
  <2>2. order[p] = CHOOSE x \in S : Cardinality(ahead[x]) = p - 1
    BY DEF Arranged
  <2>3. order[p] \in S /\ Cardinality(ahead[order[p]]) = p - 1
    <3> HIDE DEF order
    <3> QED
      BY <2>1, <2>2
  <2> QED
    BY <1>1, <2>3
<1>6. \A x \in S : rank[x] \in 1..n
  BY <1>2 DEF Bijection, Injection
<1>7. \A x, y \in S : rank[x] = rank[y] => x = y
  BY <1>2 DEF Bijection, Injection, IsInjective
<1>8. \A x \in S : order[rank[x]] = x
  <2> HIDE DEF order, rank, n
  <2> QED
    BY <1>5, <1>6, <1>7
<1>9. ASSUME NEW p \in 1..n, NEW q \in 1..n, p < q
      PROVE  order[p] \in ahead[order[q]]
  <2>1. order[p] \in S /\ order[q] \in S /\ rank[order[p]] = p /\ rank[order[q]] = q
    BY <1>5
  <2>2. CASE order[q] \in ahead[order[p]]
    <3> HIDE DEF order, n
    <3>1. Cardinality(ahead[order[q]]) < Cardinality(ahead[order[p]])
      BY <2>1, <2>2, FewerAhead
    <3>2. Cardinality(ahead[order[q]]) + 1 = q /\ Cardinality(ahead[order[p]]) + 1 = p
      BY <2>1
    <3> QED
      BY <1>4, <1>9, <2>1, <3>1, <3>2
  <2>3. order[p] # order[q]
    <3> HIDE DEF order, rank
    <3> QED
      BY <1>9, <2>1
  <2> HIDE DEF order, rank, n
  <2> QED
    BY <2>1, <2>2, <2>3 DEF IsOrder
<1>10. order \in [1..n -> S]
  <2>1. order = [p \in 1..n |-> CHOOSE x \in S : Cardinality(ahead[x]) = p - 1]
    BY DEF Arranged
  <2> QED
    BY <1>5, <2>1
<1>11. \A x \in S : \E p \in 1..n : order[p] = x
  <2> HIDE DEF order, rank, n
  <2> QED
    BY <1>6, <1>8
<1> HIDE DEF order, n
<1> QED
  BY <1>1, <1>9, <1>10, <1>11 DEF order, n

-----------------------------------------------------------------------------
(* Sums.  That the recursion defines a function at all is shown first: its *)
(* beginnings exist; the least length without one leads back to another.   *)

LEMMA LeastNumber ==
    ASSUME NEW S \in SUBSET Nat, S # {}
    PROVE  \E k \in S : \A l \in S : k <= l
<1> DEFINE R == OpToRel(<, Nat)
<1>1. R = {p \in Nat \X Nat : p[1] < p[2]}
  BY DEF OpToRel
<1>2. IsWellFoundedOn(R, Nat)
  BY NatLessThanWellFounded
<1>3. \E k \in S : \A l \in S : <<l, k>> \notin R
  <2> HIDE DEF R
  <2> QED
    BY <1>2, WFMin
<1>4. ASSUME NEW k \in S, NEW l \in S, <<l, k>> \notin R
      PROVE  k <= l
  <2>1. <<l, k>> \in Nat \X Nat /\ <<l, k>>[1] = l /\ <<l, k>>[2] = k
    OBVIOUS
  <2>2. ~(l < k)
    BY <1>1, <1>4, <2>1
  <2> QED
    BY <2>2
<1> QED
  BY <1>3, <1>4

\* sum adds up the first n values.
AddsUp(values, n, sum) ==
    /\ sum \in [0..n -> Nat]
    /\ sum[0] = 0
    /\ \A k \in 1..n : sum[k] = sum[k - 1] + values[k]

LEMMA SumsExist ==
    ASSUME NEW m \in Nat, NEW values \in [1..m -> Nat]
    PROVE  \A n \in 0..m : \E sum : AddsUp(values, n, sum)
<1> DEFINE S == {n \in 0..m : ~\E sum : AddsUp(values, n, sum)}
<1>1. ASSUME S # {}
      PROVE  FALSE
  <2>0. S \in SUBSET Nat
    OBVIOUS
  <2>1. PICK n \in S : \A l \in S : n <= l
    BY <2>0, <1>1, LeastNumber
  <2>2. AddsUp(values, 0, [k \in 0..0 |-> 0])
    BY DEF AddsUp
  <2>3. n \in 1..m
    BY <2>1, <2>2
  <2>4. n - 1 \in 0..m /\ n - 1 \notin S
    BY <2>1, <2>3
  <2>5. PICK g : AddsUp(values, n - 1, g)
    BY <2>4
  <2> DEFINE h == [k \in 0..n |-> IF k = n THEN g[n - 1] + values[n] ELSE g[k]]
  <2>6. h \in [0..n -> Nat]
    BY <2>3, <2>5 DEF AddsUp
  <2>7. h[0] = 0
    BY <2>3, <2>5 DEF AddsUp
  <2>8. ASSUME NEW k \in 1..n
        PROVE  h[k] = h[k - 1] + values[k]
    <3>1. CASE k = n
      BY <2>3, <3>1
    <3>2. CASE k # n
      <4>1. k \in 1..(n - 1) /\ k - 1 # n /\ k - 1 \in 0..n /\ k \in 0..n
        BY <2>3, <3>2
      <4>2. g[k] = g[k - 1] + values[k]
        BY <2>5, <4>1 DEF AddsUp
      <4> QED
        BY <3>2, <4>1, <4>2
    <3> QED
      BY <3>1, <3>2
  <2> HIDE DEF h
  <2>9. AddsUp(values, n, h)
    BY <2>6, <2>7, <2>8 DEF AddsUp
  <2> QED
    BY <2>1, <2>9
<1> QED
  BY <1>1

LEMMA TotalAddsUp ==
    ASSUME NEW m \in Nat, NEW values \in [1..m -> Nat]
    PROVE  \E sum : AddsUp(values, m, sum) /\ Total(values) = sum[m]
<1>1. values \in Seq(Nat) /\ Len(values) = m
  OBVIOUS
<1> DEFINE F(s, k) == IF k = 0 THEN 0 ELSE s[k - 1] + values[k]
           sum == CHOOSE s : s = [k \in 0..m |-> F(s, k)]
<1>2. PICK g : AddsUp(values, m, g)
  BY SumsExist
<1>3. g = [k \in 0..m |-> F(g, k)]
  <2>1. g = [k \in 0..m |-> g[k]]
    BY <1>2 DEF AddsUp
  <2>2. \A k \in 0..m : g[k] = F(g, k)
    BY <1>2 DEF AddsUp
  <2> HIDE DEF F
  <2> QED
    BY <2>1, <2>2
<1>4. sum = [k \in 0..m |-> F(sum, k)]
  <2> HIDE DEF F
  <2> QED
    BY <1>3
<1>5. Total(values) = sum[m]
  BY <1>1 DEF Total
<1>6. \A k \in 0..m : sum[k] = F(sum, k)
  <2> HIDE DEF sum, F
  <2> QED
    BY <1>4
<1>7. \A k \in 0..m : sum[k] \in Nat
  <2> DEFINE S == {k \in 0..m : sum[k] \notin Nat}
  <2>1. ASSUME S # {}
        PROVE  FALSE
    <3>0. S \in SUBSET Nat
      OBVIOUS
    <3>1. PICK n \in S : \A l \in S : n <= l
      BY <3>0, <2>1, LeastNumber
    <3> HIDE DEF sum
    <3>2. n # 0
      BY <1>6, <3>1
    <3>3. n - 1 \in 0..m /\ n - 1 \notin S
      BY <3>1, <3>2
    <3>4. sum[n - 1] \in Nat /\ sum[n] = sum[n - 1] + values[n]
      BY <1>6, <3>1, <3>2, <3>3
    <3> QED
      BY <3>1, <3>2, <3>4
  <2> QED
    BY <2>1
<1>8. sum \in [0..m -> Nat]
  <2> HIDE DEF sum, F
  <2>1. sum = [k \in 0..m |-> sum[k]]
    BY <1>4, <1>6
  <2> QED
    BY <1>7, <2>1
<1>9. AddsUp(values, m, sum)
  <2> HIDE DEF sum
  <2> QED
    BY <1>6, <1>8 DEF AddsUp
<1> QED
  BY <1>5, <1>9

\* A sum of naturals is no less than any of them, and is that one if the others are 0.
LEMMA TotalBounds ==
    ASSUME NEW m \in Nat, NEW values \in [1..m -> Nat]
    PROVE  /\ Total(values) \in Nat
           /\ \A k \in 1..m : values[k] <= Total(values)
           /\ \A k \in 1..m : (\A l \in 1..m : l # k => values[l] = 0) => Total(values) = values[k]
<1>1. PICK sum : AddsUp(values, m, sum) /\ Total(values) = sum[m]
  BY TotalAddsUp
<1>2. \A k \in 0..m : sum[k] \in Nat
  BY <1>1 DEF AddsUp
<1>3. \A k \in 1..m : sum[k] = sum[k - 1] + values[k]
  BY <1>1 DEF AddsUp
<1>4. ASSUME NEW k \in 1..m
      PROVE  \A n \in k..m : values[k] <= sum[n]
  <2> DEFINE S == {n \in k..m : ~(values[k] <= sum[n])}
  <2>1. ASSUME S # {}
        PROVE  FALSE
    <3>0. S \in SUBSET Nat
      OBVIOUS
    <3>1. PICK n \in S : \A l \in S : n <= l
      BY <3>0, <2>1, LeastNumber
    <3>2. sum[n] = sum[n - 1] + values[n] /\ sum[n - 1] \in Nat /\ values[n] \in Nat /\ values[k] \in Nat
      BY <1>2, <1>3, <3>1
    <3>3. n # k
      BY <3>1, <3>2
    <3>4. n - 1 \in k..m /\ n - 1 \notin S
      BY <3>1, <3>3
    <3> QED
      BY <3>1, <3>2, <3>4
  <2> QED
    BY <2>1
<1>5. ASSUME NEW k \in 1..m, \A l \in 1..m : l # k => values[l] = 0
      PROVE  \A n \in 0..m : sum[n] = IF n < k THEN 0 ELSE values[k]
  <2> DEFINE S == {n \in 0..m : ~(sum[n] = IF n < k THEN 0 ELSE values[k])}
  <2>1. ASSUME S # {}
        PROVE  FALSE
    <3>0. S \in SUBSET Nat
      OBVIOUS
    <3>1. PICK n \in S : \A l \in S : n <= l
      BY <3>0, <2>1, LeastNumber
    <3>2. sum[0] = 0
      BY <1>1 DEF AddsUp
    <3>3. n \in 1..m
      BY <3>1, <3>2
    <3>4. sum[n] = sum[n - 1] + values[n] /\ sum[n - 1] \in Nat /\ values[n] \in Nat /\ values[k] \in Nat
      BY <1>2, <1>3, <3>3
    <3>5. sum[n - 1] = IF n - 1 < k THEN 0 ELSE values[k]
      BY <3>1, <3>3
    <3>6. CASE n = k
      BY <3>1, <3>4, <3>5, <3>6
    <3>7. CASE n # k
      BY <1>5, <3>1, <3>3, <3>4, <3>5, <3>7
    <3> QED
      BY <3>6, <3>7
  <2> QED
    BY <2>1
<1> QED
  BY <1>1, <1>2, <1>4, <1>5

-----------------------------------------------------------------------------
(* Rankings of actions by the votes cast for them.                         *)

AreVotes(votes, m) ==
    /\ m \in Nat /\ DOMAIN votes = 1..m
    /\ \A i \in 1..m : votes[i].score \in Nat

\* Of what is cast, the vote at i is the only one for a.
IsOnlyVote(votes, cast, i, a) == \A j \in cast : votes[j].action = a <=> j = i

LEMMA SumForIs ==
    ASSUME NEW m, NEW votes, AreVotes(votes, m), NEW cast \in SUBSET (1..m), NEW a
    PROVE  /\ SumFor(votes, cast, a) \in Nat
           /\ \A i \in cast : votes[i].action = a => votes[i].score <= SumFor(votes, cast, a)
           /\ \A i \in cast : IsOnlyVote(votes, cast, i, a) => SumFor(votes, cast, a) = votes[i].score
<1> DEFINE values == [i \in 1..m |-> IF i \in cast /\ votes[i].action = a THEN votes[i].score ELSE 0]
<1>1. m \in Nat /\ SumFor(votes, cast, a) = Total(values)
  BY DEF AreVotes, SumFor
<1>2. values \in [1..m -> Nat]
  BY DEF AreVotes
<1>3. \A i \in 1..m :
         values[i] = IF i \in cast /\ votes[i].action = a THEN votes[i].score ELSE 0
  OBVIOUS
<1> HIDE DEF values
<1>4. /\ Total(values) \in Nat
      /\ \A k \in 1..m : values[k] <= Total(values)
      /\ \A k \in 1..m : (\A l \in 1..m : l # k => values[l] = 0) => Total(values) = values[k]
  BY <1>1, <1>2, TotalBounds
<1>5. ASSUME NEW i \in cast, votes[i].action = a
      PROVE  votes[i].score <= Total(values)
  <2>1. i \in 1..m /\ values[i] = votes[i].score
    BY <1>3, <1>5
  <2> QED
    BY <1>4, <2>1
<1>6. ASSUME NEW i \in cast, IsOnlyVote(votes, cast, i, a)
      PROVE  Total(values) = votes[i].score
  <2>1. i \in 1..m /\ values[i] = votes[i].score
    BY <1>3, <1>6 DEF IsOnlyVote
  <2>2. \A l \in 1..m : l # i => values[l] = 0
    BY <1>3, <1>6 DEF IsOnlyVote
  <2> QED
    BY <1>4, <2>1, <2>2
<1> QED
  BY <1>1, <1>4, <1>5, <1>6

\* R has what is cast, each action once with its sum, the highest sum first.
IsRanked(R, n, votes, cast) ==
    /\ n \in Nat /\ DOMAIN R = 1..n
    /\ \A k \in 1..n : /\ R[k] = [action |-> R[k].action, score |-> SumFor(votes, cast, R[k].action)]
                       /\ \E i \in cast : R[k].action = votes[i].action
    /\ \A i \in cast : \E k \in 1..n : R[k].action = votes[i].action
    /\ \A k, l \in 1..n : k < l => R[k].action # R[l].action /\ R[k].score >= R[l].score

\* Whatever is first: that of equal sums the first is ahead is an order.
LEMMA SumsAreOrdered ==
    ASSUME NEW S, NEW sum \in [S -> Nat], NEW first \in [S -> Nat], NEW ahead,
           \A x, y \in S : first[x] = first[y] => x = y,
           ahead = [a \in S |->
                      {b \in S : sum[b] > sum[a] \/ (sum[b] = sum[a] /\ first[b] < first[a])}]
    PROVE  IsOrder(S, ahead)
<1>1. \A a \in S : sum[a] \in Nat /\ first[a] \in Nat
  OBVIOUS
<1>2. \A a, b \in S :
         b \in ahead[a] <=> (sum[b] > sum[a] \/ (sum[b] = sum[a] /\ first[b] < first[a]))
  OBVIOUS
<1>3. ahead \in [S -> SUBSET S]
  OBVIOUS
<1>4. \A x \in S : x \notin ahead[x]
  BY <1>1, <1>2
<1>5. ASSUME NEW x \in S, NEW y \in S, y \in ahead[x], NEW z \in ahead[y]
      PROVE  z \in ahead[x]
  <2>1. z \in S
    BY <1>3, <1>5
  <2> QED
    BY <1>1, <1>2, <1>5, <2>1
<1>6. ASSUME NEW x \in S, NEW y \in S, x # y
      PROVE  x \in ahead[y] \/ y \in ahead[x]
  <2>1. first[x] # first[y]
    BY <1>6
  <2> QED
    BY <1>1, <1>2, <2>1
<1> QED
  BY <1>3, <1>4, <1>5, <1>6 DEF IsOrder

LEMMA FirstForIs ==
    ASSUME NEW m, NEW votes, AreVotes(votes, m), NEW cast \in SUBSET (1..m),
           NEW a, \E i \in cast : votes[i].action = a
    PROVE  FirstFor(votes, cast, a) \in cast /\ votes[FirstFor(votes, cast, a)].action = a
<1> DEFINE S == {i \in cast : votes[i].action = a}
<1>1. S \in SUBSET Nat /\ S # {}
  <2>1. \A i \in cast : i \in Nat
    BY DEF AreVotes
  <2> QED
    BY <2>1
<1>2. \E i \in S : \A j \in S : i <= j
  <2> HIDE DEF S
  <2> QED
    BY <1>1, LeastNumber
<1>3. \E i \in cast : votes[i].action = a /\ \A j \in cast : votes[j].action = a => i <= j
  BY <1>2
<1> QED
  BY <1>3 DEF FirstFor

LEMMA RankingIsRanked ==
    ASSUME NEW m, NEW votes, AreVotes(votes, m), NEW cast \in SUBSET (1..m)
    PROVE  \E n : IsRanked(Ranking(votes, cast), n, votes, cast)
<1> DEFINE voted == {votes[i].action : i \in cast}
           sum == [a \in voted |-> SumFor(votes, cast, a)]
           first == [a \in voted |-> FirstFor(votes, cast, a)]
           ahead == [a \in voted |->
                      {b \in voted : sum[b] > sum[a] \/ (sum[b] = sum[a] /\ first[b] < first[a])}]
           order == Arranged(voted, ahead)
           R == [k \in DOMAIN order |-> [action |-> order[k], score |-> sum[order[k]]]]
           n == Cardinality(voted)
<1>1. m \in Nat /\ IsFiniteSet(cast)
  <2>1. m \in Nat /\ IsFiniteSet(1..m)
    BY FS_Interval DEF AreVotes
  <2> QED
    BY <2>1, FS_Subset
<1>2. IsFiniteSet(voted)
  <2> DEFINE f == [i \in cast |-> votes[i].action]
  <2>1. f \in Surjection(cast, voted)
    BY DEF Surjection
  <2> HIDE DEF f, voted
  <2> QED
    BY <1>1, <2>1, FS_Surjection
<1>3. \A a \in voted : \E i \in cast : votes[i].action = a
  OBVIOUS
<1>4. sum \in [voted -> Nat]
  <2>1. \A a \in voted : SumFor(votes, cast, a) \in Nat
    BY SumForIs
  <2> QED
    BY <2>1
<1>5. \A a \in voted : first[a] \in cast /\ votes[first[a]].action = a
  <2> HIDE DEF voted
  <2> QED
    BY <1>3, FirstForIs
<1>6. first \in [voted -> Nat]
  <2>1. \A i \in cast : i \in Nat
    BY <1>1
  <2> HIDE DEF voted
  <2>2. \A a \in voted : first[a] \in Nat
    <3> HIDE DEF first
    <3> QED
      BY <1>5, <2>1
  <2> QED
    BY <2>2
<1>7. \A x, y \in voted : first[x] = first[y] => x = y
  <2> HIDE DEF voted, first
  <2> QED
    BY <1>5
<1>8. IsOrder(voted, ahead)
  <2> HIDE DEF voted, sum, first
  <2> QED
    BY <1>4, <1>6, <1>7, SumsAreOrdered
<1>9. /\ n \in Nat /\ order \in [1..n -> voted]
      /\ \A x \in voted : \E p \in 1..n : order[p] = x
      /\ \A p, q \in 1..n : p < q => order[p] \in ahead[order[q]]
  <2> HIDE DEF voted, ahead
  <2> QED
    BY <1>2, <1>8, ArrangedInOrder
<1>10. Ranking(votes, cast) = R
  BY DEF Ranking
<1>11. \A a \in voted : sum[a] = SumFor(votes, cast, a)
  OBVIOUS
<1>12. \A a, b \in voted : a \in ahead[b] => a # b /\ sum[a] >= sum[b]
  <2> HIDE DEF voted, sum, first
  <2>1. \A a \in voted : sum[a] \in Nat /\ first[a] \in Nat
    BY <1>4, <1>6
  <2> QED
    BY <2>1
<1>13. DOMAIN R = 1..n /\ \A k \in 1..n : order[k] \in voted /\ R[k] = [action |-> order[k], score |-> sum[order[k]]]
  <2> HIDE DEF order, n, voted, sum
  <2> QED
    BY <1>9
<1> HIDE DEF R, order, n, ahead, sum, first
<1>14. IsRanked(R, n, votes, cast)
  <2>1. \A k \in 1..n : /\ R[k] = [action |-> R[k].action, score |-> SumFor(votes, cast, R[k].action)]
                        /\ \E i \in cast : R[k].action = votes[i].action
    BY <1>11, <1>13
  <2>2. \A i \in cast : \E k \in 1..n : R[k].action = votes[i].action
    <3> TAKE i \in cast
    <3>1. PICK a \in voted : a = votes[i].action
      OBVIOUS
    <3>2. \A k \in 1..n : R[k].action = order[k]
      BY <1>13
    <3> HIDE DEF voted
    <3> QED
      BY <1>9, <3>1, <3>2
  <2>3. \A k, l \in 1..n : k < l => R[k].action # R[l].action /\ R[k].score >= R[l].score
    <3> HIDE DEF voted
    <3> TAKE k, l \in 1..n
    <3>1. R[k].action = order[k] /\ R[k].score = sum[order[k]] /\ R[l].action = order[l] /\ R[l].score = sum[order[l]]
      BY <1>13
    <3>2. k < l => order[k] \in ahead[order[l]] /\ order[k] \in voted /\ order[l] \in voted
      BY <1>9
    <3> QED
      BY <1>12, <3>1, <3>2
  <2> QED
    BY <1>9, <1>13, <2>1, <2>2, <2>3 DEF IsRanked
<1> QED
  BY <1>10, <1>14

-----------------------------------------------------------------------------
(* The rules, one section after the other.                                 *)

\* r is a rule, whenever it fires.
IsRule(r) == r.action \in Catalog /\ r.score \in 0..100 /\ r.risk \in 0..100

HasLength(s, n) == n \in Nat /\ s = [i \in 1..n |-> s[i]]

\* The k elements of s are the m of a and then the n of b.
AreJoined(s, k, a, m, b, n) ==
    /\ HasLength(s, k)
    /\ \A i \in 1..m : s[i] = a[i]
    /\ \A i \in 1..n : s[m + i] = b[i]

LEMMA Joined ==
    ASSUME NEW m, NEW n, NEW a, NEW b, HasLength(a, m), HasLength(b, n), NEW k, k = m + n
    PROVE  AreJoined(a \o b, k, a, m, b, n)
<1> DEFINE S == {a[i] : i \in 1..m} \cup {b[i] : i \in 1..n}
<1>1. m \in Nat /\ n \in Nat /\ a \in [1..m -> S] /\ b \in [1..n -> S]
  BY DEF HasLength
<1> HIDE DEF S
<1>2. a \in Seq(S) /\ Len(a) = m /\ b \in Seq(S) /\ Len(b) = n
  BY <1>1
<1>3. /\ a \o b \in Seq(S) /\ Len(a \o b) = m + n
      /\ \A i \in 1..(m + n) : (a \o b)[i] = IF i <= m THEN a[i] ELSE b[i - m]
  BY <1>2, ConcatProperties
<1>4. DOMAIN (a \o b) = 1..(m + n)
  BY <1>1, <1>3
<1>5. a \o b = [i \in 1..(m + n) |-> (a \o b)[i]]
  <2>1. a \o b \in [1..Len(a \o b) -> S]
    BY <1>3, LenProperties
  <2> QED
    BY <1>3, <2>1
<1>6. \A i \in 1..m : i \in 1..(m + n) /\ i <= m
  BY <1>1
<1>7. \A i \in 1..n : m + i \in 1..(m + n) /\ ~(m + i <= m) /\ (m + i) - m = i
  BY <1>1
<1> QED
  BY <1>1, <1>3, <1>5, <1>6, <1>7 DEF HasLength, AreJoined

LEMMA Sections ==
    ASSUME NEW f
    PROVE  /\ HasLength(ServiceRules(f), 8)
           /\ HasLength(ConsumerRules(f), 3)
           /\ HasLength(BusinessRules(f), 4)
           /\ HasLength(GuardRules(f), 6)
           /\ HasLength(ChatRules(f), 3)
           /\ HasLength(NoRule(f), 2)
<1>1. HasLength(ServiceRules(f), 8)
  BY DEF ServiceRules, HasLength
<1>2. HasLength(ConsumerRules(f), 3)
  BY DEF ConsumerRules, HasLength
<1>3. HasLength(BusinessRules(f), 4)
  BY DEF BusinessRules, HasLength
<1>4. HasLength(GuardRules(f), 6)
  BY DEF GuardRules, HasLength
<1>5. HasLength(ChatRules(f), 3)
  BY DEF ChatRules, HasLength
<1>6. HasLength(NoRule(f), 2)
  BY DEF NoRule, HasLength
<1> QED
  BY <1>1, <1>2, <1>3, <1>4, <1>5, <1>6

LEMMA RulesAre ==
    ASSUME NEW f
    PROVE  /\ HasLength(Rules(f), 24)
           /\ \A i \in 1..8 : Rules(f)[i] = ServiceRules(f)[i]
           /\ \A i \in 1..3 : Rules(f)[8 + i] = ConsumerRules(f)[i]
           /\ \A i \in 1..4 : Rules(f)[11 + i] = BusinessRules(f)[i]
           /\ \A i \in 1..6 : Rules(f)[15 + i] = GuardRules(f)[i]
           /\ \A i \in 1..3 : Rules(f)[21 + i] = ChatRules(f)[i]
<1> DEFINE a == ServiceRules(f)
           b == ConsumerRules(f)
           c == BusinessRules(f)
           d == GuardRules(f)
           e == ChatRules(f)
           ab == a \o b
           abc == ab \o c
           abcd == abc \o d
<1>1. /\ HasLength(a, 8) /\ HasLength(b, 3) /\ HasLength(c, 4)
      /\ HasLength(d, 6) /\ HasLength(e, 3)
  BY Sections
<1>2. Rules(f) = abcd \o e
  BY DEF Rules
<1>0. 11 = 8 + 3 /\ 15 = 11 + 4 /\ 21 = 15 + 6 /\ 24 = 21 + 3
  OBVIOUS
<1> HIDE DEF a, b, c, d, e
<1>3. AreJoined(ab, 11, a, 8, b, 3)
  BY <1>0, <1>1, Joined
<1>4. HasLength(ab, 11)
  BY <1>3 DEF AreJoined
<1> HIDE DEF ab
<1>5. AreJoined(abc, 15, ab, 11, c, 4)
  BY <1>0, <1>1, <1>4, Joined
<1>6. HasLength(abc, 15)
  BY <1>5 DEF AreJoined
<1> HIDE DEF abc
<1>7. AreJoined(abcd, 21, abc, 15, d, 6)
  BY <1>0, <1>1, <1>6, Joined
<1>8. HasLength(abcd, 21)
  BY <1>7 DEF AreJoined
<1> HIDE DEF abcd
<1>9. AreJoined(Rules(f), 24, abcd, 21, e, 3)
  BY <1>0, <1>1, <1>2, <1>8, Joined
<1>11. \A i \in 1..8 : Rules(f)[i] = a[i]
  BY <1>3, <1>5, <1>7, <1>9 DEF AreJoined
<1>12. \A i \in 1..3 : Rules(f)[8 + i] = b[i]
  BY <1>3, <1>5, <1>7, <1>9 DEF AreJoined
<1>13. \A i \in 1..4 : Rules(f)[11 + i] = c[i]
  BY <1>5, <1>7, <1>9 DEF AreJoined
<1>14. \A i \in 1..6 : Rules(f)[15 + i] = d[i]
  BY <1>7, <1>9 DEF AreJoined
<1> QED
  BY <1>9, <1>11, <1>12, <1>13, <1>14 DEF AreJoined, a, b, c, d, e

LEMMA RulesAreTyped ==
    ASSUME NEW f
    PROVE  /\ \A i \in 1..24 : IsRule(Rules(f)[i])
           /\ \A i \in 1..2 : IsRule(NoRule(f)[i])
<1> USE DEF IsRule, Rule, Catalog, Informing, ConsumerOrders, BusinessOrders, Verdicts, Support, Fallback
<1>1. \A i \in 1..8 : IsRule(ServiceRules(f)[i])
  BY DEF ServiceRules
<1>2. \A i \in 1..3 : IsRule(ConsumerRules(f)[i])
  BY DEF ConsumerRules
<1>3. \A i \in 1..4 : IsRule(BusinessRules(f)[i])
  BY DEF BusinessRules
<1>4. \A i \in 1..6 : IsRule(GuardRules(f)[i])
  BY DEF GuardRules
<1>5. \A i \in 1..3 : IsRule(ChatRules(f)[i])
  BY DEF ChatRules
<1>6. \A i \in 1..2 : IsRule(NoRule(f)[i])
  BY DEF NoRule
<1> HIDE DEF IsRule
<1>7. ASSUME NEW i \in 1..24
      PROVE  IsRule(Rules(f)[i])
  <2>1. \/ i \in 1..8
        \/ i - 8 \in 1..3 /\ i = 8 + (i - 8)
        \/ i - 11 \in 1..4 /\ i = 11 + (i - 11)
        \/ i - 15 \in 1..6 /\ i = 15 + (i - 15)
        \/ i - 21 \in 1..3 /\ i = 21 + (i - 21)
    OBVIOUS
  <2> QED
    BY <1>1, <1>2, <1>3, <1>4, <1>5, <2>1, RulesAre
<1> QED
  BY <1>6, <1>7

(* An outcome that the service can make a response of. *)
IsCandidates(s, n) ==
    /\ n \in Nat \ {0} /\ DOMAIN s = 1..n
    /\ \A k \in 1..n : s[k] \in [action : Catalog, score : 0..100]
    /\ \A k, l \in 1..n : k < l => s[k].action # s[l].action /\ s[k].score >= s[l].score

IsOutcome(o) == o.risk \in 0..100 /\ \E n : IsCandidates(o.candidates, n)

(* What the rules vote with: the same votes, cast and suited as in ByRules. *)
Votes(f) == IF \E i \in DOMAIN Rules(f) : Rules(f)[i].when THEN Rules(f) ELSE NoRule(f)
Cast(f) == {i \in DOMAIN Votes(f) : Votes(f)[i].when}
Suited(f) == {i \in Cast(f) : Votes(f)[i].action \in Allowed(f.userType)}

LEMMA VotesAre ==
    ASSUME NEW f
    PROVE  \E m : /\ AreVotes(Votes(f), m)
                  /\ Suited(f) \subseteq Cast(f) /\ Cast(f) \subseteq 1..m
                  /\ \A i \in 1..m : IsRule(Votes(f)[i])
<1>1. HasLength(Rules(f), 24) /\ HasLength(NoRule(f), 2)
  BY RulesAre, Sections
<1>2. \E m \in Nat : DOMAIN Votes(f) = 1..m /\ \A i \in 1..m : IsRule(Votes(f)[i])
  <2>1. CASE Votes(f) = Rules(f)
    <3>1. DOMAIN Votes(f) = 1..24
      BY <1>1, <2>1 DEF HasLength
    <3> QED
      BY <2>1, <3>1, RulesAreTyped
  <2>2. CASE Votes(f) = NoRule(f)
    <3>1. DOMAIN Votes(f) = 1..2
      BY <1>1, <2>2 DEF HasLength
    <3> QED
      BY <2>2, <3>1, RulesAreTyped
  <2> QED
    BY <2>1, <2>2 DEF Votes
<1>3. PICK m \in Nat : DOMAIN Votes(f) = 1..m /\ \A i \in 1..m : IsRule(Votes(f)[i])
  BY <1>2
<1>4. AreVotes(Votes(f), m)
  <2>1. ASSUME NEW i \in 1..m
        PROVE  Votes(f)[i].score \in Nat
    <3>1. Votes(f)[i].score \in 0..100
      BY <1>3 DEF IsRule
    <3> QED
      BY <3>1
  <2> QED
    BY <1>3, <2>1 DEF AreVotes
<1> QED
  BY <1>3, <1>4 DEF Cast, Suited

LEMMA LeastIs ==
    ASSUME NEW x \in Nat
    PROVE  /\ Least(100, x) \in 0..100
           /\ \A y \in Nat : x >= y => Least(100, x) >= Least(100, y)
BY DEF Least

LEMMA CappedIsCandidates ==
    ASSUME NEW m, NEW votes, AreVotes(votes, m), NEW cast \in SUBSET (1..m), cast # {},
           \A i \in cast : votes[i].action \in Catalog,
           NEW R, NEW n, IsRanked(R, n, votes, cast)
    PROVE  IsCandidates(Capped(R), n)
<1>1. n \in Nat \ {0} /\ DOMAIN R = 1..n
  <2>1. PICK i \in cast : TRUE
    OBVIOUS
  <2>2. /\ n \in Nat /\ DOMAIN R = 1..n
        /\ \E k \in 1..n : R[k].action = votes[i].action
    BY <2>1 DEF IsRanked
  <2> QED
    BY <2>2
<1>2. ASSUME NEW k \in 1..n
      PROVE  /\ R[k].action \in Catalog /\ R[k].score \in Nat
             /\ R[k] = [action |-> R[k].action, score |-> R[k].score]
  <2>1. /\ R[k] = [action |-> R[k].action, score |-> SumFor(votes, cast, R[k].action)]
        /\ \E i \in cast : R[k].action = votes[i].action
    BY DEF IsRanked
  <2>2. SumFor(votes, cast, R[k].action) \in Nat
    BY SumForIs
  <2> QED
    BY <2>1, <2>2
<1>3. ASSUME NEW k \in 1..n
      PROVE  /\ Capped(R)[k].action = R[k].action
             /\ Capped(R)[k].score = Least(100, R[k].score)
             /\ \A A, B : R[k].action \in A /\ Least(100, R[k].score) \in B =>
                            Capped(R)[k] \in [action : A, score : B]
  <2> DEFINE a == R[k].action
             s == Least(100, R[k].score)
  <2>1. Capped(R)[k] = [R[k] EXCEPT !.score = s]
    BY <1>1 DEF Capped
  <2>2. R[k] = [action |-> a, score |-> R[k].score]
    BY <1>2
  <2> HIDE DEF a, s
  <2>3. Capped(R)[k] = [action |-> a, score |-> s]
    BY <2>1, <2>2
  <2> QED
    BY <2>3 DEF a, s
<1>4. DOMAIN Capped(R) = 1..n
  BY <1>1 DEF Capped
<1>5. \A k \in 1..n : Capped(R)[k] \in [action : Catalog, score : 0..100]
  <2> TAKE k \in 1..n
  <2>1. R[k].action \in Catalog /\ Least(100, R[k].score) \in 0..100
    BY <1>2, LeastIs
  <2> QED
    BY <1>3, <2>1
<1>6. ASSUME NEW k \in 1..n, NEW l \in 1..n, k < l
      PROVE  Capped(R)[k].action # Capped(R)[l].action /\ Capped(R)[k].score >= Capped(R)[l].score
  <2>1. R[k].action # R[l].action /\ R[k].score >= R[l].score
    BY <1>6 DEF IsRanked
  <2>2. Least(100, R[k].score) >= Least(100, R[l].score)
    BY <1>2, <2>1, LeastIs
  <2>3. /\ Capped(R)[k].action = R[k].action /\ Capped(R)[k].score = Least(100, R[k].score)
        /\ Capped(R)[l].action = R[l].action /\ Capped(R)[l].score = Least(100, R[l].score)
    BY <1>3
  <2> QED
    BY <2>1, <2>2, <2>3
<1> QED
  BY <1>1, <1>4, <1>5, <1>6 DEF IsCandidates

LEMMA ByRulesIs ==
    ASSUME NEW f
    PROVE  /\ IsOutcome(ByRules(f))
           /\ Suited(f) # {} => ByRules(f).candidates = Capped(Ranking(Votes(f), Suited(f)))
<1>1. PICK m : /\ AreVotes(Votes(f), m)
               /\ Suited(f) \subseteq Cast(f) /\ Cast(f) \subseteq 1..m
               /\ \A i \in 1..m : IsRule(Votes(f)[i])
  BY VotesAre
<1>2. /\ ByRules(f).candidates = IF Suited(f) = {} THEN <<[action |-> Fallback, score |-> 0]>>
                                 ELSE Capped(Ranking(Votes(f), Suited(f)))
      /\ ByRules(f).risk = Least(100, Total([i \in DOMAIN Votes(f) |->
                                              IF i \in Cast(f) THEN Votes(f)[i].risk ELSE 0]))
  BY DEF ByRules, Votes, Cast, Suited
<1>3. ByRules(f).risk \in 0..100
  <2> DEFINE risks == [i \in 1..m |-> IF i \in Cast(f) THEN Votes(f)[i].risk ELSE 0]
  <2>1. m \in Nat /\ DOMAIN Votes(f) = 1..m
    BY <1>1 DEF AreVotes
  <2>2. risks \in [1..m -> Nat]
    BY <1>1 DEF IsRule
  <2>3. Total(risks) \in Nat
    <3> HIDE DEF risks
    <3> QED
      BY <2>1, <2>2, TotalBounds
  <2>4. ByRules(f).risk = Least(100, Total(risks))
    BY <1>2, <2>1
  <2> HIDE DEF risks
  <2> QED
    BY <2>3, <2>4 DEF Least
<1>4. \E n : IsCandidates(ByRules(f).candidates, n)
  <2>1. CASE Suited(f) = {}
    <3>1. ByRules(f).candidates = <<[action |-> Fallback, score |-> 0]>>
      BY <1>2, <2>1
    <3>2. IsCandidates(ByRules(f).candidates, 1)
      BY <3>1 DEF IsCandidates, Catalog
    <3> QED
      BY <3>2
  <2>2. CASE Suited(f) # {}
    <3>1. Suited(f) \in SUBSET (1..m) /\ \A i \in Suited(f) : Votes(f)[i].action \in Catalog
      BY <1>1 DEF IsRule
    <3>2. PICK n : IsRanked(Ranking(Votes(f), Suited(f)), n, Votes(f), Suited(f))
      BY <1>1, <3>1, RankingIsRanked
    <3>3. IsCandidates(Capped(Ranking(Votes(f), Suited(f))), n)
      BY <1>1, <2>2, <3>1, <3>2, CappedIsCandidates
    <3> QED
      BY <1>2, <2>2, <3>3
  <2> QED
    BY <2>1, <2>2
<1> QED
  BY <1>2, <1>3, <1>4 DEF IsOutcome

-----------------------------------------------------------------------------
(* Division, of what the model and the blend scale.                        *)

LEMMA DivIs ==
    ASSUME NEW a \in Nat, NEW b \in Nat \ {0}
    PROVE  a \div b \in Nat /\ b * (a \div b) <= a /\ a < b * (a \div b) + b
OBVIOUS

LEMMA DivIsMonotonic ==
    ASSUME NEW a \in Nat, NEW c \in Nat, NEW b \in Nat \ {0}, a <= c
    PROVE  a \div b <= c \div b
<1> DEFINE x == a \div b
           y == c \div b
<1>1. x \in Nat /\ y \in Nat /\ b * x <= a /\ c < b * y + b
  BY DivIs
<1> HIDE DEF x, y
<1>2. ASSUME ~(x <= y)
      PROVE  FALSE
  <2>1. x - (y + 1) \in Nat /\ b * x = b * y + b + b * (x - (y + 1)) /\ b * (x - (y + 1)) \in Nat
    BY <1>1, <1>2
  <2>2. b * x \in Nat /\ b * y \in Nat
    BY <1>1
  <2> QED
    BY <1>1, <2>1, <2>2
<1> QED
  BY <1>2 DEF x, y

LEMMA DivIsAtMost ==
    ASSUME NEW a \in Nat, NEW b \in Nat \ {0}, NEW n \in Nat, a <= n * b
    PROVE  a \div b \in 0..n
<1>1. n * b \in Nat /\ (n * b) \div b = n
  OBVIOUS
<1> QED
  BY <1>1, DivIs, DivIsMonotonic

-----------------------------------------------------------------------------
(* What the model comes to.                                                *)

\* Where every sum is a fraction of one, a ranking needs no cap.
LEMMA RankedIsCandidates ==
    ASSUME NEW m, NEW votes, AreVotes(votes, m), NEW cast \in SUBSET (1..m), cast # {},
           \A i \in cast : votes[i].action \in Catalog,
           \A i \in cast : SumFor(votes, cast, votes[i].action) \in 0..100,
           NEW R, NEW n, IsRanked(R, n, votes, cast)
    PROVE  IsCandidates(R, n)
<1>1. n \in Nat \ {0} /\ DOMAIN R = 1..n
  <2>1. PICK i \in cast : TRUE
    OBVIOUS
  <2>2. /\ n \in Nat /\ DOMAIN R = 1..n
        /\ \E k \in 1..n : R[k].action = votes[i].action
    BY <2>1 DEF IsRanked
  <2> QED
    BY <2>2
<1>2. ASSUME NEW k \in 1..n
      PROVE  R[k] \in [action : Catalog, score : 0..100]
  <2> DEFINE a == R[k].action
             s == SumFor(votes, cast, R[k].action)
  <2>1. R[k] = [action |-> a, score |-> s] /\ \E i \in cast : a = votes[i].action
    BY DEF IsRanked
  <2>2. a \in Catalog /\ s \in 0..100
    BY <2>1
  <2> HIDE DEF a, s
  <2> QED
    BY <2>1, <2>2
<1>3. \A k, l \in 1..n : k < l => R[k].action # R[l].action /\ R[k].score >= R[l].score
  BY DEF IsRanked
<1> QED
  BY <1>1, <1>2, <1>3 DEF IsCandidates

\* What a model may answer.
AreModelVotes(votes) ==
    /\ votes \in Seq([action : Catalog, score : 0..100]) /\ votes # <<>>
    /\ \A i, j \in DOMAIN votes : votes[i].action = votes[j].action => i = j

AreFeatures(f) == f.amount \in Nat /\ f.buyerRisk \in 0..100

LEMMA ModelRiskIs ==
    ASSUME NEW f, AreFeatures(f), NEW top, top.score \in 0..100
    PROVE  ModelRisk(f, top) \in 0..100
<1> DEFINE a == ((100 - top.score) * 40) \div 100
           b == Least(40, (f.amount * 40) \div Greatest(1, Ceiling))
           c == (f.buyerRisk * 20) \div 100
           d == IF top.action \in {"approve_purchase", "bulk_order"} THEN 5 ELSE 0
<1>1. a \in Nat
  <2>1. (100 - top.score) * 40 \in Nat
    OBVIOUS
  <2> QED
    BY <2>1, DivIs
<1>2. b \in Int /\ b >= 0
  <2>1. Greatest(1, Ceiling) \in Nat \ {0} /\ f.amount * 40 \in Nat
    BY PolicyAssumption DEF Greatest, AreFeatures
  <2>2. (f.amount * 40) \div Greatest(1, Ceiling) \in Nat
    BY <2>1, DivIs
  <2> QED
    BY <2>2 DEF Least
<1>3. c \in Nat
  <2>1. f.buyerRisk * 20 \in Nat
    BY DEF AreFeatures
  <2> QED
    BY <2>1, DivIs
<1>4. d \in Nat
  OBVIOUS
<1>5. ModelRisk(f, top) = Least(100, a + b + c + d)
  BY DEF ModelRisk
<1> HIDE DEF a, b, c, d
<1>6. a + b + c + d \in Nat
  BY <1>1, <1>2, <1>3, <1>4
<1> QED
  BY <1>5, <1>6, LeastIs

LEMMA ByModelIs ==
    ASSUME NEW f, AreFeatures(f), NEW votes, AreModelVotes(votes)
    PROVE  IsOutcome(ByModel(f, votes))
<1> DEFINE R == Ranking(votes, DOMAIN votes)
<1>1. PICK m \in Nat : m = Len(votes)
  BY DEF AreModelVotes
<1>2. DOMAIN votes = 1..m /\ 1..m # {}
  <2>1. DOMAIN votes = 1..m /\ m # 0
    BY <1>1 DEF AreModelVotes
  <2> QED
    BY <1>1, <2>1
<1>3. \A i \in 1..m : votes[i].action \in Catalog /\ votes[i].score \in 0..100
  <2> TAKE i \in 1..m
  <2>1. votes[i] \in [action : Catalog, score : 0..100]
    BY <1>1, ElementOfSeq DEF AreModelVotes
  <2> QED
    BY <2>1
<1>4. AreVotes(votes, m)
  <2>1. \A i \in 1..m : votes[i].score \in Nat
    BY <1>3
  <2> QED
    BY <1>1, <1>2, <2>1 DEF AreVotes
<1>5. ASSUME NEW i \in 1..m
      PROVE  SumFor(votes, 1..m, votes[i].action) \in 0..100
  <2>1. IsOnlyVote(votes, 1..m, i, votes[i].action)
    BY <1>2 DEF AreModelVotes, IsOnlyVote
  <2>2. PICK cast \in SUBSET (1..m) : cast = 1..m
    OBVIOUS
  <2>3. \A a : \A k \in cast : IsOnlyVote(votes, cast, k, a) => SumFor(votes, cast, a) = votes[k].score
    BY <1>4, SumForIs
  <2>4. SumFor(votes, cast, votes[i].action) = votes[i].score
    <3>1. i \in cast /\ IsOnlyVote(votes, cast, i, votes[i].action)
      BY <2>1, <2>2
    <3> QED
      BY <2>3, <3>1
  <2> QED
    BY <1>3, <2>2, <2>4
<1>6. PICK n : IsRanked(R, n, votes, 1..m)
  BY <1>2, <1>4, RankingIsRanked
<1> HIDE DEF R
<1>7. IsCandidates(R, n)
  BY <1>2, <1>3, <1>4, <1>5, <1>6, RankedIsCandidates
<1>8. R[1].score \in 0..100
  BY <1>7 DEF IsCandidates
<1>9. ModelRisk(f, R[1]) \in 0..100
  BY <1>8, ModelRiskIs
<1>10. ByModel(f, votes).candidates = R /\ ByModel(f, votes).risk = ModelRisk(f, R[1])
  BY DEF ByModel, R
<1> QED
  BY <1>7, <1>9, <1>10 DEF IsOutcome

-----------------------------------------------------------------------------
(* What the blend comes to.                                                *)

Most(R) == IF R[1].score = 0 THEN 1 ELSE R[1].score
Scaled(R) == [k \in DOMAIN R |-> [R[k] EXCEPT !.score = (100 * @) \div Most(R)]]

LEMMA HundredfoldIs ==
    ASSUME NEW x \in Nat, NEW y \in Nat, x <= y
    PROVE  100 * x \in Nat /\ 100 * y \in Nat /\ 100 * x <= 100 * y
OBVIOUS

LEMMA ScaledIsCandidates ==
    ASSUME NEW m, NEW votes, AreVotes(votes, m), NEW cast \in SUBSET (1..m), cast # {},
           \A i \in cast : votes[i].action \in Catalog,
           NEW R, NEW n, IsRanked(R, n, votes, cast)
    PROVE  IsCandidates(Scaled(R), n) /\ Scaled(R)[1].action = R[1].action
<1>1. n \in Nat \ {0} /\ DOMAIN R = 1..n /\ 1 \in 1..n
  <2>1. PICK i \in cast : TRUE
    OBVIOUS
  <2>2. /\ n \in Nat /\ DOMAIN R = 1..n
        /\ \E k \in 1..n : R[k].action = votes[i].action
    BY <2>1 DEF IsRanked
  <2> QED
    BY <2>2
<1>2. ASSUME NEW k \in 1..n
      PROVE  /\ R[k].action \in Catalog /\ R[k].score \in Nat
             /\ R[k] = [action |-> R[k].action, score |-> R[k].score]
  <2>1. /\ R[k] = [action |-> R[k].action, score |-> SumFor(votes, cast, R[k].action)]
        /\ \E i \in cast : R[k].action = votes[i].action
    BY DEF IsRanked
  <2>2. SumFor(votes, cast, R[k].action) \in Nat
    BY SumForIs
  <2> QED
    BY <2>1, <2>2
<1>3. \A k, l \in 1..n : k < l => R[k].action # R[l].action /\ R[k].score >= R[l].score
  BY DEF IsRanked
<1>4. ASSUME NEW k \in 1..n
      PROVE  R[k].score <= Most(R)
  <2>1. R[k].score <= R[1].score
    BY <1>1, <1>2, <1>3
  <2> QED
    BY <1>1, <1>2, <2>1 DEF Most
<1>5. Most(R) \in Nat \ {0}
  BY <1>1, <1>2 DEF Most
<1> DEFINE share(k) == (100 * R[k].score) \div Most(R)
<1>6. ASSUME NEW k \in 1..n
      PROVE  share(k) \in 0..100
  <2>1. 100 * R[k].score \in Nat /\ 100 * R[k].score <= 100 * Most(R)
    BY <1>2, <1>4, <1>5, HundredfoldIs
  <2> QED
    BY <1>5, <2>1, DivIsAtMost
<1>7. ASSUME NEW k \in 1..n, NEW l \in 1..n, k < l
      PROVE  share(k) >= share(l)
  <2>1. 100 * R[k].score \in Nat /\ 100 * R[l].score \in Nat /\ 100 * R[l].score <= 100 * R[k].score
    <3>1. R[l].score \in Nat /\ R[k].score \in Nat /\ R[l].score <= R[k].score
      BY <1>2, <1>3, <1>7
    <3> QED
      BY <3>1, HundredfoldIs
  <2>2. share(l) <= share(k)
    BY <1>5, <2>1, DivIsMonotonic
  <2> QED
    BY <1>6, <2>2
<1>8. DOMAIN Scaled(R) = 1..n
  BY <1>1 DEF Scaled
<1>9. ASSUME NEW k \in 1..n
      PROVE  /\ Scaled(R)[k].action = R[k].action
             /\ Scaled(R)[k].score = share(k)
             /\ Scaled(R)[k] \in [action : Catalog, score : 0..100]
  <2> DEFINE a == R[k].action
             s == share(k)
  <2>1. Scaled(R)[k] = [R[k] EXCEPT !.score = s]
    BY <1>1 DEF Scaled
  <2>2. R[k] = [action |-> a, score |-> R[k].score]
    BY <1>2
  <2>3. a \in Catalog /\ s \in 0..100
    BY <1>2, <1>6
  <2> HIDE DEF a, s
  <2>4. Scaled(R)[k] = [action |-> a, score |-> s]
    BY <2>1, <2>2
  <2>5. Scaled(R)[k].action = a /\ Scaled(R)[k].score = s
    BY <2>4
  <2>6. Scaled(R)[k] \in [action : Catalog, score : 0..100]
    BY <2>3, <2>4
  <2> QED
    BY <2>5, <2>6 DEF a, s
<1>10. ASSUME NEW k \in 1..n, NEW l \in 1..n, k < l
       PROVE  Scaled(R)[k].action # Scaled(R)[l].action /\ Scaled(R)[k].score >= Scaled(R)[l].score
  <2> HIDE DEF share
  <2> QED
    BY <1>3, <1>7, <1>9, <1>10
<1>11. \A k \in 1..n : Scaled(R)[k] \in [action : Catalog, score : 0..100]
  BY <1>9
<1>12. Scaled(R)[1].action = R[1].action
  BY <1>1, <1>9
<1> QED
  BY <1>1, <1>8, <1>10, <1>11, <1>12 DEF IsCandidates

\* The votes of an outcome, weighted.
Weighted(outcome_, weight) ==
    [k \in DOMAIN outcome_.candidates |-> [outcome_.candidates[k] EXCEPT !.score = @ * weight]]

LEMMA WeightedIs ==
    ASSUME NEW o, NEW n, IsCandidates(o.candidates, n), NEW weight \in Nat
    PROVE  /\ HasLength(Weighted(o, weight), n)
           /\ \A k \in 1..n : /\ Weighted(o, weight)[k].action = o.candidates[k].action
                              /\ Weighted(o, weight)[k].score = o.candidates[k].score * weight
                              /\ Weighted(o, weight)[k].action \in Catalog
                              /\ Weighted(o, weight)[k].score \in Nat
<1>1. n \in Nat /\ DOMAIN o.candidates = 1..n
  BY DEF IsCandidates
<1>2. HasLength(Weighted(o, weight), n)
  BY <1>1 DEF HasLength, Weighted
<1>3. ASSUME NEW k \in 1..n
      PROVE  /\ Weighted(o, weight)[k].action = o.candidates[k].action
             /\ Weighted(o, weight)[k].score = o.candidates[k].score * weight
             /\ Weighted(o, weight)[k].action \in Catalog
             /\ Weighted(o, weight)[k].score \in Nat
  <2> DEFINE c == o.candidates[k]
             s == c.score * weight
  <2>1. c \in [action : Catalog, score : 0..100]
    BY DEF IsCandidates
  <2>2. Weighted(o, weight)[k] = [c EXCEPT !.score = s]
    BY <1>1 DEF Weighted
  <2> HIDE DEF c
  <2>3. c.action \in Catalog /\ c.score \in Nat /\ c = [action |-> c.action, score |-> c.score]
    BY <2>1
  <2>4. s \in Nat
    BY <2>3
  <2> HIDE DEF s
  <2>5. Weighted(o, weight)[k] = [action |-> c.action, score |-> s]
    BY <2>2, <2>3
  <2> QED
    BY <2>3, <2>4, <2>5 DEF c, s
<1> QED
  BY <1>2, <1>3

\* What a blend is made of.
BlendVotes(byRules, byModel) ==
    Weighted(byRules, 100 * RulesWeight) \o Weighted(byModel, WeightOfModel(byModel))

LEMMA WeightsAre ==
    ASSUME NEW o
    PROVE  100 * RulesWeight \in Nat /\ WeightOfModel(o) \in Nat
BY PolicyAssumption DEF WeightOfModel

\* k of them: n of the rules and m of the model.
AreBlended(k, a, n, b, m) ==
    /\ k = n + m /\ n \in Nat \ {0} /\ m \in Nat \ {0}
    /\ AreVotes(BlendVotes(a, b), k)
    /\ \A i \in 1..k : BlendVotes(a, b)[i].action \in Catalog
    /\ AreJoined(BlendVotes(a, b), k, Weighted(a, 100 * RulesWeight), n,
                 Weighted(b, WeightOfModel(b)), m)

LEMMA BlendVotesAre ==
    ASSUME NEW a, NEW b, NEW n, NEW m, IsCandidates(a.candidates, n), IsCandidates(b.candidates, m)
    PROVE  \E k : AreBlended(k, a, n, b, m)
<1> DEFINE A == Weighted(a, 100 * RulesWeight)
           B == Weighted(b, WeightOfModel(b))
           s == BlendVotes(a, b)
<1>1. n \in Nat \ {0} /\ m \in Nat \ {0}
  BY DEF IsCandidates
<1>2. HasLength(A, n) /\ \A i \in 1..n : A[i].action \in Catalog /\ A[i].score \in Nat
  BY WeightsAre, WeightedIs
<1>3. HasLength(B, m) /\ \A i \in 1..m : B[i].action \in Catalog /\ B[i].score \in Nat
  BY WeightsAre, WeightedIs
<1>4. PICK k : k = n + m
  OBVIOUS
<1>5. s = A \o B
  BY DEF BlendVotes
<1> HIDE DEF A, B, s
<1>6. AreJoined(s, k, A, n, B, m)
  BY <1>2, <1>3, <1>4, <1>5, Joined
<1>7. ASSUME NEW i \in 1..k
      PROVE  s[i].action \in Catalog /\ s[i].score \in Nat
  <2>1. CASE i \in 1..n
    BY <1>2, <1>6, <2>1 DEF AreJoined
  <2>2. CASE i \notin 1..n
    <3>1. i - n \in 1..m /\ i = n + (i - n)
      BY <1>1, <1>4, <2>2
    <3> QED
      BY <1>3, <1>6, <3>1 DEF AreJoined
  <2> QED
    BY <2>1, <2>2
<1>8. k \in Nat /\ DOMAIN s = 1..k
  BY <1>1, <1>4, <1>6 DEF AreJoined, HasLength
<1>9. AreVotes(s, k)
  BY <1>7, <1>8 DEF AreVotes
<1> QED
  BY <1>1, <1>4, <1>6, <1>7, <1>9 DEF A, B, s, AreBlended

LEMMA BlendIs ==
    ASSUME NEW a, NEW b, IsOutcome(a), IsOutcome(b)
    PROVE  /\ IsOutcome(Blend(a, b))
           /\ \E k, n : /\ AreVotes(BlendVotes(a, b), k)
                        /\ IsRanked(Ranking(BlendVotes(a, b), 1..k), n, BlendVotes(a, b), 1..k)
                        /\ IsCandidates(Blend(a, b).candidates, n)
                        /\ Blend(a, b).candidates[1].action = Ranking(BlendVotes(a, b), 1..k)[1].action
<1>1. PICK na : IsCandidates(a.candidates, na)
  BY DEF IsOutcome
<1>2. PICK nb : IsCandidates(b.candidates, nb)
  BY DEF IsOutcome
<1> DEFINE votes == BlendVotes(a, b)
           R == Ranking(votes, DOMAIN votes)
           wr == 100 * RulesWeight
           wm == WeightOfModel(b)
           risk == (a.risk * wr + b.risk * wm) \div Greatest(1, wr + wm)
<1>3. PICK k : AreBlended(k, a, na, b, nb)
  BY <1>1, <1>2, BlendVotesAre
<1>13. AreVotes(votes, k) /\ \A i \in 1..k : votes[i].action \in Catalog
  BY <1>3 DEF AreBlended
<1>14. k \in Nat \ {0}
  BY <1>3 DEF AreBlended
<1>4. /\ Blend(a, b).candidates = Scaled(R)
      /\ Blend(a, b).risk = IF Unsure(b) THEN Least(100, risk + 5) ELSE risk
  BY DEF Blend, Scaled, Most, BlendVotes, Weighted
<1>5. DOMAIN votes = 1..k /\ 1..k # {}
  BY <1>13, <1>14 DEF AreVotes
<1> HIDE DEF R, votes
<1>6. R = Ranking(votes, 1..k)
  BY <1>5 DEF R
<1>7. PICK n : IsRanked(R, n, votes, 1..k)
  <2>1. \A cast \in SUBSET (1..k) : \E n : IsRanked(Ranking(votes, cast), n, votes, cast)
    BY <1>13, RankingIsRanked
  <2>2. 1..k \in SUBSET (1..k)
    OBVIOUS
  <2> QED
    BY <1>6, <2>1, <2>2
<1>8. IsCandidates(Scaled(R), n) /\ Scaled(R)[1].action = R[1].action
  <2>1. PICK cast \in SUBSET (1..k) : cast = 1..k
    OBVIOUS
  <2>2. cast # {} /\ (\A i \in cast : votes[i].action \in Catalog) /\ IsRanked(R, n, votes, cast)
    BY <1>13, <1>5, <1>7, <2>1
  <2>3. AreVotes(votes, k)
    BY <1>13
  <2> QED
    BY <2>2, <2>3, ScaledIsCandidates
<1>10. risk \in 0..100
  <2>1. wr \in Nat /\ wm \in Nat /\ a.risk \in 0..100 /\ b.risk \in 0..100
    BY WeightsAre DEF IsOutcome
  <2> DEFINE g == Greatest(1, wr + wm)
             x == a.risk
             y == b.risk
  <2> HIDE DEF wr, wm, x, y
  <2>2. g \in Nat \ {0} /\ wr + wm <= g
    BY <2>1 DEF Greatest
  <2>3. x \in 0..100 /\ y \in 0..100
    BY <2>1 DEF x, y
  <2>4. x * wr \in Nat /\ x * wr <= 100 * wr
    BY <2>1, <2>3
  <2>5. y * wm \in Nat /\ y * wm <= 100 * wm
    BY <2>1, <2>3
  <2>6. x * wr + y * wm \in Nat /\ x * wr + y * wm <= 100 * g
    <3> HIDE DEF g
    <3> QED
      BY <2>1, <2>2, <2>4, <2>5
  <2>7. (x * wr + y * wm) \div g \in 0..100
    <3> HIDE DEF g
    <3> QED
      BY <2>2, <2>6, DivIsAtMost
  <2> QED
    BY <2>7 DEF x, y
<1> HIDE DEF risk
<1>11. Blend(a, b).risk \in 0..100
  <2>1. risk + 5 \in Nat
    BY <1>10
  <2> QED
    BY <1>4, <1>10, <2>1, LeastIs
<1>12. IsOutcome(Blend(a, b))
  BY <1>4, <1>8, <1>11 DEF IsOutcome
<1> QED
  BY <1>13, <1>4, <1>6, <1>7, <1>8, <1>12 DEF votes

-----------------------------------------------------------------------------
(* Decisions are well-formed: every outcome is one that a strategy comes   *)
(* to for the request.                                                     *)
OutcomeInv ==
    LET f == Extract(request) IN
    /\ request \in Requests
    /\ by \in {"nobody", "rules", "rules_fallback", "ensemble:rules", "ml", "ensemble"}
    /\ ByRulesAlone => outcome = ByRules(f)
    /\ by = "ml" => \E votes \in ModelVotes : outcome = ByModel(f, votes)
    /\ by = "ensemble" =>
          \E votes \in ModelVotes : outcome = Blend(ByRules(f), ByModel(f, votes))

LEMMA OutcomesFollow == EngineSpec => []OutcomeInv
<1>1. EngineInit => OutcomeInv
  BY DEF EngineInit, OutcomeInv, ByRulesAlone
<1>2. OutcomeInv /\ [EngineNext]_engineVars => OutcomeInv'
  <2> SUFFICES ASSUME OutcomeInv, [EngineNext]_engineVars
               PROVE  OutcomeInv'
    OBVIOUS
  <2> USE DEF Evaluated, Vector
  <2>1. CASE RulesDecide
    BY <2>1 DEF RulesDecide, OutcomeInv, ByRulesAlone
  <2>2. CASE RulesStandIn
    BY <2>2 DEF RulesStandIn, OutcomeInv, ByRulesAlone
  <2>3. CASE EnsembleOfRules
    BY <2>3 DEF EnsembleOfRules, OutcomeInv, ByRulesAlone
  <2>4. ASSUME NEW votes \in ModelVotes, ModelDecides(votes)
        PROVE  OutcomeInv'
    BY <2>4 DEF ModelDecides, OutcomeInv, ByRulesAlone
  <2>5. ASSUME NEW votes \in ModelVotes, EnsembleDecides(votes)
        PROVE  OutcomeInv'
    BY <2>5 DEF EnsembleDecides, OutcomeInv, ByRulesAlone
  <2>6. CASE Respond
    BY <2>6 DEF Respond, OutcomeInv, ByRulesAlone
  <2>7. CASE UNCHANGED engineVars
    BY <2>7 DEF engineVars, OutcomeInv, ByRulesAlone
  <2> QED
    BY <2>1, <2>2, <2>3, <2>4, <2>5, <2>6, <2>7 DEF EngineNext
<1> QED
  BY <1>1, <1>2, PTL DEF EngineSpec

LEMMA FeaturesAre ==
    ASSUME NEW r \in Requests
    PROVE  /\ AreFeatures(Extract(r))
           /\ Extract(r).amount = r.price * Greatest(r.quantity, 1)
           /\ r.price \in Nat /\ r.quantity \in Nat /\ r.budget \in Nat
           /\ Extract(r).budget = r.budget /\ Extract(r).intent = r.intent
           /\ Extract(r).userType = r.userType /\ r.userType \in {"b2b", "b2c"}
<1> DEFINE f == Extract(r)
           amount == r.price * Greatest(r.quantity, 1)
<1>1. /\ r.price \in Nat /\ r.quantity \in Nat /\ r.budget \in Nat /\ r.buyerRisk \in 0..100
      /\ r.userType \in {"b2b", "b2c"}
  BY RequestsAssumption
<1>2. f = [r EXCEPT !.amount = amount]
  BY DEF Extract
<1>3. amount \in Nat
  BY <1>1 DEF Greatest
<1> HIDE DEF amount
<1>4. /\ f.amount = amount /\ f.budget = r.budget /\ f.intent = r.intent
      /\ f.userType = r.userType /\ f.buyerRisk = r.buyerRisk
  BY <1>2, RequestsAssumption
<1> HIDE DEF f
<1> QED
  BY <1>1, <1>3, <1>4 DEF AreFeatures, f, amount

LEMMA OutcomesAre ==
    ASSUME OutcomeInv, by # "nobody"
    PROVE  IsOutcome(outcome)
<1> DEFINE f == Extract(request)
<1>1. AreFeatures(f)
  BY FeaturesAre DEF OutcomeInv
<1>2. \A votes \in ModelVotes : AreModelVotes(votes)
  BY VotesAssumption DEF AreModelVotes
<1> HIDE DEF f
<1>3. IsOutcome(ByRules(f)) /\ \A votes \in ModelVotes : IsOutcome(ByModel(f, votes))
  BY <1>1, <1>2, ByRulesIs, ByModelIs
<1>4. CASE ByRulesAlone
  BY <1>3, <1>4 DEF OutcomeInv, f
<1>5. CASE by = "ml"
  BY <1>3, <1>5 DEF OutcomeInv, f
<1>6. CASE by = "ensemble"
  <2>1. PICK votes \in ModelVotes : outcome = Blend(ByRules(f), ByModel(f, votes))
    BY <1>6 DEF OutcomeInv, f
  <2> QED
    BY <1>3, <2>1, BlendIs
<1> QED
  BY <1>4, <1>5, <1>6 DEF OutcomeInv, ByRulesAlone

\* The first n of candidates are candidates.
LEMMA FirstOnes ==
    ASSUME NEW s, NEW n, IsCandidates(s, n), NEW k \in 1..n
    PROVE  LET t == SubSeq(s, 1, k) IN
           /\ Len(t) = k /\ DOMAIN t = 1..k
           /\ \A l \in 1..k : t[l] = s[l]
<1>1. n \in Nat /\ DOMAIN s = 1..n /\ k \in Nat
  BY DEF IsCandidates
<1> QED
  BY <1>1

(* Whatever strategies and models come to, the response is one that the    *)
(* schema accepts.                                                         *)
THEOREM DecisionsAreWellFormed == EngineSpec => []ProperResponse
<1>1. AnswerInv /\ OutcomeInv => ProperResponse
  <2> SUFFICES ASSUME AnswerInv, OutcomeInv, Answered
               PROVE  /\ Len(response.candidates) \in 1..(1 + TopK)
                      /\ \A k \in DOMAIN response.candidates :
                            /\ response.candidates[k].action \in Catalog
                            /\ response.candidates[k].score \in 0..100
                            /\ \A l \in 1..(k - 1) :
                                  /\ response.candidates[l].score >= response.candidates[k].score
                                  /\ response.candidates[l].action # response.candidates[k].action
                      /\ response.risk \in 0..100
    BY DEF ProperResponse
  <2>1. by # "nobody" /\ response = Response(Extract(request), outcome)
    BY DEF AnswerInv, Answered
  <2>2. IsOutcome(outcome)
    BY <2>1, OutcomesAre
  <2> DEFINE s == outcome.candidates
  <2>3. PICK n : IsCandidates(s, n)
    BY <2>2 DEF IsOutcome
  <2>4. PICK k : k = Least(1 + TopK, Len(s))
    OBVIOUS
  <2>5. response.candidates = SubSeq(s, 1, k) /\ response.risk = outcome.risk
    BY <2>1, <2>4 DEF Response
  <2> HIDE DEF s
  <2>6. n \in Nat \ {0} /\ Len(s) = n
    BY <2>3 DEF IsCandidates
  <2>7. k \in 1..n /\ k \in 1..(1 + TopK)
    BY <2>4, <2>6, PolicyAssumption DEF Least
  <2>8. /\ Len(response.candidates) = k /\ DOMAIN response.candidates = 1..k
        /\ \A l \in 1..k : response.candidates[l] = s[l]
    BY <2>3, <2>5, <2>7, FirstOnes
  <2>9. \A i \in 1..k : i \in 1..n
    BY <2>6, <2>7
  <2>10. \A i \in 1..k : s[i].action \in Catalog /\ s[i].score \in 0..100
    BY <2>3, <2>9 DEF IsCandidates
  <2>11. ASSUME NEW i \in 1..k, NEW l \in 1..(i - 1)
         PROVE  l \in 1..k /\ s[l].score >= s[i].score /\ s[l].action # s[i].action
    <3>1. l \in 1..k /\ l < i
      BY <2>7
    <3> QED
      BY <2>3, <2>9, <3>1 DEF IsCandidates
  <2>12. response.risk \in 0..100
    BY <2>2, <2>5 DEF IsOutcome
  <2> QED
    BY <2>7, <2>8, <2>10, <2>11, <2>12
<1> QED
  BY <1>1, AnswersFollow, OutcomesFollow, PTL

-----------------------------------------------------------------------------
(* Which rules can fire for an order or a request for a quote, what they   *)
(* vote for and how loud.                                                  *)
Orders == {"place_order", "bulk_order", "request_quote"}

Fired(f, i) ==
    \/ i = 8 /\ Rules(f)[i].action = "recommend_alternatives" /\ Rules(f)[i].score = 65
    \/ i = 9 /\ Rules(f)[i].action = "proceed_to_checkout" /\ Rules(f)[i].score = 85 /\ ~FarOverBudget(f)
    \/ i = 11 /\ Rules(f)[i].action = "wait_for_promotion" /\ Rules(f)[i].score = 45
    \/ i = 12 /\ Rules(f)[i].action = "request_quote" /\ Rules(f)[i].score = 85
    \/ i = 13 /\ Rules(f)[i].action = "bulk_order" /\ Rules(f)[i].score = 80
    \/ i = 16 /\ Rules(f)[i].action = "approve_purchase" /\ Rules(f)[i].score = 75
    \/ i = 17 /\ Rules(f)[i].action = "escalate_to_human" /\ Rules(f)[i].score = 90
    \/ i = 18 /\ Rules(f)[i].action = "reject_purchase" /\ Rules(f)[i].score = 80
    \/ i = 19 /\ Rules(f)[i].action = "defer_decision" /\ Rules(f)[i].score = 55
    \/ i = 20 /\ Rules(f)[i].action = "escalate_to_human" /\ Rules(f)[i].score = 70
    \/ i = 21 /\ Rules(f)[i].action = "contact_supplier" /\ Rules(f)[i].score = 50
    \/ i = 24 /\ Rules(f)[i].action = "request_more_info" /\ Rules(f)[i].score = 55

\* The places of those rules that are spoken of.
LEMMA Places ==
    ASSUME NEW f
    PROVE  /\ \A i \in 1..8 : Rules(f)[i] = ServiceRules(f)[i]
           /\ Rules(f)[9] = ConsumerRules(f)[1]
           /\ Rules(f)[10] = ConsumerRules(f)[2]
           /\ Rules(f)[11] = ConsumerRules(f)[3]
           /\ Rules(f)[12] = BusinessRules(f)[1]
           /\ Rules(f)[13] = BusinessRules(f)[2]
           /\ Rules(f)[14] = BusinessRules(f)[3]
           /\ Rules(f)[15] = BusinessRules(f)[4]
           /\ Rules(f)[16] = GuardRules(f)[1]
           /\ Rules(f)[17] = GuardRules(f)[2]
           /\ Rules(f)[18] = GuardRules(f)[3]
           /\ Rules(f)[19] = GuardRules(f)[4]
           /\ Rules(f)[20] = GuardRules(f)[5]
           /\ Rules(f)[21] = GuardRules(f)[6]
           /\ Rules(f)[22] = ChatRules(f)[1]
           /\ Rules(f)[23] = ChatRules(f)[2]
           /\ Rules(f)[24] = ChatRules(f)[3]
<1>1. /\ Rules(f)[8 + 1] = ConsumerRules(f)[1]
      /\ Rules(f)[8 + 2] = ConsumerRules(f)[2]
      /\ Rules(f)[8 + 3] = ConsumerRules(f)[3]
  BY RulesAre
<1>2. /\ Rules(f)[11 + 1] = BusinessRules(f)[1]
      /\ Rules(f)[11 + 2] = BusinessRules(f)[2]
      /\ Rules(f)[11 + 3] = BusinessRules(f)[3]
      /\ Rules(f)[11 + 4] = BusinessRules(f)[4]
  BY RulesAre
<1>3. /\ Rules(f)[15 + 1] = GuardRules(f)[1]
      /\ Rules(f)[15 + 2] = GuardRules(f)[2]
      /\ Rules(f)[15 + 3] = GuardRules(f)[3]
      /\ Rules(f)[15 + 4] = GuardRules(f)[4]
      /\ Rules(f)[15 + 5] = GuardRules(f)[5]
      /\ Rules(f)[15 + 6] = GuardRules(f)[6]
  BY RulesAre
<1>4. /\ Rules(f)[21 + 1] = ChatRules(f)[1]
      /\ Rules(f)[21 + 2] = ChatRules(f)[2]
      /\ Rules(f)[21 + 3] = ChatRules(f)[3]
  BY RulesAre
<1> QED
  BY <1>1, <1>2, <1>3, <1>4, RulesAre

LEMMA SilentRules ==
    ASSUME NEW f, f.intent \in Orders
    PROVE  \A i \in {1, 2, 3, 4, 5, 6, 7, 10, 14, 15, 22, 23} : ~Rules(f)[i].when
<1>1. ~ServiceRules(f)[1].when
  BY DEF ServiceRules, Rule, Orders
<1>2. ~ServiceRules(f)[2].when
  BY DEF ServiceRules, Rule, Orders
<1>3. ~ServiceRules(f)[3].when
  BY DEF ServiceRules, Rule, Orders
<1>4. ~ServiceRules(f)[4].when
  BY DEF ServiceRules, Rule, Orders
<1>5. ~ServiceRules(f)[5].when
  BY DEF ServiceRules, Rule, Orders
<1>6. ~ServiceRules(f)[6].when
  BY DEF ServiceRules, Rule, Orders
<1>7. ~ServiceRules(f)[7].when
  BY DEF ServiceRules, Rule, Orders
<1>8. ~ConsumerRules(f)[2].when
  BY DEF ConsumerRules, Rule, Orders
<1>9. ~BusinessRules(f)[3].when
  BY DEF BusinessRules, Rule, Orders
<1>10. ~BusinessRules(f)[4].when
  BY DEF BusinessRules, Rule, Orders
<1>11. ~ChatRules(f)[1].when
  BY DEF ChatRules, Rule, Orders
<1>12. ~ChatRules(f)[2].when
  BY DEF ChatRules, Rule, Orders
<1> QED
  BY <1>1, <1>2, <1>3, <1>4, <1>5, <1>6, <1>7, <1>8, <1>9, <1>10, <1>11, <1>12, Places

LEMMA LoudRules ==
    ASSUME NEW f
    PROVE  /\ \A i \in {8, 11, 12, 13, 16, 17, 18, 19, 20, 21, 24} : Fired(f, i)
           /\ Rules(f)[9].when => Fired(f, 9)
           /\ f.amount >= Ceiling => Rules(f)[17].when
           /\ f.amount > 0 /\ FarOverBudget(f) => Rules(f)[18].when
<1>1. ServiceRules(f)[8].action = "recommend_alternatives" /\ ServiceRules(f)[8].score = 65
  BY DEF ServiceRules, Rule
<1>2. ConsumerRules(f)[1].action = "proceed_to_checkout" /\ ConsumerRules(f)[1].score = 85
  BY DEF ConsumerRules, Rule
<1>3. ConsumerRules(f)[3].action = "wait_for_promotion" /\ ConsumerRules(f)[3].score = 45
  BY DEF ConsumerRules, Rule
<1>4. BusinessRules(f)[1].action = "request_quote" /\ BusinessRules(f)[1].score = 85
  BY DEF BusinessRules, Rule
<1>5. BusinessRules(f)[2].action = "bulk_order" /\ BusinessRules(f)[2].score = 80
  BY DEF BusinessRules, Rule
<1>6. GuardRules(f)[1].action = "approve_purchase" /\ GuardRules(f)[1].score = 75
  BY DEF GuardRules, Rule
<1>7. GuardRules(f)[2].action = "escalate_to_human" /\ GuardRules(f)[2].score = 90
  BY DEF GuardRules, Rule
<1>8. GuardRules(f)[3].action = "reject_purchase" /\ GuardRules(f)[3].score = 80
  BY DEF GuardRules, Rule
<1>9. GuardRules(f)[4].action = "defer_decision" /\ GuardRules(f)[4].score = 55
  BY DEF GuardRules, Rule
<1>10. GuardRules(f)[5].action = "escalate_to_human" /\ GuardRules(f)[5].score = 70
  BY DEF GuardRules, Rule
<1>11. GuardRules(f)[6].action = "contact_supplier" /\ GuardRules(f)[6].score = 50
  BY DEF GuardRules, Rule
<1>12. ChatRules(f)[3].action = "request_more_info" /\ ChatRules(f)[3].score = 55
  BY DEF ChatRules, Rule
<1>13. ConsumerRules(f)[1].when => ~FarOverBudget(f)
  BY DEF ConsumerRules, Rule
<1>14. f.amount >= Ceiling => GuardRules(f)[2].when
  BY DEF GuardRules, Rule
<1>15. f.amount > 0 /\ FarOverBudget(f) => GuardRules(f)[3].when
  BY DEF GuardRules, Rule
<1>16. \A i \in {8, 11, 12, 13, 16, 17, 18, 19, 20, 21, 24} : Fired(f, i)
  BY <1>1, <1>2, <1>3, <1>4, <1>5, <1>6, <1>7, <1>8, <1>9, <1>10, <1>11, <1>12, Places DEF Fired
<1>17. Rules(f)[9].when => Fired(f, 9)
  BY <1>2, <1>13, Places DEF Fired
<1> QED
  BY <1>14, <1>15, <1>16, <1>17, Places

LEMMA OrdersFire ==
    ASSUME NEW f, f.intent \in Orders, NEW i \in 1..24, Rules(f)[i].when
    PROVE  Fired(f, i)
<1>1. i \in {1, 2, 3, 4, 5, 6, 7, 10, 14, 15, 22, 23} \cup {8, 11, 12, 13, 16, 17, 18, 19, 20, 21, 24} \cup {9}
  OBVIOUS
<1> QED
  BY <1>1, SilentRules, LoudRules

\* One rule for each action, but two that escalate.
LEMMA OrdersFireOnce ==
    ASSUME NEW f, f.intent \in Orders, NEW i \in 1..24, Rules(f)[i].when,
           NEW j \in 1..24, Rules(f)[j].when, Rules(f)[i].action = Rules(f)[j].action,
           Rules(f)[i].action # "escalate_to_human"
    PROVE  i = j
<1>1. Fired(f, i) /\ Fired(f, j)
  BY OrdersFire
<1> QED
  BY <1>1 DEF Fired

-----------------------------------------------------------------------------
(* Rules that decide alone.                                                *)

\* What is ranked first was voted for, and has a sum that no other surpasses.
LEMMA FirstHasMost ==
    ASSUME NEW m, NEW votes, AreVotes(votes, m), NEW cast \in SUBSET (1..m), cast # {},
           NEW R, NEW n, IsRanked(R, n, votes, cast)
    PROVE  /\ n \in Nat /\ 1 \in 1..n /\ DOMAIN R = 1..n
           /\ R[1] = [action |-> R[1].action, score |-> R[1].score]
           /\ R[1].score = SumFor(votes, cast, R[1].action)
           /\ \E i \in cast : R[1].action = votes[i].action
           /\ \A i \in cast : R[1].score >= SumFor(votes, cast, votes[i].action)
<1>1. n \in Nat /\ 1 \in 1..n /\ DOMAIN R = 1..n
  <2>1. PICK i \in cast : TRUE
    OBVIOUS
  <2> QED
    BY <2>1 DEF IsRanked
<1>2. ASSUME NEW k \in 1..n
      PROVE  /\ R[k] = [action |-> R[k].action, score |-> R[k].score]
             /\ R[k].score = SumFor(votes, cast, R[k].action)
  <2> DEFINE a == R[k].action
             t == SumFor(votes, cast, R[k].action)
  <2>1. R[k] = [action |-> a, score |-> t]
    BY DEF IsRanked
  <2> HIDE DEF a, t
  <2>2. R[k].score = t /\ R[k].action = a
    BY <2>1
  <2> QED
    BY <2>1, <2>2 DEF t
<1>3. \E i \in cast : R[1].action = votes[i].action
  BY <1>1 DEF IsRanked
<1>4. ASSUME NEW i \in cast
      PROVE  R[1].score >= SumFor(votes, cast, votes[i].action)
  <2>1. PICK k \in 1..n : R[k].action = votes[i].action
    BY DEF IsRanked
  <2>2. R[k].score = SumFor(votes, cast, votes[i].action)
    BY <1>2, <2>1
  <2>3. SumFor(votes, cast, votes[i].action) \in Nat
    BY SumForIs
  <2>4. CASE k = 1
    BY <2>2, <2>3, <2>4
  <2>5. CASE k # 1
    <3>1. 1 < k
      BY <1>1, <2>5
    <3>2. R[1].score >= R[k].score
      BY <1>1, <3>1 DEF IsRanked
    <3> QED
      BY <2>2, <3>2
  <2> QED
    BY <2>4, <2>5
<1> QED
  BY <1>1, <1>2, <1>3, <1>4

\* What is proposed first is suited, and has a sum that no other surpasses.
LEMMA FirstIsBest ==
    ASSUME NEW f, Suited(f) # {}
    PROVE  LET best == ByRules(f).candidates[1] IN
           /\ \E i \in Suited(f) : best.action = Votes(f)[i].action
           /\ \A i \in Suited(f) :
                 /\ SumFor(Votes(f), Suited(f), best.action) >=
                       SumFor(Votes(f), Suited(f), Votes(f)[i].action)
                 /\ best.score >= Least(100, Votes(f)[i].score)
<1> DEFINE S == Suited(f)
           V == Votes(f)
           R == Ranking(V, S)
           best == ByRules(f).candidates[1]
<1>1. PICK m : AreVotes(V, m) /\ S \in SUBSET (1..m) /\ \A i \in 1..m : IsRule(V[i])
  BY VotesAre
<1>2. PICK n : IsRanked(R, n, V, S)
  BY <1>1, RankingIsRanked
<1>3. ByRules(f).candidates = Capped(R)
  BY ByRulesIs
<1>4. S # {}
  OBVIOUS
<1> HIDE DEF R, V, S
<1>5. /\ n \in Nat /\ 1 \in 1..n /\ DOMAIN R = 1..n
      /\ R[1] = [action |-> R[1].action, score |-> R[1].score]
      /\ R[1].score = SumFor(V, S, R[1].action)
      /\ \E i \in S : R[1].action = V[i].action
      /\ \A i \in S : R[1].score >= SumFor(V, S, V[i].action)
  BY <1>1, <1>2, <1>4, FirstHasMost
<1>6. best.action = R[1].action /\ best.score = Least(100, R[1].score)
  <2> DEFINE s == Least(100, R[1].score)
             a == R[1].action
             t == R[1].score
  <2>1. best = [R[1] EXCEPT !.score = s]
    BY <1>3, <1>5 DEF Capped
  <2>2. R[1] = [action |-> a, score |-> t]
    BY <1>5
  <2> HIDE DEF s, a, t, best
  <2>3. best.action = a /\ best.score = s
    BY <2>1, <2>2
  <2> QED
    BY <2>3 DEF a, s
<1> HIDE DEF best
<1>7. ASSUME NEW i \in S
      PROVE  best.score >= Least(100, V[i].score)
  <2>1. \A a : SumFor(V, S, a) \in Nat
    BY <1>1, SumForIs
  <2>2. \A a : \A j \in S : V[j].action = a => V[j].score <= SumFor(V, S, a)
    BY <1>1, SumForIs
  <2>3. V[i].score <= SumFor(V, S, V[i].action) /\ V[i].score \in Nat
    BY <1>1, <2>2 DEF AreVotes
  <2>4. R[1].score \in Nat /\ R[1].score >= V[i].score
    BY <1>5, <2>1, <2>3
  <2> QED
    BY <1>6, <2>3, <2>4, LeastIs
<1> QED
  BY <1>5, <1>6, <1>7 DEF S, V, best

LEMMA OffersAreSuited ==
    ASSUME NEW f
    PROVE  ByRules(f).candidates[1].action \in Allowed(f.userType)
<1>1. CASE Suited(f) # {}
  BY <1>1, FirstIsBest DEF Suited
<1>2. CASE Suited(f) = {}
  <2>1. ByRules(f).candidates = <<[action |-> Fallback, score |-> 0]>>
    BY <1>2 DEF ByRules, Votes, Cast, Suited
  <2> QED
    BY <2>1 DEF Allowed, Catalog, Fallback, ConsumerOrders, BusinessOrders
<1> QED
  BY <1>1, <1>2

\* An order that makes one of the guards fire, and what another action can gather.
LEMMA GuardsAreHeard ==
    ASSUME NEW f, f.intent \in Orders, NEW g \in {17, 18}, Rules(f)[g].when
    PROVE  LET best == ByRules(f).candidates[1].action IN
           \/ best = "escalate_to_human"
           \/ \E i \in 1..24 : /\ Rules(f)[i].when /\ best = Rules(f)[i].action
                               /\ Rules(f)[i].score >= Rules(f)[g].score
<1> DEFINE S == Suited(f)
           V == Votes(f)
           best == ByRules(f).candidates[1].action
<1>1. HasLength(Rules(f), 24)
  BY RulesAre
<1>2. DOMAIN Rules(f) = 1..24 /\ g \in 1..24
  BY <1>1 DEF HasLength
<1>3. V = Rules(f)
  BY <1>2 DEF Votes
<1>4. S \in SUBSET (1..24) /\ \A i \in S : Rules(f)[i].when
  BY <1>2, <1>3 DEF Suited, Cast
<1>5. AreVotes(V, 24)
  <2>1. ASSUME NEW i \in 1..24
        PROVE  Rules(f)[i].score \in Nat
    <3>1. Rules(f)[i].score \in 0..100
      BY RulesAreTyped DEF IsRule
    <3> QED
      BY <3>1
  <2> QED
    BY <1>2, <1>3, <2>1 DEF AreVotes
<1>6. /\ Rules(f)[g].action \in {"escalate_to_human", "reject_purchase"}
  BY LoudRules DEF Fired
<1>7. g \in S
  <2>1. Rules(f)[g].action \in Allowed(f.userType)
    BY <1>6 DEF Allowed, Catalog, ConsumerOrders, BusinessOrders, Verdicts, Support
  <2> QED
    BY <1>2, <1>3, <2>1 DEF Suited, Cast
<1>8. /\ \E i \in S : best = V[i].action
      /\ SumFor(V, S, best) >= SumFor(V, S, V[g].action)
  BY <1>7, FirstIsBest
<1>9. PICK i \in S : best = V[i].action
  BY <1>8
<1>10. V[g].score <= SumFor(V, S, V[g].action)
  <2> HIDE DEF S, V
  <2>1. \A a : \A k \in S : V[k].action = a => V[k].score <= SumFor(V, S, a)
    BY <1>4, <1>5, SumForIs
  <2> QED
    BY <1>7, <2>1
<1>11. CASE best # "escalate_to_human"
  <2>1. IsOnlyVote(V, S, i, best)
    <3>1. i \in 1..24 /\ Rules(f)[i].when /\ Rules(f)[i].action = best
      BY <1>3, <1>4, <1>9
    <3>2. ASSUME NEW j \in S, V[j].action = best
          PROVE  j = i
      <4>1. j \in 1..24 /\ Rules(f)[j].when /\ Rules(f)[j].action = best
        BY <1>3, <1>4, <3>2
      <4> HIDE DEF S, V, best
      <4> QED
        BY <1>11, <3>1, <4>1, OrdersFireOnce
    <3> QED
      BY <1>9, <3>2 DEF IsOnlyVote
  <2>2. SumFor(V, S, best) = V[i].score
    <3> HIDE DEF S, V, best
    <3>1. \A a : \A k \in S : IsOnlyVote(V, S, k, a) => SumFor(V, S, a) = V[k].score
      BY <1>4, <1>5, SumForIs
    <3> QED
      BY <2>1, <3>1
  <2>3. V[i].score \in Nat /\ V[g].score \in Nat /\ SumFor(V, S, V[g].action) \in Nat
    <3> HIDE DEF S, V, best
    <3>1. \A a : SumFor(V, S, a) \in Nat
      BY <1>4, <1>5, SumForIs
    <3> QED
      BY <1>2, <1>4, <1>5, <3>1 DEF AreVotes
  <2>4. V[i].score >= V[g].score
    BY <1>8, <1>10, <2>2, <2>3
  <2> QED
    BY <1>3, <1>4, <1>9, <2>4
<1> QED
  BY <1>11

LEMMA LimitsAreKept ==
    ASSUME NEW f, f.intent \in Orders
    PROVE  LET best == ByRules(f).candidates[1].action IN
           /\ f.amount >= Ceiling => best = "escalate_to_human"
           /\ f.amount > 0 /\ FarOverBudget(f) =>
                 best \notin {"proceed_to_checkout", "approve_purchase", "add_to_cart"}
<1> DEFINE best == ByRules(f).candidates[1].action
<1>1. Fired(f, 17) /\ Fired(f, 18)
  BY LoudRules
<1>2. ASSUME f.amount >= Ceiling, best # "escalate_to_human"
      PROVE  FALSE
  <2>1. Rules(f)[17].when
    BY <1>2, LoudRules
  <2>2. PICK i \in 1..24 : /\ Rules(f)[i].when /\ best = Rules(f)[i].action
                           /\ Rules(f)[i].score >= Rules(f)[17].score
    BY <1>2, <2>1, GuardsAreHeard
  <2>3. Fired(f, i)
    BY <2>2, OrdersFire
  <2> HIDE DEF best
  <2> QED
    BY <1>1, <1>2, <2>2, <2>3 DEF Fired
<1>3. ASSUME f.amount > 0, FarOverBudget(f),
             best \in {"proceed_to_checkout", "approve_purchase", "add_to_cart"}
      PROVE  FALSE
  <2>1. Rules(f)[18].when
    BY <1>3, LoudRules
  <2>2. PICK i \in 1..24 : /\ Rules(f)[i].when /\ best = Rules(f)[i].action
                           /\ Rules(f)[i].score >= Rules(f)[18].score
    BY <1>3, <2>1, GuardsAreHeard
  <2>3. Fired(f, i)
    BY <2>2, OrdersFire
  <2> HIDE DEF best
  <2> QED
    BY <1>1, <1>3, <2>2, <2>3 DEF Fired
<1> QED
  BY <1>2, <1>3

(* However the votes add up: rules that decide alone send what is worth    *)
(* the ceiling to a human, put forward no consumer's order far over the    *)
(* budget, and offer nobody what is the other audience's.                  *)
THEOREM LimitsHold == EngineSpec => []RulesKeepTheLimits
<1>1. AnswerInv /\ OutcomeInv => RulesKeepTheLimits
  <2> DEFINE worth == request.price * Greatest(request.quantity, 1)
             far == worth > 0 /\ request.budget > 0 /\ 2 * worth >= 3 * request.budget
             f == Extract(request)
  <2> SUFFICES ASSUME AnswerInv, OutcomeInv, Answered, ByRulesAlone
               PROVE  /\ worth >= Ceiling /\ request.intent \in Purchases \cup {"request_quote"} =>
                            response.action = "escalate_to_human"
                      /\ request.userType = "b2c" /\ request.intent \in Purchases /\ far =>
                            response.action \notin {"proceed_to_checkout", "approve_purchase", "add_to_cart"}
                      /\ response.action \in Allowed(request.userType)
    BY DEF RulesKeepTheLimits
  <2>1. request \in Requests /\ outcome = ByRules(f) /\ response = Response(f, outcome)
    BY DEF AnswerInv, OutcomeInv, Answered
  <2>2. response.action = ByRules(f).candidates[1].action
    BY <2>1 DEF Response
  <2>3. f.amount = worth /\ f.budget = request.budget /\ f.intent = request.intent /\ f.userType = request.userType
    BY <2>1, FeaturesAre
  <2> HIDE DEF f
  <2>4. far => f.amount > 0 /\ FarOverBudget(f)
    BY <2>3 DEF FarOverBudget
  <2>5. request.intent \in Purchases \cup {"request_quote"} => f.intent \in Orders
    BY <2>3 DEF Purchases, Orders
  <2>6. response.action \in Allowed(request.userType)
    BY <2>2, <2>3, OffersAreSuited
  <2>7. f.intent \in Orders /\ f.amount >= Ceiling => response.action = "escalate_to_human"
    BY <2>2, LimitsAreKept
  <2>8. f.intent \in Orders /\ f.amount > 0 /\ FarOverBudget(f) =>
           response.action \notin {"proceed_to_checkout", "approve_purchase", "add_to_cart"}
    BY <2>2, LimitsAreKept
  <2> HIDE DEF worth, far
  <2> QED
    BY <2>3, <2>4, <2>5, <2>6, <2>7, <2>8
<1> QED
  BY <1>1, AnswersFollow, OutcomesFollow, PTL

-----------------------------------------------------------------------------
(* Intents.                                                                *)

\* A list of n scores, best first, each intent once.
IsBestFirst(s, n) ==
    /\ s \in Seq(Scores) /\ Len(s) = n /\ n \in Nat \ {0}
    /\ \A p, q \in 1..n : p < q => s[p].intent # s[q].intent /\ s[p].score >= s[q].score

LEMMA PartsAre == \A x : x \in Parts <=> x \in Nat /\ x <= 10000
<1>1. Whole \in Nat /\ \A x : x \in Parts <=> x \in Nat /\ x <= Whole
  <2>1. Whole \in Nat
    BY DEF Whole
  <2> QED
    BY <2>1 DEF Parts
<1> QED
  BY <1>1 DEF Whole

LEMMA ShorterIs ==
    ASSUME NEW T, NEW s \in Seq(T), NEW k \in Nat
    PROVE  /\ Shorter(s, k) \in Seq(T)
           /\ Len(Shorter(s, k)) = Least(Len(s), k)
           /\ \A p \in 1..Least(Len(s), k) : Shorter(s, k)[p] = s[p]
           /\ Len(s) <= k => Shorter(s, k) = s
<1> DEFINE m == Least(Len(s), k)
<1>1. m \in 0..Len(s) /\ Len(s) \in Nat
  BY LenProperties DEF Least
<1>2. Shorter(s, k) = SubSeq(s, 1, m)
  BY DEF Shorter
<1>3. \A i \in 1..m : s[i] \in T
  BY <1>1, ElementOfSeq
<1>4. Len(s) <= k => m = Len(s)
  BY <1>1 DEF Least
<1> HIDE DEF m
<1>5. /\ SubSeq(s, 1, m) \in Seq(T)
      /\ Len(SubSeq(s, 1, m)) = IF 1 <= m THEN m - 1 + 1 ELSE 0
      /\ \A i \in 1..(m - 1 + 1) : SubSeq(s, 1, m)[i] = s[1 + i - 1]
  BY <1>1, <1>3, SubSeqProperties
<1>6. Len(SubSeq(s, 1, m)) = m /\ \A i \in 1..m : SubSeq(s, 1, m)[i] = s[i]
  BY <1>1, <1>5
<1>7. Len(s) <= k => SubSeq(s, 1, m) = s
  BY <1>4, SubSeqFull
<1> QED
  BY <1>2, <1>5, <1>6, <1>7 DEF m

LEMMA RankingIs ==
    ASSUME NEW n, NEW s, IsBestFirst(s, n), NEW k \in Nat \ {0}
    PROVE  /\ IsRanking(Shorter(s, k), k)
           /\ IsBestFirst(Shorter(s, k), Least(n, k))
           /\ Shorter(s, k)[1] = s[1]
<1> DEFINE t == Shorter(s, k)
           m == Least(n, k)
<1>1. m \in 1..k /\ m \in 1..n
  BY DEF IsBestFirst, Least
<1>2. t \in Seq(Scores) /\ Len(t) = m /\ \A p \in 1..m : t[p] = s[p]
  BY ShorterIs DEF IsBestFirst
<1> HIDE DEF t, m
<1>3. DOMAIN t = 1..m
  BY <1>2, LenProperties
<1>4. \A p, q \in 1..m : p < q => t[p].intent # t[q].intent /\ t[p].score >= t[q].score
  BY <1>1, <1>2 DEF IsBestFirst
<1>5. Distinct(t)
  <2> SUFFICES ASSUME NEW p \in 1..m, NEW q \in 1..m, p # q
               PROVE  t[p].intent # t[q].intent
    BY <1>3 DEF Distinct
  <2>1. p < q \/ q < p
    BY <1>1
  <2> QED
    BY <1>4, <2>1
<1>6. Descending(t)
  BY <1>3, <1>4 DEF Descending
<1> QED
  BY <1>1, <1>2, <1>4, <1>5, <1>6 DEF IsRanking, IsBestFirst, t, m

LEMMA VotesForIntents ==
    ASSUME NEW hit \in Hits, NEW audience
    PROVE  /\ VoteFor(hit, audience) \in Parts
           /\ hit.intent \notin IntentsFor(audience) => VoteFor(hit, audience) <= OutsiderVote[8]
<1>1. hit.terms \in 1..8
  BY DEF Hits
<1>2. \A k \in 1..8 : Vote[k] \in Parts
  <2>1. \A k \in 1..8 : Vote[k] \in Nat /\ Vote[k] <= 10000
    BY DEF Vote
  <2> QED
    BY <2>1, PartsAre
<1>3. \A k \in 1..8 : OutsiderVote[k] \in Parts /\ OutsiderVote[k] <= OutsiderVote[8]
  <2>1. \A k \in 1..8 : /\ OutsiderVote[k] \in Nat /\ OutsiderVote[k] <= 10000
                        /\ OutsiderVote[k] <= OutsiderVote[8]
    BY DEF OutsiderVote
  <2> QED
    BY <2>1, PartsAre
<1>4. /\ Vote[hit.terms] \in Parts
      /\ OutsiderVote[hit.terms] \in Parts /\ OutsiderVote[hit.terms] <= OutsiderVote[8]
  BY <1>1, <1>2, <1>3
<1>5. VoteFor(hit, audience) =
         IF hit.intent \in IntentsFor(audience) THEN Vote[hit.terms] ELSE OutsiderVote[hit.terms]
  BY DEF VoteFor
<1>6. CASE hit.intent \in IntentsFor(audience)
  BY <1>4, <1>5, <1>6
<1>7. CASE hit.intent \notin IntentsFor(audience)
  BY <1>4, <1>5, <1>7
<1> QED
  BY <1>6, <1>7

\* An outsider's vote reaches that of an intent of the caller's by two terms more.
LEMMA OutsidersAreCut ==
    ASSUME NEW i \in Hits, NEW j \in Hits, NEW audience,
           i.intent \in IntentsFor(audience), j.intent \notin IntentsFor(audience),
           VoteFor(j, audience) >= VoteFor(i, audience)
    PROVE  i.terms = 1 /\ j.terms >= 3
  BY DEF VoteFor, Vote, OutsiderVote, Hits

\* All that is found in a text is ranked by its vote.
AreHits(hits, n) ==
    /\ hits \in Seq(Hits) /\ Len(hits) = n /\ n \in Nat \ {0}
    /\ \A i, j \in 1..n : i # j => hits[i].intent # hits[j].intent

RanksHits(r, n, hits, audience) ==
    /\ IsBestFirst(r, n)
    /\ \A i \in 1..n : \E p \in 1..n : r[p] = Scored(hits[i].intent, VoteFor(hits[i], audience))
    /\ \A p \in 1..n : \E i \in 1..n : r[p] = Scored(hits[i].intent, VoteFor(hits[i], audience))

LEMMA HitsAreRanked ==
    ASSUME NEW n, NEW hits, AreHits(hits, n), NEW audience
    PROVE  RanksHits(Ranked(hits, audience), n, hits, audience)
<1> DEFINE score == [i \in DOMAIN hits |-> VoteFor(hits[i], audience)]
           ahead == [i \in DOMAIN hits |->
                       {j \in DOMAIN hits : score[j] > score[i] \/ (score[j] = score[i] /\ j < i)}]
           order == Arranged(DOMAIN hits, ahead)
           r == [p \in DOMAIN order |-> Scored(hits[order[p]].intent, score[order[p]])]
<1>1. Ranked(hits, audience) = r
  BY DEF Ranked
<1>2. n \in Nat \ {0} /\ DOMAIN hits = 1..n /\ \A i \in 1..n : hits[i] \in Hits
  BY LenProperties, ElementOfSeq DEF AreHits
<1>3. \A i \in 1..n : score[i] = VoteFor(hits[i], audience) /\ score[i] \in Parts
  <2> TAKE i \in 1..n
  <2>1. VoteFor(hits[i], audience) \in Parts
    BY <1>2, VotesForIntents
  <2>2. score[i] = VoteFor(hits[i], audience)
    BY <1>2
  <2> QED
    BY <2>1, <2>2
<1>4. ahead = [i \in 1..n |-> {j \in 1..n : score[j] > score[i] \/ (score[j] = score[i] /\ j < i)}]
  BY <1>2
<1>5. IsFiniteSet(1..n) /\ Cardinality(1..n) = n
  BY <1>2, FS_Interval
<1>6. order = Arranged(1..n, ahead)
  BY <1>2
<1>10. r = [p \in DOMAIN order |-> Scored(hits[order[p]].intent, score[order[p]])]
  OBVIOUS
<1> HIDE DEF score, ahead, order, r
<1>7. IsOrder(1..n, ahead)
  <2>1. ahead \in [1..n -> SUBSET (1..n)]
    BY <1>4
  <2>2. \A x, y \in 1..n : y \in ahead[x] <=> score[y] > score[x] \/ (score[y] = score[x] /\ y < x)
    BY <1>4
  <2>3. \A x \in 1..n : score[x] \in Nat
    BY <1>3, PartsAre
  <2>4. \A x, y, z \in 1..n : y \in ahead[x] /\ z \in ahead[y] => z \in ahead[x]
    BY <1>2, <2>2, <2>3
  <2>5. \A x \in 1..n : x \notin ahead[x]
    BY <1>2, <2>2, <2>3
  <2>6. \A x, y \in 1..n : x # y => x \in ahead[y] \/ y \in ahead[x]
    BY <1>2, <2>2, <2>3
  <2> QED
    BY <2>1, <2>4, <2>5, <2>6 DEF IsOrder
<1>8. /\ order \in [1..n -> 1..n]
      /\ \A i \in 1..n : \E p \in 1..n : order[p] = i
      /\ \A p, q \in 1..n : p < q => order[p] \in ahead[order[q]]
  BY <1>5, <1>6, <1>7, ArrangedInOrder
<1>9. ASSUME NEW p \in 1..n, NEW q \in 1..n, p < q
      PROVE  order[p] # order[q] /\ score[order[p]] >= score[order[q]]
  <2>1. order[p] \in 1..n /\ order[q] \in 1..n /\ order[p] \in ahead[order[q]]
    BY <1>8, <1>9
  <2>2. \A x, y \in 1..n : y \in ahead[x] => y # x /\ score[y] >= score[x]
    BY <1>2, <1>3, <1>4, PartsAre
  <2> QED
    BY <2>1, <2>2
<1>11. \A p \in 1..n : r[p] = Scored(hits[order[p]].intent, VoteFor(hits[order[p]], audience))
  BY <1>3, <1>8, <1>10
<1>12. \A p \in 1..n : r[p].intent = hits[order[p]].intent /\ r[p].score = score[order[p]]
  BY <1>8, <1>10 DEF Scored
<1>13. r \in Seq(Scores) /\ Len(r) = n
  <2>1. ASSUME NEW p \in 1..n
        PROVE  Scored(hits[order[p]].intent, score[order[p]]) \in Scores
    <3>1. order[p] \in 1..n
      BY <1>8
    <3>2. hits[order[p]].intent \in Intents
      BY <1>2, <3>1 DEF Hits
    <3>3. score[order[p]] \in Parts
      BY <1>3, <3>1
    <3> QED
      BY <3>2, <3>3 DEF Scored, Scores
  <2>2. r \in [1..n -> Scores]
    BY <1>8, <1>10, <2>1
  <2> QED
    BY <1>2, <2>2
<1>14. IsBestFirst(r, n)
  <2>1. \A p, q \in 1..n : p < q => r[p].intent # r[q].intent
    <3> TAKE p, q \in 1..n
    <3>1. order[p] \in 1..n /\ order[q] \in 1..n
      BY <1>8
    <3> QED
      BY <1>9, <1>12, <3>1 DEF AreHits
  <2> QED
    BY <1>2, <1>9, <1>12, <1>13, <2>1 DEF IsBestFirst
<1>15. \A i \in 1..n : \E p \in 1..n : r[p] = Scored(hits[i].intent, VoteFor(hits[i], audience))
  <2> QED
    BY <1>8, <1>11
<1>16. \A p \in 1..n : \E i \in 1..n : r[p] = Scored(hits[i].intent, VoteFor(hits[i], audience))
  <2> QED
    BY <1>8, <1>11
<1> QED
  BY <1>1, <1>14, <1>15, <1>16 DEF RanksHits

\* What is asked: IntentRules's assumption on Questions, of one of them.
IsQuestion(q) ==
    /\ q.audience \in Audiences /\ q.depth \in Nat \ {0}
    /\ q.hits \in Seq(Hits) /\ Distinct(q.hits)
    /\ q.scores \in Seq(Scores) /\ Distinct(q.scores) /\ Descending(q.scores)

LEMMA QuestionsAre == RulesSpec => []IsQuestion(question)
<1>1. IsQuestion(NoQuestion)
  <2>1. /\ <<>> \in Seq(Hits) /\ <<>> \in Seq(Scores)
        /\ DOMAIN <<>> = {}
    <3>1. <<>> \in Seq(Hits) /\ <<>> \in Seq(Scores)
      BY EmptySeq
    <3> QED
      BY <3>1
  <2> QED
    BY <2>1 DEF IsQuestion, NoQuestion, Audiences, Distinct, Descending
<1>2. ASSUME NEW q \in Questions
      PROVE  IsQuestion(q)
  BY QuestionsAssumption DEF IsQuestion
<1>3. RulesInit => IsQuestion(question)
  BY <1>1 DEF RulesInit
<1>4. IsQuestion(question) /\ [RulesNext]_question => IsQuestion(question)'
  BY <1>1, <1>2 DEF RulesNext
<1> QED
  BY <1>3, <1>4, PTL DEF RulesSpec

LEMMA HitsAre ==
    ASSUME NEW q, IsQuestion(q), q.hits # <<>>
    PROVE  AreHits(q.hits, Len(q.hits))
<1>1. Len(q.hits) \in Nat \ {0} /\ DOMAIN q.hits = 1..Len(q.hits)
  BY EmptySeq, LenProperties DEF IsQuestion
<1> QED
  BY <1>1 DEF IsQuestion, AreHits, Distinct

LEMMA ScoresAre ==
    ASSUME NEW q, IsQuestion(q), q.scores # <<>>
    PROVE  IsBestFirst(q.scores, Len(q.scores))
<1>1. Len(q.scores) \in Nat \ {0} /\ DOMAIN q.scores = 1..Len(q.scores)
  BY EmptySeq, LenProperties DEF IsQuestion
<1>2. \A i, j \in 1..Len(q.scores) : i < j => i # j
  BY <1>1
<1> QED
  BY <1>1, <1>2 DEF IsQuestion, IsBestFirst, Distinct, Descending

\* One score is a list, best first.
LEMMA OneIsBestFirst ==
    ASSUME NEW i \in Intents, NEW p \in Parts
    PROVE  IsBestFirst(<<Scored(i, p)>>, 1)
<1>1. Scored(i, p) \in Scores
  BY DEF Scored, Scores
<1>2. <<Scored(i, p)>> \in Seq(Scores) /\ Len(<<Scored(i, p)>>) = 1
  BY <1>1
<1> QED
  BY <1>1, <1>2 DEF IsBestFirst

\* Of what is found, the rules give the beginning of its ranking.
LEMMA HitsAreClassified ==
    ASSUME NEW n, NEW hits, AreHits(hits, n), NEW audience, NEW k \in Nat \ {0}
    PROVE  LET answer == Classify(hits, audience, k) IN
           /\ IsRanking(answer, k) /\ IsBestFirst(answer, Least(n, k))
           /\ \A p \in 1..Least(n, k) : \E i \in 1..n :
                 answer[p] = Scored(hits[i].intent, VoteFor(hits[i], audience))
           /\ \A i \in 1..n :
                 \/ \E p \in 1..Least(n, k) : answer[p] = Scored(hits[i].intent, VoteFor(hits[i], audience))
                 \/ Least(n, k) = k /\ VoteFor(hits[i], audience) <= answer[k].score
<1> DEFINE r == Ranked(hits, audience)
           m == Least(n, k)
           answer == Classify(hits, audience, k)
<1>1. RanksHits(r, n, hits, audience)
  BY HitsAreRanked
<1>2. n \in Nat \ {0} /\ hits # <<>>
  <2>1. n \in Nat \ {0} /\ Len(hits) = n
    BY DEF AreHits
  <2> QED
    BY <2>1, EmptySeq
<1>3. answer = Shorter(r, k)
  BY <1>2 DEF Classify
<1> HIDE DEF r, answer
<1>4. IsBestFirst(r, n)
  BY <1>1 DEF RanksHits
<1>5. IsRanking(answer, k) /\ IsBestFirst(answer, m)
  BY <1>3, <1>4, RankingIs
<1>6. \A p \in 1..m : answer[p] = r[p]
  BY <1>3, <1>4, ShorterIs DEF IsBestFirst
<1>7. m \in 1..n /\ m <= k /\ (m < n => m = k)
  BY <1>2 DEF Least
<1> HIDE DEF m
<1>8. \A p \in 1..m : \E i \in 1..n :
         answer[p] = Scored(hits[i].intent, VoteFor(hits[i], audience))
  <2> TAKE p \in 1..m
  <2>1. p \in 1..n
    BY <1>2, <1>7
  <2> QED
    BY <1>1, <1>6, <2>1 DEF RanksHits
<1>9. ASSUME NEW i \in 1..n,
             ~ \E p \in 1..m : answer[p] = Scored(hits[i].intent, VoteFor(hits[i], audience))
      PROVE  m = k /\ VoteFor(hits[i], audience) <= answer[k].score
  <2>1. PICK p \in 1..n : r[p] = Scored(hits[i].intent, VoteFor(hits[i], audience))
    BY <1>1 DEF RanksHits
  <2>2. p \notin 1..m
    BY <1>6, <1>9, <2>1
  <2>3. m < p /\ m = k /\ k \in 1..n /\ k \in 1..m
    BY <1>2, <1>7, <2>2
  <2>4. r[p].score <= r[k].score
    BY <1>4, <2>3 DEF IsBestFirst
  <2> QED
    BY <1>6, <2>1, <2>3, <2>4 DEF Scored
<1> QED
  BY <1>5, <1>8, <1>9 DEF m, answer

LEMMA AnswersOfRulesAreFair ==
    ASSUME OutsiderVote[8] < Confident, IsQuestion(question)
    PROVE  RulesAreFair
<1> DEFINE hits == question.hits
           audience == question.audience
           k == question.depth
           answer == Classify(hits, audience, k)
           place(i) == {p \in DOMAIN answer : answer[p].intent = hits[i].intent}
           n == Len(hits)
           m == Least(n, k)
           vote(i) == VoteFor(hits[i], audience)
<1>1. k \in Nat \ {0} /\ hits \in Seq(Hits)
  BY DEF IsQuestion
<1>2. CASE hits = <<>>
  <2>1. answer = <<Scored(FallbackIntent, 1000)>> /\ DOMAIN hits = {}
    BY <1>2 DEF Classify
  <2>2. FallbackIntent \in Intents /\ FallbackIntent \in IntentsFor(audience) /\ 1000 \in Nat /\ 1 \in Nat
    BY DEF FallbackIntent, Intents, IntentsFor, ForAnybody
  <2>3. Len(answer) = 1 /\ DOMAIN answer = 1..1 /\ answer[1].intent = FallbackIntent
    BY <2>1 DEF Scored
  <2> HIDE DEF answer
  <2>4. IsRanking(answer, k)
    BY <1>1, <2>1, <2>3 DEF IsRanking, Distinct, Descending, Scored
  <2> QED
    BY <1>2, <2>1, <2>2, <2>3, <2>4 DEF RulesAreFair, answer
<1>3. CASE hits # <<>>
  <2>1. AreHits(hits, n) /\ n \in Nat \ {0} /\ DOMAIN hits = 1..n /\ \A i \in 1..n : hits[i] \in Hits
    BY <1>1, <1>3, HitsAre, LenProperties, ElementOfSeq DEF AreHits
  <2>2. \A i \in 1..n : /\ vote(i) \in Nat
                        /\ hits[i].intent \notin IntentsFor(audience) => vote(i) <= OutsiderVote[8]
    <3> TAKE i \in 1..n
    <3> QED
      BY <2>1, VotesForIntents, PartsAre
  <2> HIDE DEF n
  <2>3. /\ IsRanking(answer, k) /\ IsBestFirst(answer, m)
        /\ \A p \in 1..m : \E i \in 1..n : answer[p] = Scored(hits[i].intent, vote(i))
        /\ \A i \in 1..n :
              \/ \E p \in 1..m : answer[p] = Scored(hits[i].intent, vote(i))
              \/ m = k /\ vote(i) <= answer[k].score
    BY <1>1, <2>1, HitsAreClassified
  <2>4. m \in 1..n /\ m \in 1..k
    BY <1>1, <2>1 DEF Least
  <2> HIDE DEF answer, m, hits, audience, k
  <2>5. Len(answer) = m /\ DOMAIN answer = 1..m
    BY <2>3, LenProperties DEF IsBestFirst
  <2> HIDE DEF vote
  <2>6. ASSUME answer[1].intent \notin IntentsFor(audience)
        PROVE  answer[1].score < Confident
    <3>1. PICK i \in 1..n : answer[1] = Scored(hits[i].intent, vote(i))
      BY <2>3, <2>4
    <3>2. answer[1].intent = hits[i].intent /\ answer[1].score = vote(i)
      BY <3>1 DEF Scored
    <3> QED
      BY <2>2, <2>6, <3>2, RulesAssumption, PartsAre DEF OutsiderVote
  <2>7. ASSUME NEW i \in 1..n, place(i) = {}
        PROVE  m = k /\ vote(i) <= answer[m].score
    <3>1. \A p \in 1..m : answer[p].intent # hits[i].intent
      BY <2>5, <2>7
    <3>2. ~ \E p \in 1..m : answer[p] = Scored(hits[i].intent, vote(i))
      BY <3>1 DEF Scored
    <3> QED
      BY <2>3, <3>2
  <2>8. ASSUME NEW i \in 1..n, NEW p \in place(i)
        PROVE  p \in 1..m /\ answer[p].score = vote(i)
    <3>1. p \in 1..m /\ answer[p].intent = hits[i].intent
      BY <2>5, <2>8
    <3>2. PICK j \in 1..n : answer[p] = Scored(hits[j].intent, vote(j))
      BY <2>3, <3>1
    <3>3. hits[j].intent = hits[i].intent /\ answer[p].score = vote(j)
      BY <3>1, <3>2 DEF Scored
    <3>4. j = i
      BY <2>1, <3>3 DEF AreHits
    <3> QED
      BY <3>1, <3>3, <3>4
  <2>9. ASSUME NEW i \in 1..n, NEW j \in 1..n,
               hits[i].intent \in IntentsFor(audience), hits[j].intent \notin IntentsFor(audience),
               NEW q \in place(j), \A p \in place(i) : q < p
        PROVE  hits[i].terms = 1 /\ hits[j].terms >= 3
    <3>1. q \in 1..m /\ answer[q].score = vote(j)
      BY <2>8, <2>9
    <3>2. \A p \in 1..m : q <= p => answer[q].score >= answer[p].score
      <4>1. answer[q].score >= answer[q].score
        BY <2>2, <3>1
      <4> QED
        BY <2>3, <3>1, <4>1 DEF IsBestFirst
    <3>3. CASE place(i) = {}
      <4>1. vote(i) <= answer[m].score /\ answer[q].score >= answer[m].score
        BY <2>4, <2>7, <3>1, <3>2, <3>3
      <4>2. answer[m].score \in Nat
        <5>1. PICK l \in 1..n : answer[m] = Scored(hits[l].intent, vote(l))
          BY <2>3, <2>4
        <5> QED
          BY <2>2, <5>1 DEF Scored
      <4>3. vote(j) >= vote(i)
        BY <2>2, <3>1, <4>1, <4>2
      <4> QED
        BY <2>1, <2>9, <4>3, OutsidersAreCut DEF vote
    <3>4. CASE place(i) # {}
      <4>1. PICK p \in place(i) : TRUE
        BY <3>4
      <4>2. p \in 1..m /\ answer[p].score = vote(i)
        BY <2>8, <4>1
      <4>3. q <= p
        BY <2>9, <3>1, <4>1, <4>2
      <4>4. vote(j) >= vote(i)
        BY <3>1, <3>2, <4>2, <4>3
      <4> QED
        BY <2>1, <2>9, <4>4, OutsidersAreCut DEF vote
    <3> QED
      BY <3>3, <3>4
  <2> HIDE DEF place
  <2>10. /\ IsRanking(answer, k)
         /\ answer[1].intent \notin IntentsFor(audience) => answer[1].score < Confident
         /\ \A i \in DOMAIN hits :
               place(i) = {} => /\ Len(answer) = k
                                /\ vote(i) <= answer[Len(answer)].score
         /\ \A i, j \in DOMAIN hits :
               (/\ hits[i].intent \in IntentsFor(audience)
                /\ hits[j].intent \notin IntentsFor(audience)
                /\ \E q \in place(j) : \A p \in place(i) : q < p)
               => hits[i].terms = 1 /\ hits[j].terms >= 3
    BY <2>1, <2>3, <2>5, <2>6, <2>7, <2>9
  <2> QED
    BY <2>10 DEF RulesAreFair, place, answer, hits, audience, k, vote
<1> QED
  BY <1>2, <1>3

\* What is better than all of a list is put first of the rest of it.
LEMMA FirstIsBestFirst ==
    ASSUME NEW n, NEW s, IsBestFirst(s, n), NEW k \in Nat \ {0},
           NEW best \in Scores, best.score > s[1].score
    PROVE  IsRanking(PutFirst(best, s, k), k) /\ PutFirst(best, s, k)[1] = best
<1> DEFINE others == {i \in DOMAIN s : s[i].intent # best.intent}
           ahead == [i \in others |-> {j \in others : j < i}]
           order == Arranged(others, ahead)
           l == Cardinality(others)
           rest == [p \in DOMAIN order |-> s[order[p]]]
           all == <<best>> \o rest
<1>1. /\ n \in Nat \ {0} /\ DOMAIN s = 1..n
      /\ \A p \in 1..n : s[p] \in Scores /\ s[p].score \in Nat
      /\ best.score \in Nat
  <2>1. n \in Nat \ {0} /\ DOMAIN s = 1..n /\ \A p \in 1..n : s[p] \in Scores
    BY LenProperties, ElementOfSeq DEF IsBestFirst
  <2>2. \A x \in Scores : x.score \in Parts
    BY DEF Scores
  <2> QED
    BY <2>1, <2>2, PartsAre
<1>2. others \in SUBSET (1..n) /\ \A i \in others : s[i].intent # best.intent
  BY <1>1
<1>3. PutFirst(best, s, k) = Shorter(all, k)
  BY DEF PutFirst
<1>4. ahead = [i \in others |-> {j \in others : j < i}]
  OBVIOUS
<1> HIDE DEF others, ahead
<1>5. IsFiniteSet(others)
  <2>1. IsFiniteSet(1..n)
    BY <1>1, FS_Interval
  <2> QED
    BY <1>2, <2>1, FS_Subset
<1>6. IsOrder(others, ahead)
  <2>1. ahead \in [others -> SUBSET others]
    BY <1>4
  <2>2. \A x, y \in others : y \in ahead[x] <=> y < x
    BY <1>4
  <2>3. \A x \in others : x \in Nat
    BY <1>1, <1>2
  <2>4. \A x, y, z \in others : y \in ahead[x] /\ z \in ahead[y] => z \in ahead[x]
    BY <2>2, <2>3
  <2>5. \A x \in others : x \notin ahead[x]
    BY <2>2, <2>3
  <2>6. \A x, y \in others : x # y => x \in ahead[y] \/ y \in ahead[x]
    BY <2>2, <2>3
  <2> QED
    BY <2>1, <2>4, <2>5, <2>6 DEF IsOrder
<1>7. /\ l \in Nat /\ order \in [1..l -> others]
      /\ \A p, q \in 1..l : p < q => order[p] \in ahead[order[q]]
  BY <1>5, <1>6, ArrangedInOrder
<1>8. rest = [p \in DOMAIN order |-> s[order[p]]]
  OBVIOUS
<1> HIDE DEF l, order, rest
<1>9. \A p \in 1..l : /\ rest[p] = s[order[p]] /\ order[p] \in 1..n
                      /\ rest[p].intent # best.intent /\ rest[p] \in Scores
  BY <1>1, <1>2, <1>7, <1>8
<1>10. rest \in Seq(Scores) /\ Len(rest) = l
  <2>1. rest \in [1..l -> Scores]
    BY <1>7, <1>8, <1>9
  <2> QED
    BY <1>7, <2>1
<1>11. /\ all \in Seq(Scores) /\ Len(all) = l + 1 /\ all[1] = best
       /\ \A p \in 2..(l + 1) : all[p] = rest[p - 1] /\ p - 1 \in 1..l
  <2>1. <<best>> \in Seq(Scores) /\ Len(<<best>>) = 1 /\ <<best>>[1] = best
    OBVIOUS
  <2>2. /\ all \in Seq(Scores) /\ Len(all) = 1 + l
        /\ \A p \in 1..(1 + l) : all[p] = IF p <= 1 THEN <<best>>[p] ELSE rest[p - 1]
    BY <1>10, <2>1, ConcatProperties
  <2> HIDE DEF all
  <2> QED
    BY <1>7, <2>1, <2>2
<1> HIDE DEF all
<1>12. ASSUME NEW p \in 1..(l + 1), NEW q \in 1..(l + 1), p < q
       PROVE  all[p].intent # all[q].intent /\ all[p].score >= all[q].score
  <2>1. q \in 2..(l + 1) /\ all[q] = rest[q - 1] /\ q - 1 \in 1..l
    BY <1>7, <1>11, <1>12
  <2>2. CASE p = 1
    <3>1. /\ all[p] = best /\ all[q].intent # best.intent
          /\ all[q] = s[order[q - 1]] /\ order[q - 1] \in 1..n
      BY <1>9, <1>11, <2>1, <2>2
    <3>2. s[1].score >= s[order[q - 1]].score
      BY <1>1, <3>1 DEF IsBestFirst
    <3> QED
      BY <1>1, <3>1, <3>2
  <2>3. CASE p # 1
    <3>1. p \in 2..(l + 1) /\ all[p] = rest[p - 1] /\ p - 1 \in 1..l /\ p - 1 < q - 1
      BY <1>7, <1>11, <1>12, <2>3
    <3>2. order[p - 1] \in ahead[order[q - 1]]
      BY <1>7, <2>1, <3>1
    <3>3. order[p - 1] < order[q - 1] /\ order[p - 1] \in 1..n /\ order[q - 1] \in 1..n
      <4>1. order[p - 1] \in others /\ order[q - 1] \in others
        BY <1>7, <2>1, <3>1
      <4> QED
        BY <1>2, <1>4, <3>2, <4>1
    <3>4. all[p] = s[order[p - 1]] /\ all[q] = s[order[q - 1]]
      BY <1>9, <2>1, <3>1
    <3> QED
      BY <3>3, <3>4 DEF IsBestFirst
  <2> QED
    BY <2>2, <2>3
<1>13. IsBestFirst(all, l + 1)
  BY <1>7, <1>11, <1>12 DEF IsBestFirst
<1> QED
  BY <1>3, <1>11, <1>13, RankingIs

LEMMA EnsembleIsSound ==
    ASSUME IsQuestion(question)
    PROVE  EnsembleIsNoWorse
<1> DEFINE k == question.depth
           hits == question.hits
           audience == question.audience
           scores == Shorter(question.scores, k)
           model == IF scores = <<>> THEN <<Scored(FallbackIntent, 0)>> ELSE scores
           best == Classify(hits, audience, 1)[1]
           answer == Combine(scores, hits, audience, k)
           sure == IF scores = <<>> THEN LowConfidence = 0 ELSE scores[1].score >= LowConfidence
           won == model[1].score < LowConfidence /\ best.intent # FallbackIntent /\ best.score > model[1].score
<1>1. k \in Nat \ {0} /\ LowConfidence \in Nat
  BY RulesAssumption, PartsAre DEF IsQuestion
<1>2. FallbackIntent \in Intents /\ 0 \in Parts /\ 1000 \in Parts
  <2>2. 0 \in Parts /\ 1000 \in Parts
    BY PartsAre
  <2> QED
    BY <2>2 DEF FallbackIntent, Intents, ForAnybody
<1>3. answer = IF won THEN PutFirst(best, model, k) ELSE Shorter(model, k)
  BY DEF Combine
<1>4. /\ best \in Scores
      /\ hits = <<>> => best.intent = FallbackIntent
      /\ hits # <<>> => best.intent # FallbackIntent
  <2>1. CASE hits = <<>>
    <3>1. best = Scored(FallbackIntent, 1000)
      BY <2>1 DEF Classify
    <3> HIDE DEF best
    <3> QED
      BY <1>2, <2>1, <3>1 DEF Scored, Scores
  <2>2. CASE hits # <<>>
    <3>1. AreHits(hits, Len(hits))
      BY <2>2, HitsAre
    <3>2. Least(Len(hits), 1) = 1
      BY <3>1 DEF AreHits, Least
    <3>3. 1 \in Nat \ {0} /\ 1 \in 1..1
      OBVIOUS
    <3>4. /\ IsBestFirst(Classify(hits, audience, 1), 1)
          /\ \E i \in 1..Len(hits) : best = Scored(hits[i].intent, VoteFor(hits[i], audience))
      BY <3>1, <3>2, <3>3, HitsAreClassified
    <3>5. best \in Scores
      BY <3>3, <3>4, ElementOfSeq DEF IsBestFirst
    <3>6. PICK i \in 1..Len(hits) : best = Scored(hits[i].intent, VoteFor(hits[i], audience))
      BY <3>4
    <3>7. hits[i] \in Hits
      BY <3>1, ElementOfSeq DEF AreHits
    <3>8. best.intent # FallbackIntent
      BY <3>6, <3>7 DEF Scored, Hits
    <3> QED
      BY <2>2, <3>5, <3>8
  <2> QED
    BY <2>1, <2>2
<1>5. \E n : IsBestFirst(model, n) /\ (n <= k)
  <2>1. CASE scores = <<>>
    BY <1>1, <1>2, <2>1, OneIsBestFirst
  <2>2. CASE scores # <<>>
    <3>1. question.scores # <<>>
      <4>1. <<>> \in Seq(Scores) /\ Len(<<>>) = 0 /\ question.scores \in Seq(Scores)
        BY EmptySeq DEF IsQuestion
      <4>2. 0 <= k => Shorter(<<>>, k) = <<>>
        BY <1>1, <4>1, ShorterIs
      <4> QED
        BY <1>1, <2>2, <4>2
    <3>2. IsBestFirst(question.scores, Len(question.scores))
      BY <3>1, ScoresAre
    <3>3. IsBestFirst(scores, Least(Len(question.scores), k))
      BY <1>1, <3>2, RankingIs
    <3>4. Least(Len(question.scores), k) <= k
      BY <1>1, <3>2 DEF Least, IsBestFirst
    <3> HIDE DEF scores
    <3> QED
      BY <2>2, <3>3, <3>4
  <2> QED
    BY <2>1, <2>2
<1>6. PICK n : IsBestFirst(model, n) /\ n <= k
  BY <1>5
<1>7. scores = <<>> => model[1].score = 0
  <2>1. <<Scored(FallbackIntent, 0)>>[1].score = 0
    BY DEF Scored
  <2>2. scores = <<>> => model = <<Scored(FallbackIntent, 0)>>
    OBVIOUS
  <2> HIDE DEF model, scores
  <2> QED
    BY <2>1, <2>2
<1>8. scores # <<>> => model = scores
  OBVIOUS
<1>9. model[1].score \in Nat /\ best.score \in Nat
  <2>1. n \in Nat \ {0} /\ model \in Seq(Scores) /\ Len(model) = n
    BY <1>6 DEF IsBestFirst
  <2>2. model[1] \in Scores
    BY <2>1, ElementOfSeq
  <2>3. \A x \in Scores : x.score \in Parts
    BY DEF Scores
  <2> QED
    BY <1>4, <2>2, <2>3, PartsAre
<1> HIDE DEF model, best, scores, answer
<1>10. CASE won
  <2>1. answer = PutFirst(best, model, k)
    BY <1>3, <1>10
  <2>2. IsRanking(answer, k) /\ answer[1] = best
    BY <1>1, <1>4, <1>6, <1>10, <2>1, FirstIsBestFirst
  <2>3. best.score > model[1].score /\ ~sure
    BY <1>1, <1>7, <1>8, <1>9, <1>10
  <2>4. /\ IsRanking(answer, k)
        /\ scores # <<>> => answer[1].score >= scores[1].score
        /\ ~sure /\ hits # <<>> => answer[1].score >= best.score
        /\ sure /\ scores # <<>> => answer = scores
    BY <1>8, <1>9, <2>2, <2>3
  <2> QED
    BY <2>4 DEF EnsembleIsNoWorse, answer, scores, best
<1>11. CASE ~won
  <2>1. answer = Shorter(model, k)
    BY <1>3, <1>11
  <2>2. IsRanking(answer, k) /\ answer[1] = model[1]
    BY <1>1, <1>6, <2>1, RankingIs
  <2>3. answer = model
    BY <1>1, <1>6, <2>1, ShorterIs DEF IsBestFirst
  <2>4. /\ IsRanking(answer, k)
        /\ scores # <<>> => answer[1].score >= scores[1].score
        /\ ~sure /\ hits # <<>> => answer[1].score >= best.score
        /\ sure /\ scores # <<>> => answer = scores
    <3>1. ~sure => model[1].score < LowConfidence
      BY <1>1, <1>7, <1>8, <1>9
    <3>2. ~sure /\ hits # <<>> => model[1].score >= best.score
      BY <1>4, <1>9, <1>11, <3>1
    <3> QED
      BY <1>8, <1>9, <2>2, <2>3, <3>2
  <2> QED
    BY <2>4 DEF EnsembleIsNoWorse, answer, scores, best
<1> QED
  BY <1>10, <1>11

(* Whatever is found in a text, whatever a model says of it and whoever    *)
(* asks: intents are ranked fairly, by the rules and by the ensemble.  The *)
(* bar for "confident" has to be above what another audience's intent can  *)
(* get at all, 0.5334; that of the configuration is 0.7.                   *)
THEOREM RankingsAreSound ==
    ASSUME OutsiderVote[8] < Confident
    PROVE  RulesSpec => []RankingIsSound
<1>1. IsQuestion(question) => RankingIsSound
  BY AnswersOfRulesAreFair, EnsembleIsSound DEF RankingIsSound
<1> QED
  BY <1>1, QuestionsAre, PTL

-----------------------------------------------------------------------------
(* Blends with an unsure model.                                            *)

Loud == 45..100

ForAll == Informing \cup Verdicts \cup {Fallback, "escalate_to_human", "cancel_request", "initiate_return"}

LEMMA WhatIsAllowed ==
    /\ \A userType : ForAll \subseteq Allowed(userType)
    /\ BusinessOrders \cup {"contact_supplier"} \subseteq Allowed("b2b")
    /\ ConsumerOrders \subseteq Allowed("b2c")
<1> USE DEF Allowed, Catalog, ForAll, Informing, ConsumerOrders, BusinessOrders, Verdicts, Support, Fallback
<1>1. ASSUME NEW userType, NEW action \in ForAll
      PROVE  action \in Allowed(userType)
  <2>1. action \in Catalog /\ action \notin ConsumerOrders /\ action \notin BusinessOrders \cup {"contact_supplier"}
    BY <1>1
  <2> HIDE DEF Catalog, ForAll, ConsumerOrders, BusinessOrders
  <2> QED
    BY <2>1
<1>2. BusinessOrders \cup {"contact_supplier"} \subseteq Allowed("b2b")
  OBVIOUS
<1>3. ConsumerOrders \subseteq Allowed("b2c")
  OBVIOUS
<1> QED
  BY <1>1, <1>2, <1>3

\* One of several candidates.
LEMMA CandidateIs ==
    ASSUME NEW n, NEW s, IsCandidates(s, n), NEW k \in 1..n
    PROVE  /\ s[k].score \in 0..100 /\ s[k].action \in Catalog
           /\ n \in Nat /\ 1 \in 1..n /\ s[1].score \in 0..100
           /\ s[k].score <= s[1].score
           /\ \A l \in 1..n : s[l].action = s[k].action => l = k
<1>1. n \in Nat \ {0} /\ 1 \in 1..n
  BY DEF IsCandidates
<1>2. \A l \in 1..n : s[l].score \in 0..100 /\ s[l].action \in Catalog
  BY DEF IsCandidates
<1>3. k = 1 \/ 1 < k
  BY <1>1
<1>4. s[k].score <= s[1].score
  <2>1. CASE k = 1
    BY <1>2, <2>1
  <2>2. CASE 1 < k
    BY <1>1, <2>2 DEF IsCandidates
  <2> QED
    BY <1>3, <2>1, <2>2
<1>5. ASSUME NEW l \in 1..n, s[l].action = s[k].action
      PROVE  l = k
  <2>1. l < k \/ k < l \/ l = k
    BY <1>1
  <2> QED
    BY <1>5, <2>1 DEF IsCandidates
<1> QED
  BY <1>1, <1>2, <1>4, <1>5

\* Every rule that fires suits the caller, and has 45 votes at least.
LEMMA FiringRulesSuit ==
    ASSUME NEW f, f.userType \in {"b2b", "b2c"}, NEW i \in 1..24, Rules(f)[i].when
    PROVE  Rules(f)[i].action \in Allowed(f.userType) /\ Rules(f)[i].score \in Loud
<1> DEFINE Suits(r) == r.when => r.action \in Allowed(f.userType) /\ r.score \in Loud
<1>1. \A k \in 1..8 : ServiceRules(f)[k].action \in ForAll /\ ServiceRules(f)[k].score \in Loud
  BY DEF ServiceRules, Rule, ForAll, Informing, Loud
<1>2. \A k \in 1..3 : Suits(ConsumerRules(f)[k])
  <2>3. ConsumerRules(f)[1].when => f.userType = "b2c"
    BY DEF ConsumerRules, Rule
  <2>4. ConsumerRules(f)[2].when => f.userType = "b2c"
    BY DEF ConsumerRules, Rule
  <2>5. ConsumerRules(f)[3].when => f.userType = "b2c"
    BY DEF ConsumerRules, Rule
  <2>1. \A k \in 1..3 : ConsumerRules(f)[k].when => f.userType = "b2c"
    BY <2>3, <2>4, <2>5
  <2>2. \A k \in 1..3 : ConsumerRules(f)[k].action \in ConsumerOrders /\ ConsumerRules(f)[k].score \in Loud
    BY DEF ConsumerRules, Rule, ConsumerOrders, Loud
  <2> QED
    BY <2>1, <2>2, WhatIsAllowed
<1>3. \A k \in 1..4 : Suits(BusinessRules(f)[k])
  <2>3. BusinessRules(f)[1].when => f.userType = "b2b"
    BY DEF BusinessRules, Rule
  <2>4. BusinessRules(f)[2].when => f.userType = "b2b"
    BY DEF BusinessRules, Rule
  <2>5. BusinessRules(f)[3].when => f.userType = "b2b"
    BY DEF BusinessRules, Rule
  <2>6. BusinessRules(f)[4].when => f.userType = "b2b"
    BY DEF BusinessRules, Rule
  <2>1. \A k \in 1..4 : BusinessRules(f)[k].when => f.userType = "b2b"
    BY <2>3, <2>4, <2>5, <2>6
  <2>2. \A k \in 1..4 : /\ BusinessRules(f)[k].action \in BusinessOrders \cup {"contact_supplier"}
                        /\ BusinessRules(f)[k].score \in Loud
    BY DEF BusinessRules, Rule, BusinessOrders, Loud
  <2> QED
    BY <2>1, <2>2, WhatIsAllowed
<1>4. \A k \in 1..6 : Suits(GuardRules(f)[k])
  <2>1. \A k \in 1..5 : GuardRules(f)[k].action \in ForAll /\ GuardRules(f)[k].score \in Loud
    BY DEF GuardRules, Rule, ForAll, Verdicts, Loud
  <2>2. GuardRules(f)[6].when => f.userType = "b2b"
    BY DEF GuardRules, Rule
  <2>3. GuardRules(f)[6].action = "contact_supplier" /\ GuardRules(f)[6].score = 50
    BY DEF GuardRules, Rule
  <2>4. Suits(GuardRules(f)[6])
    BY <2>2, <2>3, WhatIsAllowed DEF Loud
  <2>5. \A k \in 1..5 : Suits(GuardRules(f)[k])
    BY <2>1, WhatIsAllowed
  <2> QED
    BY <2>4, <2>5
<1>5. \A k \in 1..3 : ChatRules(f)[k].action \in ForAll /\ ChatRules(f)[k].score \in Loud
  BY DEF ChatRules, Rule, ForAll, Informing, Loud
<1>8. /\ \A k \in 1..8 : Suits(ServiceRules(f)[k])
      /\ \A k \in 1..3 : Suits(ChatRules(f)[k])
  BY <1>1, <1>5, WhatIsAllowed
<1> HIDE DEF Suits
<1>6. \/ i \in 1..8
      \/ i - 8 \in 1..3 /\ i = 8 + (i - 8)
      \/ i - 11 \in 1..4 /\ i = 11 + (i - 11)
      \/ i - 15 \in 1..6 /\ i = 15 + (i - 15)
      \/ i - 21 \in 1..3 /\ i = 21 + (i - 21)
  OBVIOUS
<1>7. Suits(Rules(f)[i])
  BY <1>2, <1>3, <1>4, <1>6, <1>8, RulesAre
<1> QED
  BY <1>7 DEF Suits

\* There is always something to propose, with a confidence of 0.45 at least.
LEMMA RulesAreLoud ==
    ASSUME NEW f, f.userType \in {"b2b", "b2c"}
    PROVE  ByRules(f).candidates[1].score >= 45
<1>1. HasLength(Rules(f), 24) /\ HasLength(NoRule(f), 2)
  BY RulesAre, Sections
<1>2. DOMAIN Rules(f) = 1..24 /\ DOMAIN NoRule(f) = 1..2
  BY <1>1 DEF HasLength
<1>3. \E i \in Suited(f) : Votes(f)[i].score \in Loud
  <2>1. CASE \E i \in 1..24 : Rules(f)[i].when
    <3>1. PICK i \in 1..24 : Rules(f)[i].when
      BY <2>1
    <3>2. Votes(f) = Rules(f)
      BY <1>2, <3>1 DEF Votes
    <3>3. Rules(f)[i].action \in Allowed(f.userType) /\ Rules(f)[i].score \in Loud
      BY <3>1, FiringRulesSuit
    <3> QED
      BY <1>2, <3>1, <3>2, <3>3 DEF Suited, Cast
  <2>2. CASE ~ \E i \in 1..24 : Rules(f)[i].when
    <3>1. Votes(f) = NoRule(f)
      BY <1>2, <2>2 DEF Votes
    <3>2. /\ NoRule(f)[1].when /\ NoRule(f)[1].score = 50
          /\ NoRule(f)[1].action \in Allowed(f.userType)
      <4>1. /\ NoRule(f)[1].when /\ NoRule(f)[1].score = 50
            /\ NoRule(f)[1].action \in ForAll
        BY DEF NoRule, Rule, ForAll, Informing
      <4> QED
        BY <4>1, WhatIsAllowed
    <3>3. 1 \in 1..2 /\ 50 \in Loud
      BY DEF Loud
    <3> QED
      BY <1>2, <3>1, <3>2, <3>3 DEF Suited, Cast
  <2> QED
    BY <2>1, <2>2
<1>4. PICK i \in Suited(f) : Votes(f)[i].score \in Loud
  BY <1>3
<1>5. ByRules(f).candidates[1].score >= Least(100, Votes(f)[i].score)
  BY <1>4, FirstIsBest
<1>6. Least(100, Votes(f)[i].score) = Votes(f)[i].score
  BY <1>4 DEF Least, Loud
<1>7. \E n : IsCandidates(ByRules(f).candidates, n)
  BY ByRulesIs DEF IsOutcome
<1>8. ByRules(f).candidates[1].score \in Nat
  <2>1. PICK n : IsCandidates(ByRules(f).candidates, n)
    BY <1>7
  <2>2. 1 \in 1..n
    BY <2>1 DEF IsCandidates
  <2>3. ByRules(f).candidates[1].score \in 0..100
    BY <2>1, <2>2, CandidateIs
  <2> QED
    BY <2>3
<1>9. Votes(f)[i].score \in Nat /\ Votes(f)[i].score >= 45
  BY <1>4 DEF Loud
<1> QED
  BY <1>5, <1>6, <1>8, <1>9

\* The most that an unsure model has for anything is less than the least that the
\* rules have for what they like best.
Outweighed == 33 * ModelWeight * UnsureBelow <= 4500 * RulesWeight

\* What only the model proposes has less than the least that the rules have.
LEMMA RulesOutweigh ==
    ASSUME NEW x \in Loud, NEW y \in Nat, y < UnsureBelow, Outweighed
    PROVE  y * (33 * ModelWeight) < x * (100 * RulesWeight)
<1> DEFINE m == 33 * ModelWeight
<1>1. m \in Nat /\ RulesWeight \in Nat /\ UnsureBelow \in Nat
  BY PolicyAssumption
<1>2. m = 0 => RulesWeight > 0
  BY <1>1, PolicyAssumption
<1>3. m * UnsureBelow <= 4500 * RulesWeight
  BY DEF Outweighed
<1>4. x \in Nat /\ x * (100 * RulesWeight) >= 4500 * RulesWeight
  <2>1. x \in Nat /\ x >= 45
    BY DEF Loud
  <2> QED
    BY <1>1, <2>1
<1>7. x * (100 * RulesWeight) \in Nat /\ 4500 * RulesWeight \in Nat
  <2>1. \A p, q \in Nat : p * (100 * q) \in Nat /\ 4500 * q \in Nat
    OBVIOUS
  <2> QED
    BY <1>1, <1>4, <2>1
<1> HIDE DEF m
<1>5. CASE m = 0
  <2>1. y * m = 0
    BY <1>5
  <2>2. 4500 * RulesWeight > 0
    BY <1>1, <1>2, <1>5
  <2> QED
    BY <1>4, <1>7, <2>1, <2>2 DEF m
<1>6. CASE m # 0
  <2>1. y + 1 <= UnsureBelow
    BY <1>1
  <2>2. (y + 1) * m <= UnsureBelow * m
    BY <1>1, <2>1
  <2>3. (y + 1) * m = y * m + m
    BY <1>1
  <2>4. y * m \in Nat /\ UnsureBelow * m = m * UnsureBelow /\ m * UnsureBelow \in Nat
    BY <1>1
  <2>5. y * m < m * UnsureBelow
    BY <1>1, <1>6, <2>2, <2>3, <2>4
  <2> DEFINE p == y * m
             q == m * UnsureBelow
             r == 4500 * RulesWeight
             t == x * (100 * RulesWeight)
  <2>7. p < q /\ q <= r /\ r <= t /\ p \in Nat /\ q \in Nat /\ r \in Nat /\ t \in Nat
    BY <1>3, <1>4, <1>7, <2>4, <2>5
  <2>8. p < t
    <3> HIDE DEF p, q, r, t
    <3> QED
      BY <2>7
  <2> QED
    BY <2>8 DEF m
<1> QED
  BY <1>5, <1>6

LEMMA UnsureBlendsOnlyRank ==
    ASSUME NEW a, NEW b, IsOutcome(a), IsOutcome(b), Unsure(b),
           a.candidates[1].score >= 45, Outweighed
    PROVE  \E k \in DOMAIN a.candidates : a.candidates[k].action = Blend(a, b).candidates[1].action
<1>1. PICK n : IsCandidates(a.candidates, n)
  BY DEF IsOutcome
<1>2. PICK m : IsCandidates(b.candidates, m)
  BY DEF IsOutcome
<1> DEFINE V == BlendVotes(a, b)
           A == Weighted(a, 100 * RulesWeight)
           B == Weighted(b, WeightOfModel(b))
           first == Blend(a, b).candidates[1].action
<1>3. PICK k : AreBlended(k, a, n, b, m)
  BY <1>1, <1>2, BlendVotesAre
<1>4. /\ k = n + m /\ n \in Nat \ {0} /\ m \in Nat \ {0} /\ AreVotes(V, k)
      /\ \A i \in 1..k : V[i].action \in Catalog
      /\ \A i \in 1..n : V[i] = A[i]
      /\ \A i \in 1..m : V[n + i] = B[i]
  BY <1>3 DEF AreBlended, AreJoined
<1>5. first = Ranking(V, 1..k)[1].action
  <2>1. PICK l : AreVotes(V, l) /\ first = Ranking(V, 1..l)[1].action
    BY BlendIs
  <2>2. 1..l = 1..k
    BY <1>4, <2>1 DEF AreVotes
  <2> QED
    BY <2>1, <2>2
<1>6. \A i \in 1..n : A[i].action = a.candidates[i].action /\ A[i].score = a.candidates[i].score * (100 * RulesWeight)
  <2> DEFINE w == 100 * RulesWeight
  <2>1. w \in Nat
    BY WeightsAre
  <2> HIDE DEF w
  <2>2. \A i \in 1..n : /\ Weighted(a, w)[i].action = a.candidates[i].action
                        /\ Weighted(a, w)[i].score = a.candidates[i].score * w
    BY <1>1, <2>1, WeightedIs
  <2> QED
    BY <2>2 DEF w
<1>7. \A i \in 1..m : B[i].action = b.candidates[i].action /\ B[i].score = b.candidates[i].score * (33 * ModelWeight)
  <2>1. WeightOfModel(b) = 33 * ModelWeight
    BY DEF WeightOfModel
  <2>2. \A i \in 1..m : B[i].action = b.candidates[i].action /\ B[i].score = b.candidates[i].score * WeightOfModel(b)
    <3>1. WeightOfModel(b) \in Nat
      BY WeightsAre
    <3> QED
      BY <1>2, <3>1, WeightedIs
  <2> QED
    BY <2>1, <2>2
<1> HIDE DEF V, A, B, first
<1>8. PICK cast \in SUBSET (1..k) : cast = 1..k
  OBVIOUS
<1>9. PICK l : IsRanked(Ranking(V, cast), l, V, cast)
  BY <1>4, RankingIsRanked
<1>10. 1 \in cast /\ cast # {}
  BY <1>4, <1>8
<1>11. /\ \E i \in cast : first = V[i].action
       /\ \A i \in cast : SumFor(V, cast, first) >= SumFor(V, cast, V[i].action)
  <2> DEFINE R == Ranking(V, cast)
  <2>1. R[1].action = first
    BY <1>5, <1>8
  <2>3. IsRanked(R, l, V, cast) /\ AreVotes(V, k) /\ cast \in SUBSET (1..k)
    BY <1>4, <1>9
  <2> HIDE DEF R
  <2>2. /\ l \in Nat /\ 1 \in 1..l /\ DOMAIN R = 1..l
        /\ R[1] = [action |-> R[1].action, score |-> R[1].score]
        /\ R[1].score = SumFor(V, cast, R[1].action)
        /\ \E i \in cast : R[1].action = V[i].action
        /\ \A i \in cast : R[1].score >= SumFor(V, cast, V[i].action)
    BY <1>10, <2>3, FirstHasMost
  <2> QED
    BY <2>1, <2>2
<1>12. PICK i \in 1..k : first = V[i].action
  BY <1>8, <1>11
<1>13. CASE \E j \in 1..n : first = a.candidates[j].action
  BY <1>1, <1>13 DEF IsCandidates, first
<1>14. CASE ~ \E j \in 1..n : first = a.candidates[j].action
  <2>1. i \in n + 1..k /\ i - n \in 1..m /\ i = n + (i - n)
    <3>1. i \notin 1..n
      BY <1>4, <1>6, <1>12, <1>14
    <3> QED
      BY <1>4, <3>1
  <2>2. PICK j \in 1..m : i = n + j
    BY <2>1
  <2>3. V[i] = B[j] /\ first = b.candidates[j].action
    BY <1>4, <1>7, <1>12, <2>2
  <2>4. ASSUME NEW h \in cast, V[h].action = first
        PROVE  h = i
    <3>1. h \in 1..k /\ h \notin 1..n
      BY <1>4, <1>6, <1>8, <1>14, <2>4
    <3>2. h - n \in 1..m /\ h = n + (h - n)
      BY <1>4, <3>1
    <3>3. PICK g \in 1..m : h = n + g
      BY <3>2
    <3>4. b.candidates[g].action = b.candidates[j].action
      BY <1>4, <1>7, <2>3, <2>4, <3>3
    <3>5. g = j
      BY <1>2, <3>4, CandidateIs
    <3> QED
      BY <2>2, <3>3, <3>5
  <2>5. IsOnlyVote(V, cast, i, first)
    BY <1>12, <2>4 DEF IsOnlyVote
  <2>16. cast \in SUBSET (1..k) /\ AreVotes(V, k)
    BY <1>4
  <2>6. \A x : \A h \in cast : IsOnlyVote(V, cast, h, x) => SumFor(V, cast, x) = V[h].score
    BY <2>16, SumForIs
  <2>7. SumFor(V, cast, first) = B[j].score
    BY <1>8, <2>3, <2>5, <2>6
  <2>8. \A x : \A h \in cast : V[h].action = x => V[h].score <= SumFor(V, cast, x)
    BY <1>4, SumForIs
  <2>9. A[1].score <= SumFor(V, cast, V[1].action) /\ V[1] = A[1]
    BY <1>4, <1>10, <2>8
  <2>10. /\ a.candidates[1].score \in Loud /\ b.candidates[j].score \in Nat
         /\ b.candidates[j].score < UnsureBelow
    <3>1. a.candidates[1].score \in 0..100
      BY <1>1, <1>4, CandidateIs
    <3>2. /\ b.candidates[1].score \in 0..100 /\ b.candidates[j].score \in 0..100
          /\ b.candidates[j].score <= b.candidates[1].score
      BY <1>2, CandidateIs
    <3>3. b.candidates[1].score < UnsureBelow
      BY DEF Unsure
    <3>4. UnsureBelow \in Nat
      BY PolicyAssumption
    <3>5. a.candidates[1].score \in Loud
      BY <3>1 DEF Loud
    <3>6. b.candidates[j].score \in Nat /\ b.candidates[j].score < UnsureBelow
      <4> DEFINE u == b.candidates[1].score
                 v == b.candidates[j].score
      <4>1. u \in 0..100 /\ v \in 0..100 /\ v <= u /\ u < UnsureBelow
        BY <3>2, <3>3
      <4> HIDE DEF u, v
      <4>2. v \in Nat /\ v < UnsureBelow
        BY <3>4, <4>1
      <4> QED
        BY <4>2 DEF v
    <3> QED
      BY <3>5, <3>6
  <2>11. b.candidates[j].score * (33 * ModelWeight) < a.candidates[1].score * (100 * RulesWeight)
    BY <2>10, RulesOutweigh
  <2>12. B[j].score < A[1].score
    BY <1>4, <1>6, <1>7, <2>11
  <2>13. \A x : SumFor(V, cast, x) \in Nat
    BY <1>4, SumForIs
  <2>14. SumFor(V, cast, first) >= SumFor(V, cast, V[1].action)
    BY <1>10, <1>11
  <2>15. A[1].score \in Nat /\ B[j].score \in Nat
    BY <1>4, <1>8, <1>12, <2>3, <2>9 DEF AreVotes
  <2> QED
    BY <2>7, <2>9, <2>12, <2>13, <2>14, <2>15
<1> QED
  BY <1>13, <1>14

(* Whatever a model that is unsure says, the winner of the blend is one    *)
(* that the rules propose: for weights and thresholds that leave its       *)
(* highest confidence less than the least that the rules' best can have.   *)
(* Those of the configuration are far from that bound.                     *)
THEOREM UnsureModelsRank ==
    ASSUME Outweighed
    PROVE  EngineSpec => []UnsureModelsOnlyRank
<1>1. OutcomeInv => UnsureModelsOnlyRank
  <2> SUFFICES ASSUME OutcomeInv, by = "ensemble", outcome.unsure
               PROVE  \E k \in DOMAIN ByRules(Extract(request)).candidates :
                         ByRules(Extract(request)).candidates[k].action = outcome.candidates[1].action
    BY DEF UnsureModelsOnlyRank, Vector
  <2> DEFINE f == Extract(request)
  <2>1. AreFeatures(f) /\ f.userType \in {"b2b", "b2c"}
    BY FeaturesAre DEF OutcomeInv
  <2>2. PICK votes \in ModelVotes : outcome = Blend(ByRules(f), ByModel(f, votes))
    BY DEF OutcomeInv
  <2>3. AreModelVotes(votes)
    BY VotesAssumption DEF AreModelVotes
  <2> HIDE DEF f
  <2>4. Unsure(ByModel(f, votes))
    <3> DEFINE o == Blend(ByRules(f), ByModel(f, votes))
    <3>1. o.unsure = Unsure(ByModel(f, votes))
      BY DEF Blend
    <3> QED
      BY <2>2, <3>1
  <2>5. IsOutcome(ByRules(f)) /\ IsOutcome(ByModel(f, votes)) /\ ByRules(f).candidates[1].score >= 45
    BY <2>1, <2>3, ByRulesIs, ByModelIs, RulesAreLoud
  <2> QED
    BY <2>2, <2>4, <2>5, UnsureBlendsOnlyRank DEF f
<1> QED
  BY <1>1, OutcomesFollow, PTL
=============================================================================
