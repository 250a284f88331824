-------------------------- MODULE MCIntentService --------------------------
(* IntentService and, beside it, IntentRules on small instances.           *)
EXTENDS IntentService, IntentRules, TLC

Item_(text, profile) == [text |-> text, profile |-> profile]
Single(text, profile) == [items |-> <<Item_(text, profile)>>, batch |-> FALSE]
Batch(items) == [items |-> items, batch |-> TRUE]

\* Two texts, one of them for two audiences, and items of each kind that is refused.
SomeJobs ==
    {Single("x", "b2c"), Single("y", "b2c"), Single("blank", "b2c"),
     Batch(<<Item_("y", "b2b"), Item_("foreign", "b2b")>>),
     Batch(<<Item_("blank", "b2b"), Item_("y", "b2b"), Item_("x", "b2c")>>)}

SymmetryOfThreads == Permutations(Threads)

\* Up to three intents, two of them for purchasers, are found by one to five terms each.
Found == {[intent |-> i, terms |-> n] :
             i \in {"search_product", "request_quote", "bulk_order"}, n \in {1, 2, 3, 5}}
DistinctFinds(s) == \A i, j \in DOMAIN s : i # j => s[i].intent # s[j].intent
FoundTexts == {s \in UNION {[1..n -> Found] : n \in 0..3} : DistinctFinds(s)}

\* What the model may say, best first; it knows the fallback as well.
ModelScores ==
    {<<>>} \cup
    {s \in UNION {[1..n -> [intent : {"search_product", "request_quote", "other"},
                            score : {1000, 3807, 5500, 9000}]] : n \in 1..2} :
        Distinct(s) /\ Descending(s)}

\* Whatever the model says of up to two finds; and three finds, of which it says nothing.
SomeQuestions ==
    [scores : ModelScores, hits : {s \in FoundTexts : Len(s) < 3}, audience : Audiences, depth : 1..2]
    \cup [scores : {<<>>}, hits : FoundTexts, audience : Audiences, depth : 1..3]

\* The two share nothing, so that it shows no more if both move: one does.
MCInit == Init /\ RulesInit
MCNext ==
    \/ RulesInit /\ Next /\ UNCHANGED question
    \/ Init /\ RulesNext /\ UNCHANGED vars

MCSpec == MCInit /\ [][MCNext]_<<vars, question>>
=============================================================================
