---------------------------- MODULE IntentRules ----------------------------
(***************************************************************************)
(* How an intent is chosen (intent/rules.py, intent/taxonomy.py and        *)
(* IntentClassifier._combine).  Scores are in ten-thousandths, as          *)
(* classify rounds them.  A text is known by what the rules find in it:    *)
(* the intents one of whose terms it contains, in the order of the index,  *)
(* each with the number of these terms.                                    *)
(***************************************************************************)
EXTENDS Rankings

CONSTANTS
    LowConfidence,  \* low_confidence_threshold: below it the rules vote
    Confident,      \* confident_threshold
    Questions       \* [scores, hits, audience, depth]: what the model says of a text and the
                    \* rules find in it, who asks, and for how many intents

VARIABLE question

\* INTENT_REGISTRY, by audiences: for any, or for b2b and b2c; and for b2b alone
ForAnybody ==
    {"search_product", "compare_products", "inquire_price", "check_stock", "product_info",
     "view_reviews", "get_recommendation", "place_order", "track_order", "cancel_order", "return_refund",
     "complaint", "contact_support", "greeting", "farewell", "other"}
ForPurchasers == {"request_quote", "bulk_order", "supplier_info", "negotiate_terms"}

Intents == ForAnybody \cup ForPurchasers
FallbackIntent == "other"

\* intents_for_audience
IntentsFor(audience) == IF audience = "b2c" THEN ForAnybody ELSE Intents

\* 0.9 * (1 - exp(-0.55 * n)) for n = 1..8, and the same for other audiences' intents.
Vote == <<3807, 6004, 7272, 8003, 8425, 8668, 8808, 8890>>
OutsiderVote == <<2284, 3602, 4363, 4802, 5055, 5201, 5285, 5334>>

Whole == 10000
Parts == 0..Whole
Scores == [intent : Intents, score : Parts]
Hits == [intent : Intents \ {FallbackIntent}, terms : 1..8]

ASSUME RulesAssumption == LowConfidence \in Parts /\ Confident \in Parts

Scored(intent, score) == [intent |-> intent, score |-> score]
Shorter(s, k) == SubSeq(s, 1, Least(Len(s), k))

\* Mutant: the audience is left out.
VoteFor_Anybody(hit, audience) == Vote[hit.terms]

VoteFor(hit, audience) ==
    IF hit.intent \in IntentsFor(audience) THEN Vote[hit.terms] ELSE OutsiderVote[hit.terms]

\* scored.sort: the best first, and of equals the one that was found first.
Ranked(hits, audience) ==
    LET score == [i \in DOMAIN hits |-> VoteFor(hits[i], audience)]
        ahead == [i \in DOMAIN hits |->
                    {j \in DOMAIN hits : score[j] > score[i] \/ (score[j] = score[i] /\ j < i)}]
        order == Arranged(DOMAIN hits, ahead)
    IN  [p \in DOMAIN order |-> Scored(hits[order[p]].intent, score[order[p]])]

\* RuleBasedClassifier.classify
Classify(hits, audience, k) ==
    IF hits = <<>> THEN <<Scored(FallbackIntent, 1000)>> ELSE Shorter(Ranked(hits, audience), k)

\* Mutant: what the rules put first is not taken out of the model's list.
PutFirst_Twice(best, scores, k) == Shorter(<<best>> \o scores, k)

PutFirst(best, scores, k) ==
    LET others == {i \in DOMAIN scores : scores[i].intent # best.intent}
        order == Arranged(others, [i \in others |-> {j \in others : j < i}])
    IN  Shorter(<<best>> \o [p \in DOMAIN order |-> scores[order[p]]], k)

\* _combine, for the ensemble; the transformer alone never asks the rules.
Combine(scores, hits, audience, k) ==
    LET model == IF scores = <<>> THEN <<Scored(FallbackIntent, 0)>> ELSE scores
        best == Classify(hits, audience, 1)[1]
    IN  IF /\ model[1].score < LowConfidence
           /\ best.intent # FallbackIntent
           /\ best.score > model[1].score
        THEN PutFirst(best, model, k) ELSE Shorter(model, k)

-----------------------------------------------------------------------------
Audiences == {"any", "b2b", "b2c"}
Distinct(s) == \A i, j \in DOMAIN s : i # j => s[i].intent # s[j].intent
Descending(s) == \A i, j \in DOMAIN s : i < j => s[i].score >= s[j].score

\* No term stands for the fallback, and none of the intents has more than eight
\* in a language; a model names each intent once, the best first.
ASSUME QuestionsAssumption ==
    \A q \in Questions :
        /\ q.audience \in Audiences /\ q.depth \in Nat \ {0}
        /\ q.hits \in Seq(Hits) /\ Distinct(q.hits)
        /\ q.scores \in Seq(Scores) /\ Distinct(q.scores) /\ Descending(q.scores)

NoQuestion == [scores |-> <<>>, hits |-> <<>>, audience |-> "any", depth |-> 1]

RulesInit == question = NoQuestion

\* A text is asked about, and answered.
RulesNext ==
    \/ question = NoQuestion /\ question' \in Questions
    \/ question # NoQuestion /\ question' = NoQuestion

RulesSpec == RulesInit /\ [][RulesNext]_question

-----------------------------------------------------------------------------
IsRanking(s, k) == Len(s) \in 1..k /\ Distinct(s) /\ Descending(s)

(* Whatever is found in a text and whoever asks, the rules answer with the *)
(* best of it, each intent once.  An intent of another audience gets ahead *)
(* of one of the caller's only where that has a single term, and with two  *)
(* terms more; and it alone never makes an answer "confident".             *)
RulesAreFair ==
    LET hits == question.hits
        audience == question.audience
        answer == Classify(hits, audience, question.depth)
        place(i) == {p \in DOMAIN answer : answer[p].intent = hits[i].intent}
    IN  /\ IsRanking(answer, question.depth)
        /\ answer[1].intent \notin IntentsFor(audience) => answer[1].score < Confident
        /\ \A i \in DOMAIN hits :
              place(i) = {} => /\ Len(answer) = question.depth
                               /\ VoteFor(hits[i], audience) <= answer[Len(answer)].score
        /\ \A i, j \in DOMAIN hits :
              (/\ hits[i].intent \in IntentsFor(audience)
               /\ hits[j].intent \notin IntentsFor(audience)
               /\ \E q \in place(j) : \A p \in place(i) : q < p)
              => hits[i].terms = 1 /\ hits[j].terms >= 3

(* The ensemble's answer is a ranking as well, none of whose intents comes *)
(* twice; its best is no worse than the model's; where the model is unsure *)
(* it is no worse than that of the rules, and where the model is sure it   *)
(* is the model's.  With a threshold of zero no model is ever unsure, not  *)
(* even one that says nothing.  (This is what _combine does.  The comment  *)
(* at config.py:55 would have an unsure model's pick stay first, with less *)
(* confidence.)                                                            *)
EnsembleIsNoWorse ==
    LET scores == Shorter(question.scores, question.depth)
        answer == Combine(scores, question.hits, question.audience, question.depth)
        best == Classify(question.hits, question.audience, 1)[1]
        sure == IF scores = <<>> THEN LowConfidence = 0 ELSE scores[1].score >= LowConfidence
    IN  /\ IsRanking(answer, question.depth)
        /\ scores # <<>> => answer[1].score >= scores[1].score
        /\ ~sure /\ question.hits # <<>> => answer[1].score >= best.score
        /\ sure /\ scores # <<>> => answer = scores

(* Intents are ranked fairly, by the rules and by the ensemble.            *)
RankingIsSound == RulesAreFair /\ EnsembleIsNoWorse
=============================================================================
