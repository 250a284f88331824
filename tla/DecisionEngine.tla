--------------------------- MODULE DecisionEngine ---------------------------
(***************************************************************************)
(* One request, alone or in a batch, through DecisionEngine.evaluate       *)
(* (decision/engine.py) and DecisionService._materialize                   *)
(* (decision/service.py), with the rules, the model and their blend of     *)
(* DecisionPolicy.  The model is whatever is loaded: it may give any of    *)
(* ModelVotes, or fail.  DecisionService has the threads, the cache and    *)
(* the breaker.                                                            *)
(***************************************************************************)
EXTENDS DecisionPolicy

CONSTANTS
    Requests,
    ModelVotes      \* what a model may answer: a score for each of its classes

VARIABLES
    request,
    strategy,       \* the strategy that _resolve_strategy settles on
    outcome,        \* what the strategy, or its fallback, came to
    by,             \* actual_strategy, or nobody
    response

engineVars == <<request, strategy, outcome, by, response>>

NoOutcome == [candidates |-> <<>>]

Flags == {"yes", "no", "unknown"}

\* What the schemas accept; amount is filled in by the extraction.
ASSUME RequestsAssumption ==
    Requests \subseteq
        [intent : STRING, confidence : 0..100, userType : {"b2b", "b2c"}, buyerRisk : 0..100,
         urgency : {"low", "medium", "high"}, budget : Nat, price : Nat, quantity : Nat,
         amount : {0}, rating : 0..50, inStock : Flags, alternatives : Flags, promotion : Flags,
         hasProduct : BOOLEAN]

\* A model has a score for each of its classes, which are actions of the catalog.
ASSUME VotesAssumption ==
    \A votes \in ModelVotes :
        /\ votes \in Seq([action : Catalog, score : 0..100]) /\ votes # <<>>
        /\ \A i, j \in DOMAIN votes : votes[i].action = votes[j].action => i = j

EngineInit ==
    /\ request \in Requests
    /\ strategy \in {"rules", "ml", "ensemble"}
    /\ outcome = NoOutcome /\ by = "nobody" /\ response = NoOutcome

Vector == Extract(request)

Evaluated(result, strategyUsed) ==
    /\ by = "nobody"
    /\ outcome' = result /\ by' = strategyUsed
    /\ UNCHANGED <<request, strategy, response>>

RulesDecide == strategy = "rules" /\ Evaluated(ByRules(Vector), "rules")

ModelDecides(votes) == strategy = "ml" /\ Evaluated(ByModel(Vector, votes), "ml")

\* The breaker is open, the model cannot be loaded or fails.
RulesStandIn == strategy = "ml" /\ Evaluated(ByRules(Vector), "rules_fallback")

EnsembleDecides(votes) ==
    /\ strategy = "ensemble"
    /\ Evaluated(Blend(ByRules(Vector), ByModel(Vector, votes)), "ensemble")

\* _tag_only_rules
EnsembleOfRules == strategy = "ensemble" /\ Evaluated(ByRules(Vector), "ensemble:rules")

Respond ==
    /\ by # "nobody" /\ response = NoOutcome
    /\ response' = Response(Vector, outcome)
    /\ UNCHANGED <<request, strategy, outcome, by>>

EngineNext ==
    \/ RulesDecide \/ RulesStandIn \/ EnsembleOfRules
    \/ \E votes \in ModelVotes : ModelDecides(votes) \/ EnsembleDecides(votes)
    \/ Respond

EngineSpec == EngineInit /\ [][EngineNext]_engineVars

-----------------------------------------------------------------------------
Answered == response # NoOutcome
Purchases == {"place_order", "bulk_order"}
ByRulesAlone == by \in {"rules", "rules_fallback", "ensemble:rules"}

(* Whatever strategies and models come to is a response that the schema    *)
(* accepts (schemas.py): one candidate at least and 1 + TopK at most, each *)
(* action once, from the catalog, the best first, and every confidence and *)
(* risk a fraction of one.                                                 *)
ProperResponse ==
    Answered =>
        LET candidates == response.candidates
        IN  /\ Len(candidates) \in 1..(1 + TopK)
            /\ \A k \in DOMAIN candidates :
                  /\ candidates[k].action \in Catalog
                  /\ candidates[k].score \in 0..100
                  /\ \A l \in 1..(k - 1) :
                        /\ candidates[l].score >= candidates[k].score
                        /\ candidates[l].action # candidates[k].action
            /\ response.risk \in 0..100

(* However the votes of the other rules add up, rules that decide alone    *)
(* send every order and request for a quote at or above the ceiling to a   *)
(* human, put no consumer's order forward that is half as much again as    *)
(* the budget ("the over-budget rule below should win in that case") and   *)
(* offer nobody the other audience's actions.                              *)
RulesKeepTheLimits ==
    Answered /\ ByRulesAlone =>
        LET worth == request.price * Greatest(request.quantity, 1)
            unaffordable == worth > 0 /\ request.budget > 0 /\ 2 * worth >= 3 * request.budget
        IN  /\ worth >= Ceiling /\ request.intent \in Purchases \cup {"request_quote"} =>
                  response.action = "escalate_to_human"
            /\ request.userType = "b2c" /\ request.intent \in Purchases /\ unaffordable =>
                  response.action \notin {"proceed_to_checkout", "approve_purchase", "add_to_cart"}
            /\ response.action \in Allowed(request.userType)

(* "If ML is too unsure we still trust the rules": an unsure model may     *)
(* reorder what the rules propose, and brings up no winner of its own.     *)
UnsureModelsOnlyRank ==
    by = "ensemble" /\ ~Answered /\ outcome.unsure =>
        LET proposed == ByRules(Vector).candidates
        IN  \E k \in DOMAIN proposed : proposed[k].action = outcome.candidates[1].action

(* Under every strategy and for every model, what goes through without a   *)
(* reviewer and costs anything is worth less than the ceiling and, if it   *)
(* is approved, no more than may be approved automatically, whether it is  *)
(* one piece or many and whether the number of pieces is given or not.     *)
NothingIsApprovedUnseen ==
    Answered /\ ~response.review /\ request.price > 0 =>
        /\ request.price < Ceiling
        /\ request.price * request.quantity < Ceiling
        /\ response.action = "approve_purchase" =>
              request.price <= Floor /\ request.price * request.quantity <= Floor
=============================================================================
