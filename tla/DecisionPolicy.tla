--------------------------- MODULE DecisionPolicy ---------------------------
(***************************************************************************)
(* How the decision engine decides: features (decision/features.py), the   *)
(* rule, model and ensemble strategies (decision/strategies), the catalog  *)
(* of actions and what the service makes of an outcome.                    *)
(*                                                                         *)
(* Scores, confidences and risks are in hundredths, rounded down.  A       *)
(* number that a request leaves out is 0, as _or 0.0_ makes it; a flag is  *)
(* yes, no or unknown.  Labels, rationales and next steps are left out.    *)
(***************************************************************************)
EXTENDS Rankings

CONSTANTS
    Floor,          \* max_auto_approve_amount
    Ceiling,        \* require_human_review_above
    RiskLimit,      \* risk_review_threshold
    UnsureBelow,    \* low_confidence_threshold
    RulesWeight,    \* ensemble_rules_weight
    ModelWeight,    \* ensemble_ml_weight
    TopK            \* top_k_alternatives

ASSUME PolicyAssumption ==
    /\ {Floor, Ceiling, TopK} \subseteq Nat /\ Floor <= Ceiling
    /\ {RiskLimit, UnsureBelow, RulesWeight, ModelWeight} \subseteq 0..100
    /\ RulesWeight + ModelWeight > 0

-----------------------------------------------------------------------------
(* The catalog, by its sections. *)
Informing == {"request_more_info", "show_product_details", "recommend_alternatives",
              "compare_alternatives", "check_inventory"}
ConsumerOrders == {"add_to_cart", "proceed_to_checkout", "wait_for_promotion"}
BusinessOrders == {"request_quote", "negotiate_terms", "bulk_order"}
Verdicts == {"approve_purchase", "reject_purchase", "defer_decision"}
Support == {"escalate_to_human", "contact_supplier", "cancel_request", "initiate_return"}
Fallback == "no_action"

Catalog == Informing \cup ConsumerOrders \cup BusinessOrders \cup Verdicts \cup Support
           \cup {Fallback}

\* Those whose audience includes the user type, and the universal fallbacks,
\* which the catalog offers to anyone anyhow.
Allowed(userType) ==
    Catalog \ (IF userType = "b2b" THEN ConsumerOrders
               ELSE BusinessOrders \cup {"contact_supplier"})

-----------------------------------------------------------------------------
(* Features *)

\* Mutant: an order without a quantity is for nothing.
Extract_NoQuantity(request) ==
    [request EXCEPT !.amount = request.price * request.quantity]

\* total_amount replaces the price and the quantity; a missing quantity is one.
Extract(request) ==
    [request EXCEPT !.amount = request.price * Greatest(request.quantity, 1)]

\* Mutant: the boundary is on the wrong side.
FarOverBudget_Strict(f) == f.budget > 0 /\ 2 * f.amount > 3 * f.budget

\* price_to_budget_ratio >= 1.5, and between 1 and 1.5; its clip is out of the way.
FarOverBudget(f) == f.budget > 0 /\ 2 * f.amount >= 3 * f.budget
OverBudget(f) == f.budget > 0 /\ f.amount > f.budget /\ ~FarOverBudget(f)

-----------------------------------------------------------------------------
(* Rules: when they fire, what they vote for, how loud, and what they risk. *)

Rule(when, action, score, risk) ==
    [when |-> when, action |-> action, score |-> score, risk |-> risk]

ServiceRules(f) == <<
    Rule(f.intent = "cancel_order", "cancel_request", 95, 10),
    Rule(f.intent = "return_refund", "initiate_return", 95, 5),
    Rule(f.intent \in {"complaint", "contact_support"}, "escalate_to_human", 85, 20),
    Rule(f.intent \in {"search_product", "get_recommendation"}, "recommend_alternatives", 70, 0),
    Rule(f.intent = "compare_products", "compare_alternatives", 85, 0),
    Rule(f.intent \in {"product_info", "view_reviews"}, "show_product_details", 80, 0),
    Rule(f.intent = "check_stock", "check_inventory", 85, 0),
    Rule(f.inStock = "no" /\ f.alternatives = "yes", "recommend_alternatives", 65, 0) >>

ConsumerRules(f) == <<
    Rule(f.userType = "b2c" /\ f.intent = "place_order" /\ ~FarOverBudget(f),
         "proceed_to_checkout", 85, 10),
    Rule(f.userType = "b2c" /\ f.intent \in {"inquire_price", "search_product"} /\ f.inStock = "yes",
         "add_to_cart", 55, 0),
    Rule(f.userType = "b2c" /\ f.promotion = "no" /\ f.urgency = "low" /\ f.hasProduct,
         "wait_for_promotion", 45, 0) >>

BusinessRules(f) == <<
    Rule(f.userType = "b2b" /\ f.intent \in {"request_quote", "inquire_price"}, "request_quote", 85, 5),
    Rule(f.userType = "b2b" /\ f.intent \in {"bulk_order", "place_order"}, "bulk_order", 80, 20),
    Rule(f.userType = "b2b" /\ f.intent = "negotiate_terms", "negotiate_terms", 85, 10),
    Rule(f.userType = "b2b" /\ f.intent = "supplier_info", "contact_supplier", 75, 0) >>

GuardRules(f) == <<
    Rule(/\ f.amount > 0 /\ f.amount <= Floor
         /\ f.intent \in {"place_order", "bulk_order"}
         /\ f.inStock = "yes" /\ f.buyerRisk < 50, "approve_purchase", 75, 15),
    Rule(f.amount >= Ceiling, "escalate_to_human", 90, 30),
    Rule(f.amount > 0 /\ FarOverBudget(f), "reject_purchase", 80, 25),
    Rule(OverBudget(f), "defer_decision", 55, 10),
    Rule(f.buyerRisk >= 70 /\ f.intent \in {"place_order", "bulk_order", "request_quote"},
         "escalate_to_human", 70, 30),
    Rule(f.rating > 0 /\ f.rating < 25 /\ f.userType = "b2b", "contact_supplier", 50, 20) >>

ChatRules(f) == <<
    Rule(f.intent = "greeting", Fallback, 55, 0),
    Rule(f.intent = "farewell", Fallback, 55, 0),
    Rule(f.confidence > 0 /\ f.confidence < 40, "request_more_info", 55, 0) >>

Rules(f) == ServiceRules(f) \o ConsumerRules(f) \o BusinessRules(f) \o GuardRules(f) \o ChatRules(f)

\* _fallback_scores: what is voted for when no rule fires.
NoRule(f) ==
    IF f.confidence < 30
    THEN <<Rule(TRUE, Fallback, 50, 0), Rule(TRUE, "request_more_info", 40, 0)>>
    ELSE <<Rule(TRUE, "request_more_info", 50, 0), Rule(TRUE, Fallback, 30, 0)>>

\* What the votes at the given places, the cast, add up to for an action, and the
\* first place where it is voted for.
SumFor(votes, cast, action) ==
    Total([i \in DOMAIN votes |->
              IF i \in cast /\ votes[i].action = action THEN votes[i].score ELSE 0])

FirstFor(votes, cast, action) ==
    CHOOSE i \in cast : /\ votes[i].action = action
                        /\ \A j \in cast : votes[j].action = action => i <= j

\* The actions voted for, from the highest sum down; of equal ones that first which
\* was voted for first (a stable sort of a dict).
Ranking(votes, cast) ==
    LET voted == {votes[i].action : i \in cast}
        sum == [a \in voted |-> SumFor(votes, cast, a)]
        first == [a \in voted |-> FirstFor(votes, cast, a)]
        ahead == [a \in voted |->
                    {b \in voted : sum[b] > sum[a] \/ (sum[b] = sum[a] /\ first[b] < first[a])}]
        order == Arranged(voted, ahead)
    IN  [k \in DOMAIN order |-> [action |-> order[k], score |-> sum[order[k]]]]

\* Mutant: sums are not capped.
Capped_Not(ranked) == ranked

Capped(ranked) == [k \in DOMAIN ranked |-> [ranked[k] EXCEPT !.score = Least(100, @)]]

\* RuleBasedStrategy.evaluate.  What does not suit the caller is taken out of a
\* ranking, or not ranked: the order of the others is the same.
ByRules(f) ==
    LET rules == Rules(f)
        votes == IF \E i \in DOMAIN rules : rules[i].when THEN rules ELSE NoRule(f)
        cast == {i \in DOMAIN votes : votes[i].when}
        suited == {i \in cast : votes[i].action \in Allowed(f.userType)}
    IN  [candidates |-> IF suited = {} THEN <<[action |-> Fallback, score |-> 0]>>
                        ELSE Capped(Ranking(votes, suited)),
         risk |-> Least(100, Total([i \in DOMAIN votes |-> IF i \in cast THEN votes[i].risk ELSE 0]))]

-----------------------------------------------------------------------------
(* The model: a confidence for each of its classes, in votes; and the      *)
(* blend of both.                                                          *)

\* _risk_for: little confidence, much money, a risky buyer, a bold action.
ModelRisk(f, top) ==
    Least(100, ((100 - top.score) * 40) \div 100
               + Least(40, (f.amount * 40) \div Greatest(1, Ceiling))
               + (f.buyerRisk * 20) \div 100
               + (IF top.action \in {"approve_purchase", "bulk_order"} THEN 5 ELSE 0))

\* MLBasedStrategy.evaluate
ByModel(f, votes) ==
    LET candidates == Ranking(votes, DOMAIN votes)
    IN  [candidates |-> candidates,
         risk |-> ModelRisk(f, candidates[1])]

Unsure(byModel) == byModel.candidates[1].score < UnsureBelow

\* Mutant: a model that is unsure keeps its weight.
WeightOfModel_Whole(byModel) == 100 * ModelWeight

\* A third of the weight, nearly, for a model that is unsure.
WeightOfModel(byModel) == IF Unsure(byModel) THEN 33 * ModelWeight ELSE 100 * ModelWeight

\* _blend
Blend(byRules, byModel) ==
    LET rules == 100 * RulesWeight
        model == WeightOfModel(byModel)
        weighted(outcome, weight) ==
            [k \in DOMAIN outcome.candidates |->
                [outcome.candidates[k] EXCEPT !.score = @ * weight]]
        votes == weighted(byRules, rules) \o weighted(byModel, model)
        ranked == Ranking(votes, DOMAIN votes)
        most == IF ranked[1].score = 0 THEN 1 ELSE ranked[1].score
        risk == (byRules.risk * rules + byModel.risk * model) \div Greatest(1, rules + model)
    IN  [candidates |-> [k \in DOMAIN ranked |->
                            [ranked[k] EXCEPT !.score = (100 * @) \div most]],
         risk |-> IF Unsure(byModel) THEN Least(100, risk + 5) ELSE risk,
         unsure |-> Unsure(byModel)]

-----------------------------------------------------------------------------
(* The response *)

\* _needs_review
NeedsReview(f, action, risk) ==
    \/ risk >= RiskLimit
    \/ f.amount > 0 /\ f.amount >= Ceiling
    \/ action = "escalate_to_human"
    \/ action = "approve_purchase" /\ f.amount > Floor

\* _materialize
Response(f, outcome) ==
    LET top == outcome.candidates[1]
    IN  [candidates |-> SubSeq(outcome.candidates, 1, Least(1 + TopK, Len(outcome.candidates))),
         action |-> top.action,
         confidence |-> top.score,
         risk |-> outcome.risk,
         review |-> NeedsReview(f, top.action, outcome.risk)]
=============================================================================
