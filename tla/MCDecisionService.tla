------------------------- MODULE MCDecisionService -------------------------
(* DecisionService and, beside it, DecisionEngine on small instances.      *)
EXTENDS DecisionService, DecisionEngine, TLC

Featured(others, stock) ==
    [others |-> others,
     flags |-> [flag \in Flagged |-> stock]]

\* Two share a fingerprint.
StockUnknown == Featured("x", "unknown")
OutOfStock == Featured("x", "no")
Another == Featured("y", "no")
SomeFeatures == {StockUnknown, OutOfStock, Another}

Item_(features, override, name) ==
    [features |-> features, override |-> override, name |-> name]
Single(features, override, name) ==
    [items |-> <<Item_(features, override, name)>>, batch |-> FALSE]
Batch(items) == [items |-> items, batch |-> TRUE]

\* A single request, a batch that is evaluated as one and another that is
\* evaluated item by item; the strategy given or not, one name.
SomeJobs ==
    {Single(Another, "auto", "one"),
     Batch(<<Item_(OutOfStock, "ml", "none"), Item_(StockUnknown, "ml", "none")>>),
     Batch(<<Item_(StockUnknown, "ensemble", "none"), Item_(OutOfStock, "ml", "none")>>)}

\* A batch falls back under the second, a single item fails under the third.
SomeSettings ==
    {[strategy |-> "rules", fallback |-> FALSE], [strategy |-> "ml", fallback |-> TRUE],
     [strategy |-> "ensemble", fallback |-> FALSE]}

SymmetryOfThreads == Permutations(Threads)

-----------------------------------------------------------------------------
Request(intent, userType, inStock, alternatives, price, quantity, budget, risk, promotion, rating, confidence) ==
    [intent |-> intent, userType |-> userType, inStock |-> inStock, alternatives |-> alternatives,
     price |-> price, quantity |-> quantity, amount |-> 0, budget |-> budget, buyerRisk |-> risk,
     promotion |-> promotion, urgency |-> "low", hasProduct |-> TRUE, rating |-> rating,
     confidence |-> confidence]

\* Orders: amounts on both sides of both limits and of the budget, with risky
\* and other buyers, poor suppliers, and intents that are doubtful or not.
Orders ==
    {Request(i, u, s, "yes", p, q, b, r, "no", g, c) :
        i \in {"place_order", "bulk_order", "request_quote", "inquire_price"},
        u \in {"b2b", "b2c"}, s \in {"yes", "no", "unknown"},
        p \in {0, 1, 3}, q \in {0, 2}, b \in {0, 2}, r \in {0, 70}, g \in {0, 20}, c \in {20, 90}}

\* Everything else: one intent of each kind, and one that no rule knows.
Chats ==
    {Request(i, u, s, a, p, 0, 0, 0, m, 20, c) :
        i \in {"cancel_order", "return_refund", "complaint", "search_product", "compare_products",
               "product_info", "check_stock", "negotiate_terms", "supplier_info", "greeting", "other"},
        u \in {"b2b", "b2c"}, s \in {"yes", "no"}, a \in {"yes", "no"}, p \in {0, 4},
        m \in {"yes", "no"}, c \in {0, 20, 35, 90}}

SomeRequests == Orders \cup Chats

Vote(action, score) == [action |-> action, score |-> score]

\* Two models that are sure and three that are not.
SomeVotes ==
    {<<Vote("approve_purchase", 80), Vote("reject_purchase", 20)>>,
     <<Vote("bulk_order", 40), Vote("no_action", 60)>>,
     <<Vote("approve_purchase", 45), Vote("request_quote", 50), Vote("no_action", 5)>>,
     <<Vote("escalate_to_human", 30), Vote("add_to_cart", 40), Vote("no_action", 30)>>,
     <<Vote("cancel_request", 54), Vote("no_action", 46)>>}

-----------------------------------------------------------------------------
\* The two share nothing, so that it shows no more if both move: one does.
EngineIdle ==
    /\ request = Request("greeting", "b2c", "yes", "yes", 0, 0, 0, 0, "no", 20, 90)
    /\ strategy = "rules" /\ outcome = NoOutcome /\ by = "nobody" /\ response = NoOutcome

ServiceIdle ==
    /\ Init /\ ~loaded
    /\ setting = [strategy |-> "rules", fallback |-> FALSE]

MCInit == Init /\ EngineInit /\ (EngineIdle \/ ServiceIdle)
MCNext ==
    \/ EngineIdle /\ Next /\ UNCHANGED engineVars
    \/ ServiceIdle /\ EngineNext /\ UNCHANGED vars
    \/ response # NoOutcome /\ UNCHANGED <<vars, engineVars>>

MCSpec == MCInit /\ [][MCNext]_<<vars, engineVars>>
=============================================================================
