----------------------------- MODULE LlmService -----------------------------
(***************************************************************************)
(* The completion service (llm/service.py): a request is validated, looked *)
(* up in the cache (llm/cache.py) and only then given to the router.       *)
(*                                                                         *)
(* The cache is looked at, and filled, without a step in between: a        *)
(* request that arrives while another one like it is still under way finds *)
(* nothing.  An entry may be gone by the time it is asked for: pushed out  *)
(* of the memory tier, expired in Redis, or never taken by it.             *)
(***************************************************************************)
EXTENDS LlmRouter

Seqs == INSTANCE SequencesExt

CONSTANTS
    Prompts,        \* what the requests say
    TooLong,        \* the prompts that are longer than max_prompt_chars
    Asks,           \* what is asked: a prompt, a strategy, a model and target_model_ids
    DefaultModel,   \* default_model_id
    Chain,          \* fallback_chain
    Unnamed         \* the model of a request that names none

VARIABLES
    asked,      \* asked[q]: what q asks
    cache,      \* cache[k]: the request whose response is kept under key k, if any
    source      \* source[q]: the request whose response q was answered with

serviceVars == <<vars, asked, cache, source>>

\* The model first, and after it those of the fallback chain, none of them twice.
Padded(m) ==
    Seqs!FoldLeft(LAMBDA ids, extra : IF extra \in {ids[k] : k \in DOMAIN ids} THEN ids
                                      ELSE Append(ids, extra), <<m>>, Chain)

\* _resolve_targets
Resolve(ask) ==
    CASE ask.list # <<>>                               -> ask.list
      [] ask.list = <<>> /\ ask.model = Unnamed        -> Chain
      [] ask.list = <<>> /\ ask.model # Unnamed /\ ask.strategy = "single" -> <<ask.model>>
      [] OTHER                                         -> Padded(ask.model)

ASSUME AsksAssumption ==
    /\ DefaultModel \in Providers /\ Unnamed \notin Providers
    /\ TooLong \subseteq Prompts
    /\ Asks \subseteq [prompt : Prompts, strategy : Strategies,
                       model : Providers \cup {Unnamed}, list : Seq(Providers)]
    /\ \A a \in Asks : Resolve(a) \in TargetLists

NoAsk == [prompt |-> "none", strategy |-> "none", model |-> Unnamed, list |-> <<>>]

\* Mutant: the key leaves out the strategy.
Key_AnyStrategy(ask) ==
    [ask EXCEPT !.strategy = "none", !.model = IF @ = Unnamed THEN DefaultModel ELSE @]

\* _cache_key: `model_id or default_model_id`, whatever the request is served from.
Key(ask) == [ask EXCEPT !.model = IF @ = Unnamed THEN DefaultModel ELSE @]

Nobody == "nobody"

ServiceInit ==
    /\ Init
    /\ asked = [q \in Requests |-> NoAsk]
    /\ cache = [k \in {Key(a) : a \in Asks} |-> Nobody]
    /\ source = [q \in Requests |-> Nobody]

-----------------------------------------------------------------------------
\* A model that the catalogue does not list.
Invalid(q) ==
    /\ Reject(q)
    /\ UNCHANGED <<asked, cache, source>>

Hit(q) ==
    /\ pc[q] = "idle"
    /\ \E a \in Asks :
          /\ cache[Key(a)] # Nobody
          /\ asked' = [asked EXCEPT ![q] = a]
          /\ source' = [source EXCEPT ![q] = cache[Key(a)]]
    /\ pc' = [pc EXCEPT ![q] = "returned"]
    /\ UNCHANGED <<shared, strategy, targets, task, answer, attempts, winner, cache>>

\* _guard_prompt_size, behind the cache and before any target is tried.
Overlong(q) ==
    /\ Reject(q)
    /\ \E a \in Asks :
          /\ a.prompt \in TooLong
          /\ asked' = [asked EXCEPT ![q] = a]
    /\ UNCHANGED <<cache, source>>

Miss(q) ==
    \E a \in Asks :
        /\ a.prompt \notin TooLong
        /\ Run(q, a.strategy, Resolve(a))
        /\ asked' = [asked EXCEPT ![q] = a]
        /\ UNCHANGED <<cache, source>>

\* Mutant: whatever the router ends with is kept.
Answered_AnyEnd == {q \in Requests : pc[q] \in Busy /\ pc'[q] \notin Busy}

\* The router has returned; an error or a cancellation goes past the cache.
Answered == {q \in Requests : pc[q] \in Busy /\ pc'[q] = "returned"}

Route ==
    /\ Proceed
    /\ source' = [q \in Requests |-> IF q \in Answered THEN q ELSE source[q]]
    /\ cache' = [k \in DOMAIN cache |->
          IF \E q \in Answered : Key(asked[q]) = k
          THEN CHOOSE q \in Answered : Key(asked[q]) = k ELSE cache[k]]
    /\ UNCHANGED asked

\* _complete_safe: what a batch, which awaits all of its items, says of item q.
Told(q) ==
    CASE pc[q] = "returned"        -> "response"
      [] pc[q] = "unavailable"     -> "NO_PROVIDER_AVAILABLE"
      [] pc[q] = "rejected"        -> IF asked[q] = NoAsk THEN "VALIDATION_ERROR"
                                      ELSE "INTERNAL_ERROR"    \* BudgetExceededError
      [] pc[q] = "provider_failed" -> "INTERNAL_ERROR"
      [] OTHER                     -> "nothing"

ServiceNext == Route \/ \E q \in Requests : Invalid(q) \/ Hit(q) \/ Overlong(q) \/ Miss(q)

ServiceSpec == ServiceInit /\ [][ServiceNext]_serviceVars

-----------------------------------------------------------------------------
\* Two requests without targets, of which one names the default model and the
\* other none: one is served by that model, the other from the fallback chain.
Confused(a, b) ==
    a.list = <<>> /\ b.list = <<>> /\ {a.model, b.model} = {Unnamed, DefaultModel}

(* A response, cached or not, answers the request it is given to: it was   *)
(* made for the same prompt and strategy, by trying the targets that this  *)
(* request would try itself, unless the two are confused by their key; and *)
(* it is one that a provider gave, never an error or what is left of a     *)
(* cancelled request.  An item of a batch that is said to have found no    *)
(* provider, or to be invalid, has had none work for it.                   *)
OwnResponses ==
    \A q \in Requests :
        /\ Told(q) = "response" =>
              LET s == source[q]
              IN  /\ s \in Requests
                  /\ asked[s].prompt = asked[q].prompt
                  /\ asked[s].strategy = asked[q].strategy
                  /\ Resolve(asked[s]) = Resolve(asked[q]) \/ Confused(asked[s], asked[q])
                  /\ winner[s] \in Won(s)
        /\ Told(q) \in {"NO_PROVIDER_AVAILABLE", "VALIDATION_ERROR"} =>
              \A i \in DOMAIN task[q] : task[q][i] = "skipped"

(* "single: call exactly one model" (config.py): who names a model, and no *)
(* targets, gets that model's answer.  The router keeps to it; the cache   *)
(* does not, for the default model.                                        *)
NamedModelAnswers ==
    \A q \in Requests :
        pc[q] = "returned" /\ asked[q].strategy = "single"
            /\ asked[q].list = <<>> /\ asked[q].model # Unnamed =>
        targets[source[q]][winner[source[q]]] = asked[q].model
=============================================================================
