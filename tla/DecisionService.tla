-------------------------- MODULE DecisionService --------------------------
(***************************************************************************)
(* DecisionService (decision/service.py) with DecisionEngine               *)
(* (decision/engine.py) and a model that is loaded on first use            *)
(* (decision/strategies/ml.py), for any number of concurrent requests and  *)
(* batches.  The routes are plain functions, so that each runs on a thread *)
(* of its own, as does what the hub calls in embedded mode.                *)
(*                                                                         *)
(* An item is its features, the strategy it asks for ("auto" if it asks    *)
(* for none) and the name it gives itself (request_id and session_id).  A  *)
(* decision is known by the features it was made for, the strategy it says *)
(* made it, whether the model had part in it, whether it says why not, and *)
(* the name it bears; DecisionPolicy says which action that is.            *)
(***************************************************************************)
EXTENDS ModelGuard

CONSTANTS
    Others,         \* what features are but for three flags; amounts to four decimals
    Flagged,        \* those flags: in_stock, promotion_active, has_alternatives
    Features,
    Names,
    Jobs,           \* [items, batch] that clients ask for
    Settings        \* [strategy, fallback]: strategy and allow_rules_fallback

VARIABLES
    setting,
    loaded,         \* _loaded
    lock,           \* the thread that holds the model's _lock, or nobody
    pc,             \* what a thread does next, or how its last job ended
    job,
    answers,        \* its decisions so far, item by item
    at,             \* the item it deals with
    missed          \* the items that were not in the cache

threads == <<pc, job, answers, at, missed>>
model == <<loaded, lock>>
vars == <<guard, setting, model, threads>>

Overrides == {"auto", "rules", "ml", "ensemble"}
\* Unknown is 0.5.
Ternary == {"yes", "no", "unknown"}

\* FeatureVector.cache_key: int() of a flag that is unknown is that of one that is not set.
Fingerprint(f) ==
    [f EXCEPT !.flags = [flag \in Flagged |-> IF @[flag] = "unknown" THEN "no" ELSE @[flag]]]

Items == [features : Features, override : Overrides, name : Names \cup {"none"}]
Keys == [features : {Fingerprint(f) : f \in Features}, override : Overrides]
Ends == {"idle", "done", "failed"}
Nobody == "nobody"
Nothing == [items |-> <<>>, batch |-> FALSE]

ASSUME DecisionAssumption ==
    /\ Features \subseteq [others : Others, flags : [Flagged -> Ternary]]
    /\ "none" \notin Names
    /\ Nobody \notin Threads
    /\ \A j \in Jobs : j.items \in Seq(Items) /\ j.items # <<>>
    /\ \A j \in Jobs : j.batch \in BOOLEAN /\ (Len(j.items) > 1 => j.batch)
    /\ Settings \subseteq [strategy : Overrides \ {"auto"}, fallback : BOOLEAN]

\* The engine has a model only if its own strategy needs one.
HasModel == setting.strategy # "rules"

Init ==
    /\ GuardInit(Keys)
    /\ setting \in Settings
    /\ loaded \in {FALSE, HasModel}     \* preload_model
    /\ lock = Nobody
    /\ pc = [t \in Threads |-> "idle"]
    /\ job = [t \in Threads |-> Nothing]
    /\ answers = [t \in Threads |-> <<>>]
    /\ at = [t \in Threads |-> 0]
    /\ missed = [t \in Threads |-> {}]

Item(t) == job[t].items[at[t]]
LowestOf(S) == CHOOSE k \in S : \A l \in S : k <= l

\* _resolve_strategy
Strategy(item) == IF item.override = "auto" THEN setting.strategy ELSE item.override

\* A batch whose items ask for one strategy is evaluated as one.
Together(t) ==
    /\ job[t].batch
    /\ \A k, l \in missed[t] : job[t].items[k].override = job[t].items[l].override
Group(t) == IF Together(t) THEN missed[t] ELSE {at[t]}
After(t) == {k \in missed[t] : \A l \in Group(t) : k > l}

Go(t, step, k) ==
    /\ pc' = [pc EXCEPT ![t] = step]
    /\ at' = [at EXCEPT ![t] = k]

End(t, how) ==
    /\ Go(t, how, 0)
    /\ missed' = [missed EXCEPT ![t] = {}]

\* The request, or the batch as a whole, ends with an error.
Raise(t) ==
    /\ End(t, "failed")
    /\ job' = [job EXCEPT ![t] = Nothing]
    /\ answers' = [answers EXCEPT ![t] = <<>>]

-----------------------------------------------------------------------------
Start(t) ==
    /\ pc[t] \in Ends
    /\ \E j \in Jobs :
          /\ job' = [job EXCEPT ![t] = j]
          /\ answers' = [answers EXCEPT ![t] = [k \in DOMAIN j.items |-> Missing]]
    /\ Go(t, "lookup", 1)
    /\ UNCHANGED <<guard, setting, model, missed>>

\* On to the next item to look up or, after the last, to the first that was missed.
LookOn(t, misses) ==
    IF at[t] < Len(job[t].items)
    THEN Go(t, "lookup", at[t] + 1) /\ missed' = [missed EXCEPT ![t] = misses]
    ELSE IF misses = {} THEN End(t, "done")
    ELSE Go(t, "ask", LowestOf(misses)) /\ missed' = [missed EXCEPT ![t] = misses]

\* Mutant: the key leaves the strategy out.
Key_FeaturesOnly(item) == [features |-> Fingerprint(item.features), override |-> "auto"]

\* _cache_key
Key(item) == [features |-> Fingerprint(item.features), override |-> item.override]

\* The copy takes the name of the request, if it has one.
Hit(t) ==
    /\ pc[t] = "lookup"
    /\ LET found == cached[Key(Item(t))]
       IN  /\ found # Missing
           /\ answers' = [answers EXCEPT ![t][at[t]] =
                 IF Item(t).name = "none" THEN found ELSE [found EXCEPT !.name = Item(t).name]]
    /\ LookOn(t, missed[t])
    /\ UNCHANGED <<guard, setting, model, job>>

Miss(t) ==
    /\ pc[t] = "lookup"
    /\ LookOn(t, missed[t] \cup {at[t]})
    /\ UNCHANGED <<guard, setting, model, job, answers>>

-----------------------------------------------------------------------------
(* evaluate and evaluate_batch, for the items of a group at once.          *)

\* Every item of the group gets a decision by strategy; the next group follows.
Decide(t, by, usedModel, saysWhy) ==
    /\ answers' = [answers EXCEPT ![t] = [k \in DOMAIN @ |->
          IF k \in Group(t)
          THEN [by |-> by, model |-> usedModel, why |-> saysWhy,
                features |-> job[t].items[k].features, name |-> job[t].items[k].name]
          ELSE @[k]]]
    /\ UNCHANGED job
    /\ IF After(t) = {} THEN Go(t, "store", LowestOf(missed[t]))
       ELSE Go(t, "ask", LowestOf(After(t)))
    /\ UNCHANGED missed

\* The reasons get lost when the model of a batch falls back.
FallBack(t) == Decide(t, "rules_fallback", FALSE, ~Together(t))

\* ensure_loaded looks at _loaded before it takes the lock.
Consult(t) ==
    /\ Go(t, IF loaded THEN "predict" ELSE "await_lock", at[t])
    /\ UNCHANGED <<job, answers, missed>>

Ask(t) ==
    /\ pc[t] = "ask"
    /\ LET strategy == Strategy(Item(t))
       IN  \/ /\ strategy = "rules"
              /\ Decide(t, "rules", FALSE, FALSE) /\ UNCHANGED breaker
           \/ /\ strategy = "ml" /\ HasModel
              /\ \/ Allow /\ Consult(t)
                 \/ Refuse /\ FallBack(t)
           \/ /\ strategy = "ml" /\ ~HasModel
              /\ Raise(t) /\ UNCHANGED breaker
           \/ /\ strategy = "ensemble" /\ HasModel
              /\ Consult(t) /\ UNCHANGED breaker
           \/ /\ strategy = "ensemble" /\ ~HasModel
              /\ Decide(t, "ensemble", FALSE, TRUE) /\ UNCHANGED breaker
    /\ UNCHANGED <<cached, setting, model>>

\* Mutant: _loaded is not looked at again under the lock.
TakeLock_NoRecheck(t) ==
    /\ pc[t] = "await_lock" /\ lock = Nobody
    /\ Go(t, "load", at[t]) /\ lock' = t
    /\ UNCHANGED <<guard, setting, loaded, job, answers, missed>>

TakeLock(t) ==
    /\ pc[t] = "await_lock" /\ lock = Nobody
    /\ IF loaded THEN Go(t, "predict", at[t]) /\ UNCHANGED lock
       ELSE Go(t, "load", at[t]) /\ lock' = t
    /\ UNCHANGED <<guard, setting, loaded, job, answers, missed>>

Loaded(t) ==
    /\ pc[t] = "load"
    /\ loaded' = TRUE /\ lock' = Nobody
    /\ Go(t, "predict", at[t])
    /\ UNCHANGED <<guard, setting, job, answers, missed>>

\* Mutant: the ensemble does not say that it had to do without the model.
ModelFails_Silent(t) ==
    IF Strategy(Item(t)) = "ensemble"
    THEN Decide(t, "ensemble", FALSE, FALSE) /\ UNCHANGED breaker
    ELSE RecordFailure /\ IF setting.fallback THEN FallBack(t) ELSE Raise(t)

\* A ModelNotReadyError or a ModelFailedError: the ensemble keeps to its rules
\* and says so, the model's strategy falls back if it may.
ModelFails(t) ==
    IF Strategy(Item(t)) = "ensemble"
    THEN Decide(t, "ensemble", FALSE, TRUE) /\ UNCHANGED breaker
    ELSE RecordFailure /\ IF setting.fallback THEN FallBack(t) ELSE Raise(t)

LoadFails(t) ==
    /\ pc[t] = "load"
    /\ lock' = Nobody
    /\ ModelFails(t)
    /\ UNCHANGED <<cached, setting, loaded>>

Predicted(t) ==
    /\ pc[t] = "predict"
    /\ Decide(t, Strategy(Item(t)), TRUE, FALSE)
    /\ IF Strategy(Item(t)) = "ml" THEN RecordSuccess ELSE UNCHANGED breaker
    /\ UNCHANGED <<cached, setting, model>>

PredictFails(t) ==
    /\ pc[t] = "predict"
    /\ ModelFails(t)
    /\ UNCHANGED <<cached, setting, model>>

-----------------------------------------------------------------------------
\* The decisions of a batch are stored when the last of them has been made.
Store(t) ==
    /\ pc[t] = "store"
    /\ Put(Key(Item(t)), answers[t][at[t]])
    /\ LET rest == {k \in missed[t] : k > at[t]}
       IN  IF rest = {} THEN End(t, "done")
           ELSE Go(t, "store", LowestOf(rest)) /\ UNCHANGED missed
    /\ UNCHANGED <<breaker, setting, model, job, answers>>

\* Another thread has pushed the entry out of the unlocked LRU: a KeyError.
Pushed(t) ==
    /\ pc[t] \in {"lookup", "store"}
    /\ \E u \in Threads \ {t} : pc[u] \in {"lookup", "store"}
    /\ Raise(t)
    /\ UNCHANGED <<guard, setting, model>>

Proceed(t) ==
    \/ Hit(t) \/ Miss(t) \/ Pushed(t) \/ Store(t)
    \/ Ask(t) \/ TakeLock(t) \/ Loaded(t) \/ LoadFails(t)
    \/ Predicted(t) \/ PredictFails(t)

Passes == Cool /\ UNCHANGED <<setting, model, threads>>

Next == Passes \/ \E t \in Threads : Start(t) \/ Proceed(t)

Spec == Init /\ [][Next]_vars

-----------------------------------------------------------------------------
Decisions ==
    [by : {"rules", "ml", "ensemble", "rules_fallback"}, model : BOOLEAN, why : BOOLEAN,
     features : Features, name : Names \cup {"none"}]

(* Types; the breaker is closed exactly while it has room for a failure.   *)
TypeOK ==
    /\ GuardTypeOK
    /\ \A k \in Keys : cached[k] \in Decisions \cup {Missing}
    /\ lock \in Threads \cup {Nobody}
    /\ \A t \in Threads :
          /\ Len(answers[t]) = Len(job[t].items)
          /\ \A k \in DOMAIN answers[t] : answers[t][k] \in Decisions \cup {Missing}
          /\ missed[t] \subseteq DOMAIN job[t].items

\* The strategies that may make a decision for an item.
Makers(item) == IF Strategy(item) = "ml" THEN {"ml", "rules_fallback"} ELSE {Strategy(item)}

\* The same features, as far as the cache can tell: one may not know what is not so.
SameFeatures(f, g) ==
    /\ f.others = g.others
    /\ \A flag \in Flagged :
          f.flags[flag] = g.flags[flag] \/ {f.flags[flag], g.flags[flag]} = {"no", "unknown"}

(* Through the cache, alone or in any position of any batch, every item    *)
(* gets a decision by the strategy it asked for, under its own name if it  *)
(* has one, and on its own features, but that one from the cache may have  *)
(* been made knowing that a flag is not set when the item does not know,   *)
(* or the other way round.  What was not in the cache is decided on        *)
(* exactly the item's features, and nothing is put in the cache before     *)
(* every item of the request has got its decision.                         *)
OwnDecisions ==
    \A t \in Threads : pc[t] \in {"store", "done"} =>
        \A k \in DOMAIN job[t].items :
            LET item == job[t].items[k]
                answer == answers[t][k]
            IN  /\ answer # Missing
                /\ SameFeatures(answer.features, item.features)
                /\ answer.by \in Makers(item)
                /\ item.name # "none" => answer.name = item.name
                /\ k \in missed[t] => answer.features = item.features /\ answer.name = item.name

(* A decision that should have been the model's and is not says so, fresh  *)
(* or cached: it calls itself a fallback or gives the reason.              *)
DegradedIsSaid ==
    \A t \in Threads : pc[t] = "done" =>
        \A k \in DOMAIN answers[t] :
            LET answer == answers[t][k]
            IN  answer.by \in {"ml", "ensemble"} => (answer.model \/ answer.why)

(* What an answer says of itself is true: whose it is and how it was made. *)
DecisionsAreTrue == OwnDecisions /\ DegradedIsSaid

(* ensure_loaded: however many threads find the model missing at once, one *)
(* at a time loads it, and none when it has been loaded.                   *)
LoadedOnce ==
    \A t \in Threads : pc[t] = "load" => lock = t /\ ~loaded
=============================================================================
