--------------------------- MODULE IntentService ---------------------------
(***************************************************************************)
(* IntentService (intent/service.py) with IntentClassifier                 *)
(* (intent/classifier.py) over a transformer (intent/model.py), for any    *)
(* number of concurrent requests and batches.  The routes are plain        *)
(* functions, so that each runs on a thread of its own.                    *)
(*                                                                         *)
(* An item is a text and a profile: the audience (user_type) and length    *)
(* (top_k) it asks for.  An answer is known by the text and the profile    *)
(* it was computed for and by who computed it.  The three ensemble         *)
(* backends are the model's: they differ in scores only.                   *)
(***************************************************************************)
EXTENDS ModelGuard

CONSTANTS
    Texts,          \* texts that can be classified
    Profiles,
    Jobs,           \* [items, batch] that clients ask for
    AllowFallback   \* the values that allow_rules_fallback may have

VARIABLES
    fallback,       \* allow_rules_fallback
    pc,             \* what a thread does next, or how its last job ended
    job,            \* its job
    answers,        \* its answers so far, item by item
    at,             \* the item it deals with
    missed,         \* the items that were not in the cache
    runs,           \* history: times it has run the model for its job
    mixed           \* history: keys under which a batch put an answer for another profile

threads == <<pc, job, answers, at, missed>>
vars == <<guard, fallback, threads, runs, mixed>>

\* "blank" is empty after normalisation; "foreign" names an unsupported language.
Items == [text : Texts \cup {"blank", "foreign"}, profile : Profiles]
Keys == [text : Texts, profile : Profiles]
Backends == {"rules", "model"}

ASSUME IntentAssumption ==
    /\ Texts \cap {"blank", "foreign"} = {}
    /\ \A j \in Jobs : j.items \in Seq(Items) /\ j.items # <<>>
    /\ \A j \in Jobs : j.batch \in BOOLEAN /\ (Len(j.items) > 1 => j.batch)
    /\ AllowFallback \subseteq BOOLEAN

NoJob == [items |-> <<>>, batch |-> FALSE]
Ends == {"idle", "done", "rejected", "failed"}

Init ==
    /\ GuardInit(Keys)
    /\ fallback \in AllowFallback
    /\ pc = [t \in Threads |-> "idle"]
    /\ job = [t \in Threads |-> NoJob]
    /\ answers = [t \in Threads |-> <<>>]
    /\ at = [t \in Threads |-> 0]
    /\ missed = [t \in Threads |-> {}]
    /\ runs = [t \in Threads |-> 0]
    /\ mixed = {}

Item(t) == job[t].items[at[t]]
LowestOf(S) == CHOOSE k \in S : \A l \in S : k <= l
After(t) == {k \in missed[t] : k > at[t]}
First(t) == job[t].items[LowestOf(missed[t])]

Computed(item, profile, who) == [by |-> who, text |-> item.text, profile |-> profile]
Invalid == [by |-> "validation"]

Give(t, k, answer) == answers' = [answers EXCEPT ![t][k] = answer]

\* The thread goes on with step, at item k.
Go(t, step, k) ==
    /\ pc' = [pc EXCEPT ![t] = step]
    /\ at' = [at EXCEPT ![t] = k]

\* The request has come to its end; its answers stand until the next begins.
End(t, how) ==
    /\ Go(t, how, 0)
    /\ missed' = [missed EXCEPT ![t] = {}]
    /\ runs' = [runs EXCEPT ![t] = 0]

\* It ends with an error, which carries no answers.
Raise(t, how) ==
    /\ End(t, how)
    /\ answers' = [answers EXCEPT ![t] = [k \in DOMAIN @ |-> Missing]]

-----------------------------------------------------------------------------
Start(t) ==
    /\ pc[t] \in Ends
    /\ \E j \in Jobs :
          /\ job' = [job EXCEPT ![t] = j]
          /\ answers' = [answers EXCEPT ![t] = [k \in DOMAIN j.items |-> Missing]]
    /\ Go(t, "lookup", 1)
    /\ UNCHANGED <<guard, fallback, missed, runs, mixed>>

\* On to the next item to look up or, after the last, to those that were missed.
LookOn(t, misses) ==
    IF at[t] = Len(job[t].items) /\ misses = {} THEN End(t, "done")
    ELSE /\ missed' = [missed EXCEPT ![t] = misses]
         /\ UNCHANGED runs
         /\ IF at[t] < Len(job[t].items) THEN Go(t, "lookup", at[t] + 1)
            ELSE Go(t, IF job[t].batch THEN "choose" ELSE "ask", LowestOf(misses))

\* Mutant: the key leaves the profile out.
Key_TextOnly(item) == [text |-> item.text, profile |-> CHOOSE p \in Profiles : TRUE]

\* _cache_key
Key(item) == [text |-> item.text, profile |-> item.profile]

Hit(t) ==
    /\ pc[t] = "lookup"
    /\ Item(t).text \in Texts
    /\ cached[Key(Item(t))] # Missing
    /\ Give(t, at[t], cached[Key(Item(t))])
    /\ LookOn(t, missed[t])
    /\ UNCHANGED <<guard, fallback, job, mixed>>

Miss(t) ==
    /\ pc[t] = "lookup"
    /\ Item(t).text \in Texts
    /\ LookOn(t, missed[t] \cup {at[t]})
    /\ UNCHANGED <<guard, fallback, job, answers, mixed>>

\* Mutant: a batch passes the error on.
Blank_Raised(t) ==
    /\ pc[t] = "lookup"
    /\ Item(t).text = "blank"
    /\ Raise(t, "rejected")
    /\ UNCHANGED <<guard, fallback, job, mixed>>

\* A ValidationIntentError: an answer in a batch, and an error by itself.
Blank(t) ==
    /\ pc[t] = "lookup"
    /\ Item(t).text = "blank"
    /\ IF job[t].batch
       THEN Give(t, at[t], Invalid) /\ LookOn(t, missed[t])
       ELSE Raise(t, "rejected")
    /\ UNCHANGED <<guard, fallback, job, mixed>>

\* An UnsupportedLanguageError, which is none: a batch does not catch it.
Foreign(t) ==
    /\ pc[t] = "lookup"
    /\ Item(t).text = "foreign"
    /\ Raise(t, "rejected")
    /\ UNCHANGED <<guard, fallback, job, mixed>>

-----------------------------------------------------------------------------
(* classify: one item, or in a batch whose model cannot be had one item    *)
(* after the other, for the profile of the first.                          *)

Classified(t, who) ==
    /\ Give(t, at[t], Computed(Item(t), First(t).profile, who))
    /\ IF After(t) = {}
       THEN Go(t, "store", LowestOf(missed[t]))
       ELSE Go(t, "ask", LowestOf(After(t)))
    /\ UNCHANGED missed

Run(t, step) ==
    /\ Go(t, step, at[t])
    /\ runs' = [runs EXCEPT ![t] = @ + 1]
    /\ UNCHANGED <<answers, missed>>

Ask(t) ==
    /\ pc[t] = "ask"
    /\ \/ Allow /\ Run(t, "run")
       \/ Refuse /\ Classified(t, "rules") /\ UNCHANGED runs
    /\ UNCHANGED <<cached, fallback, job, mixed>>

Answered(t) ==
    /\ pc[t] = "run"
    /\ RecordSuccess
    /\ Classified(t, "model")
    /\ UNCHANGED <<cached, fallback, job, runs, mixed>>

\* A ModelNotReadyError or a ModelFailedError.
Failed(t) ==
    /\ pc[t] = "run"
    /\ RecordFailure
    /\ IF fallback
       THEN Classified(t, "rules") /\ UNCHANGED runs
       ELSE Raise(t, "failed")
    /\ UNCHANGED <<cached, fallback, job, mixed>>

-----------------------------------------------------------------------------
(* classify_batch: all items that were missed at once, for the profile of  *)
(* the first.                                                              *)

\* The state of the circuit is read, and then it is asked.
Choose(t) ==
    /\ pc[t] = "choose"
    /\ Go(t, IF circuit = "open" THEN "ask" ELSE "ask_all", at[t])
    /\ UNCHANGED <<guard, fallback, job, answers, missed, runs, mixed>>

AskAll(t) ==
    /\ pc[t] = "ask_all"
    /\ \/ Allow /\ Run(t, "run_all")
       \/ Refuse /\ Go(t, "ask", at[t]) /\ UNCHANGED <<answers, missed, runs>>
    /\ UNCHANGED <<cached, fallback, job, mixed>>

AllAnswered(t) ==
    /\ pc[t] = "run_all"
    /\ RecordSuccess
    /\ answers' = [answers EXCEPT ![t] = [k \in DOMAIN @ |->
            IF k \in missed[t]
            THEN Computed(job[t].items[k], First(t).profile, "model") ELSE @[k]]]
    /\ Go(t, "store", at[t])
    /\ UNCHANGED <<cached, fallback, job, missed, runs, mixed>>

\* Mutant: the batch is tried again as a whole.
AllFailed_Again(t) ==
    /\ pc[t] = "run_all"
    /\ RecordFailure
    /\ Go(t, "choose", at[t])
    /\ UNCHANGED <<cached, fallback, job, answers, missed, runs, mixed>>

AllFailed(t) ==
    /\ pc[t] = "run_all"
    /\ RecordFailure
    /\ IF fallback THEN Go(t, "ask", at[t]) /\ UNCHANGED <<answers, missed, runs>>
       ELSE Raise(t, "failed")
    /\ UNCHANGED <<cached, fallback, job, mixed>>

-----------------------------------------------------------------------------
Store(t) ==
    /\ pc[t] = "store"
    /\ Put(Key(Item(t)), answers[t][at[t]])
    /\ mixed' = IF First(t).profile # Item(t).profile
                THEN mixed \cup {Key(Item(t))} ELSE mixed
    /\ IF After(t) = {} THEN End(t, "done")
       ELSE Go(t, "store", LowestOf(After(t))) /\ UNCHANGED <<missed, runs>>
    /\ UNCHANGED <<breaker, fallback, job, answers>>

\* The entry a thread is about to move to the end of the unlocked LRU has been
\* pushed out by another: a KeyError.
Pushed(t) ==
    /\ pc[t] \in {"lookup", "store"} /\ Item(t).text \in Texts
    /\ \E u \in Threads \ {t} : pc[u] \in {"lookup", "store"}
    /\ Raise(t, "failed")
    /\ UNCHANGED <<guard, fallback, job, mixed>>

Proceed(t) ==
    \/ Hit(t) \/ Miss(t) \/ Blank(t) \/ Foreign(t) \/ Pushed(t)
    \/ Ask(t) \/ Answered(t) \/ Failed(t)
    \/ Choose(t) \/ AskAll(t) \/ AllAnswered(t) \/ AllFailed(t)
    \/ Store(t)

Passes == Cool /\ UNCHANGED <<fallback, threads, runs, mixed>>

Next == Passes \/ \E t \in Threads : Start(t) \/ Proceed(t)

Spec == Init /\ [][Next]_vars

-----------------------------------------------------------------------------
Answers == [by : Backends, text : Texts, profile : Profiles]

(* Types; the breaker is closed exactly while it has room for a failure.   *)
TypeOK ==
    /\ GuardTypeOK
    /\ \A k \in Keys : cached[k] \in Answers \cup {Missing}
    /\ \A t \in Threads :
          /\ Len(answers[t]) = Len(job[t].items)
          /\ \A k \in DOMAIN answers[t] : answers[t][k] \in Answers \cup {Missing, Invalid}
          /\ missed[t] \subseteq DOMAIN job[t].items
    /\ mixed \subseteq Keys

(* Every item of a request that is done has an answer that was computed    *)
(* for its own text, through the cache or in any position of any batch;    *)
(* and for its own audience and length, unless its key or its own batch    *)
(* has been mixed up with another.                                         *)
OwnAnswers ==
    \A t \in Threads : pc[t] = "done" =>
        \A k \in DOMAIN job[t].items :
            LET item == job[t].items[k]
                answer == answers[t][k]
            IN  IF item.text = "blank" THEN answer = Invalid
                ELSE /\ answer.by \in Backends
                     /\ answer.text = item.text
                     /\ answer.profile = item.profile \/ Key(item) \in mixed

(* "so one bad item doesn't nuke the whole batch": a batch is rejected     *)
(* for no other item than one in a language that is not supported.         *)
BlankItemsAreHarmless ==
    \A t \in Threads : pc[t] = "rejected" /\ job[t].batch =>
        \E k \in DOMAIN job[t].items : job[t].items[k].text = "foreign"

(* Each item of a request is answered for itself and harms no other.       *)
AnswersArePerItem == OwnAnswers /\ BlankItemsAreHarmless

(* However often the model fails, and whatever other threads do to the     *)
(* circuit meanwhile, a request of n items runs it n + 1 times at most.    *)
ModelRunsAreBounded ==
    \A t \in Threads :
        runs[t] <= Len(job[t].items) + (IF job[t].batch THEN 1 ELSE 0)

(* The breaker, the cache and the requests, at any moment.                 *)
Consistent == TypeOK /\ ModelRunsAreBounded
=============================================================================
