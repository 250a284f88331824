---------------------------- MODULE InputManager ----------------------------
(***************************************************************************)
(* MultiModalInputManager.process (managers/input_manager.py) for every    *)
(* input, with the cache of results, over the session store; the session   *)
(* routes (api/v1/routes/sessions.py); the cleanup task; and restarts of   *)
(* the process, which Redis survives.  Whether the rate limiter and the    *)
(* circuit breaker let an input in is a choice here.                       *)
(***************************************************************************)
EXTENDS SessionStore

CONSTANTS
    Keys,           \* what hash_key tells apart: the contents of inputs
    KeyOf,          \* the content of each input
    MaxFaults       \* bound of the model: restarts, failed calls and forgotten entries

ASSUME InputAssumption ==
    /\ KeyOf \in [Inputs -> Keys]
    /\ MaxFaults \in Nat

VARIABLES
    results,        \* keys of the results that are cached
    faults,         \* faults so far
    disturbed       \* history: sessions whose mirroring was disturbed (see Disturb)

vars == <<store, results, faults, disturbed>>

Init ==
    /\ StoreInit
    /\ results = {}
    /\ faults = 0
    /\ disturbed = {}

\* Something fails that the code cannot help.
Faulted == faults < MaxFaults /\ faults' = faults + 1

\* Sessions that an answer has told of, an error in a batch included.
Known == {sid[i] : i \in {j \in Inputs : step[j] \in {"success", "cached", "failed"}}}

-----------------------------------------------------------------------------
(* process                                                                 *)

\* An input that is let in names no session, or one an earlier answer has told
\* of.  One that is refused changes nothing.
Arrive(i) ==
    /\ step[i] = "idle"
    /\ Create(i, memory) \/ \E s \in Known : Get(i, "open", s)
    /\ UNCHANGED <<mirror, clock, todo, results, faults>>

Lookup(i, ok) ==
    /\ step[i] = "lookup"
    /\ IF ok /\ KeyOf[i] \in results THEN Leave(i, "cached") ELSE Leave(i, "process")
    /\ UNCHANGED <<memory, mirror, clock, todo, accepted, ended, results>>

\* Mutant: the input goes to the session that bears its own name.
Processed_Elsewhere(i) ==
    /\ step[i] = "process"
    /\ Get(i, "add", i)
    /\ UNCHANGED <<mirror, clock, todo, results, faults>>

\* The result goes to the session, if the session is still there.
Processed(i) ==
    /\ step[i] = "process"
    /\ Get(i, "add", sid[i])
    /\ UNCHANGED <<mirror, clock, todo, results, faults>>

\* A ValidationError, a timeout or any other error.
Rejected(i) ==
    /\ step[i] = "process"
    /\ Leave(i, "failed")
    /\ UNCHANGED <<memory, mirror, clock, todo, accepted, ended, results, faults>>

Store(i, ok) ==
    /\ step[i] = "store"
    /\ results' = IF ok THEN results \cup {KeyOf[i]} ELSE results
    /\ Leave(i, "success")
    /\ UNCHANGED <<memory, mirror, clock, todo, accepted, ended>>

-----------------------------------------------------------------------------
(* The session routes.                                                     *)

Ask(r) ==
    /\ step[r] = "idle"
    /\ \E s \in Known, why \in {"get", "delete"} : Get(r, why, s)
    /\ UNCHANGED <<mirror, clock, todo, results, faults>>

-----------------------------------------------------------------------------
Busy(s) == {t \in Tasks : sid[t] = s /\ step[t] \in {"miss", "fetched", "set"}}

\* The process ends in the middle of whatever it was doing and is started anew.
Restart ==
    /\ Faulted
    /\ memory' = [s \in Inputs |-> NoSession]
    /\ step' = [t \in Tasks |->
            IF t \notin Inputs THEN "idle"
            ELSE IF step[t] \in {"miss", "fetched", "set", "lookup", "process", "store"}
            THEN "lost" ELSE step[t]]
    /\ goal' = [t \in Tasks |-> "none"]
    /\ held' = [t \in Tasks |-> NoSession]
    /\ after' = [t \in Tasks |-> "none"]
    /\ todo' = {}
    /\ UNCHANGED <<mirror, clock, sid, accepted, ended, results>>

\* What happens to a session's mirroring that no code guards against: two tasks
\* are dealing with it at once, or what befell the sessions in "lost".
Disturb(lost) ==
    disturbed' = disturbed \cup lost \cup {s \in Inputs : Cardinality(Busy(s)') > 1}

\* Whether a call to Redis works; a fault is counted.
Works(ok) == IF ok THEN UNCHANGED faults ELSE Faulted

Enter(i) == Arrive(i) /\ Disturb({})

Work(i) ==
    /\ \/ Processed(i) \/ Rejected(i)
       \/ \E ok \in BOOLEAN : Works(ok) /\ (Lookup(i, ok) \/ Store(i, ok))
    /\ Disturb({})

Visit(r) == Ask(r) /\ Disturb({})

Resume(t) == Install(t) /\ UNCHANGED <<results, faults>> /\ Disturb({})

RedisAnswers(t) ==
    /\ \E ok \in BOOLEAN :
          /\ Works(ok)
          /\ \/ Fetch(t, ok)
             \/ t # Sweeper /\ Set(t, ok)
             \/ t = Sweeper /\ SweepSet(ok)
          /\ Disturb(IF ok THEN {} ELSE {sid[t]})
    /\ UNCHANGED results

Clean ==
    /\ Sweep \/ SweepFetched
    /\ UNCHANGED <<results, faults>>
    /\ Disturb({})

Environment ==
    \/ Tick /\ UNCHANGED <<results, faults>> /\ Disturb({})
    \/ \E s \in Inputs : Forget(s) /\ Faulted /\ UNCHANGED results /\ Disturb({s})
    \/ Restart /\ Disturb({s \in Inputs : Busy(s) # {}})

\* What task t does next.  At most one of the disjuncts is enabled at a time.
Run(t) ==
    \/ RedisAnswers(t)
    \/ t \in Inputs /\ Work(t)
    \/ t # Sweeper /\ Resume(t)
    \/ t = Sweeper /\ Clean

Next ==
    \/ \E i \in Inputs : Enter(i)
    \/ \E r \in Readers : Visit(r)
    \/ \E t \in Tasks : Run(t)
    \/ Environment

Spec == Init /\ [][Next]_vars

\* The cleanup comes round, and Redis answers it or its client gives up.  No
\* client has to come, no input has to end, no time has to pass.
Fairness == WF_vars(Run(Sweeper))

FairSpec == Spec /\ Fairness

-----------------------------------------------------------------------------
Sessions ==
    [status : {"none", "active", "completed"}, inputs : Seq(Inputs), stamp : 0..MaxClock]

Steps == {"idle", "miss", "fetched", "set", "lookup", "process", "store", "success",
          "cached", "failed", "lost"}

(* Types; no session keeps more than InputCap inputs.                      *)
TypeOK ==
    /\ \A s \in Inputs : \A session \in {memory[s], mirror[s]} :
          session \in Sessions /\ Len(session.inputs) <= InputCap
    /\ \A t \in Tasks : step[t] \in Steps /\ held[t] \in Sessions
    /\ sid \in [Tasks -> Inputs \cup {"none"}]
    /\ todo \subseteq Inputs
    /\ results \subseteq Keys

\* Sessions whose mirroring nothing has disturbed and that nobody deals with now.
Calm == {s \in Inputs \ disturbed : sid[s] = s /\ Busy(s) = {}}

\* What the next to ask for session s will find.
Served(s) == IF memory[s].status # "none" THEN memory[s] ELSE mirror[s]

(* "mirrored to the cache backend so they survive a process restart": as   *)
(* long as no two tasks deal with a session at once and Redis does not     *)
(* fail, whoever asks for it is served its most recent inputs, all of      *)
(* them, through any sequence of restarts, timeouts, cleanups and reloads. *)
NothingLost ==
    \A s \in Calm : Served(s).status # "none" /\ Served(s).inputs = Recent(accepted[s])

(* ... and such a session is over exactly if somebody has ended it, or the *)
(* time has: no copy that was made before brings it back.                  *)
EndSticks == \A s \in Calm : Served(s).status = "completed" <=> s \in ended

(* A result that is answered as processed is part of the session that the  *)
(* answer names, unless that session was ended under way.                  *)
AttachedUnlessEnded ==
    \A i \in Inputs : step[i] = "success" =>
        \/ \E k \in DOMAIN accepted[sid[i]] : accepted[sid[i]][k] = i
        \/ sid[i] \in ended \cup disturbed

(* Undisturbed sessions keep their inputs and their end, and an answer     *)
(* names the session that has its result.                                  *)
SessionsKeep == NothingLost /\ EndSticks /\ AttachedUnlessEnded

Lapsed(s) ==
    \/ memory[s].status = "completed"
    \/ memory[s].status = "active" /\ memory[s].stamp < clock

(* A session that is over, by time or by its end, does not stay in the     *)
(* process for ever, though each time it is asked for it is loaded again.  *)
ExpiredLeavesMemory == \A s \in Inputs : Lapsed(s) ~> ~Lapsed(s)
=============================================================================
