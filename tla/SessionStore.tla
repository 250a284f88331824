---------------------------- MODULE SessionStore ----------------------------
(***************************************************************************)
(* SessionManager (managers/session_manager.py): sessions live in a        *)
(* dictionary of the process and are mirrored to Redis by                  *)
(* CacheManager (cache/manager.py), which swallows every error.  A task    *)
(* yields only while it awaits Redis: each SET and GET is a step of its    *)
(* own, and what a task does between two of them is one step.  The         *)
(* manager's lock is never held across an await, so nobody waits for it.   *)
(*                                                                         *)
(* Redis is given a pickled copy and returns one, so a session is a value  *)
(* here and the entry of the dictionary is the only shared object.         *)
(***************************************************************************)
EXTENDS Sequences, FiniteSets, Integers

CONSTANTS
    Inputs,         \* inputs sent by clients; each names the session it creates, if any
    Readers,        \* clients that get and delete sessions, again and again
    Sweeper,        \* the cleanup task
    InputCap,       \* most inputs a session keeps (500 in the code)
    MaxClock        \* bound of the model: periods of inactivity that pass

ASSUME StoreAssumption ==
    /\ Inputs \cap Readers = {}
    /\ Sweeper \notin Inputs \cup Readers
    /\ "none" \notin Inputs
    /\ InputCap \in Nat \ {0}
    /\ MaxClock \in Nat

VARIABLES
    memory,         \* _sessions
    mirror,         \* what Redis holds of each session
    clock,          \* periods of max_inactivity_minutes that have passed
    step,           \* what a task does next, or how it ended
    goal,           \* why it deals with the session store
    sid,            \* the session it deals with
    held,           \* the copy it has got from, or is sending to, Redis
    after,          \* what follows when its SET is done
    todo,           \* sessions the cleanup has still to end
    accepted,       \* history: inputs added to each session, in order
    ended           \* history: sessions that have been ended

tasks == <<step, goal, sid, held, after>>
store == <<memory, mirror, clock, tasks, todo, accepted, ended>>

Tasks == Inputs \cup Readers \cup {Sweeper}

NoSession == [status |-> "none", inputs |-> <<>>, stamp |-> 0]

StoreInit ==
    /\ memory = [s \in Inputs |-> NoSession]
    /\ mirror = [s \in Inputs |-> NoSession]
    /\ clock = 0
    /\ step = [t \in Tasks |-> "idle"]
    /\ goal = [t \in Tasks |-> "none"]
    /\ sid = [t \in Tasks |-> "none"]
    /\ held = [t \in Tasks |-> NoSession]
    /\ after = [t \in Tasks |-> "none"]
    /\ todo = {}
    /\ accepted = [s \in Inputs |-> <<>>]
    /\ ended = {}

-----------------------------------------------------------------------------
(* Session (entities/session.py).                                          *)

Fresh == [status |-> "active", inputs |-> <<>>, stamp |-> clock]

IsExpired(session) == session.status # "active" \/ session.stamp < clock

\* Mutant: one input more than the cap is kept.
Recent_OffByOne(seq) ==
    IF Len(seq) <= InputCap + 1 THEN seq ELSE SubSeq(seq, Len(seq) - InputCap, Len(seq))

Recent(seq) ==
    IF Len(seq) <= InputCap THEN seq ELSE SubSeq(seq, Len(seq) - InputCap + 1, Len(seq))

WithInput(session, i) ==
    [session EXCEPT !.inputs = Recent(Append(@, i)), !.stamp = clock]

Completed(session) == [session EXCEPT !.status = "completed"]

-----------------------------------------------------------------------------
(* The manager's methods, as what a task does until it awaits Redis again. *)
(* "base" is the dictionary as the step has left it so far.                *)

Begin(t, newStep, newGoal, s, copy, next) ==
    /\ step' = [step EXCEPT ![t] = newStep]
    /\ goal' = [goal EXCEPT ![t] = newGoal]
    /\ sid' = [sid EXCEPT ![t] = s]
    /\ held' = [held EXCEPT ![t] = copy]
    /\ after' = [after EXCEPT ![t] = next]

\* Mutant: what is sent to Redis was pickled before the change was made.
Send_Before(t, why, s, old, new, next) == Begin(t, "set", why, s, old, next)

\* _persist and the SET of end_session: the copy is pickled now and sent.
Send(t, why, s, old, new, next) == Begin(t, "set", why, s, new, next)

\* The task goes on without the store, or has ended.
Leave(t, next) ==
    Begin(t, next, "none", IF t \in Inputs THEN sid[t] ELSE "none", NoSession, "none")

\* create_session
Create(t, base) ==
    /\ memory' = [base EXCEPT ![t] = Fresh]
    /\ Send(t, "create", t, NoSession, Fresh, "lookup")
    /\ UNCHANGED <<accepted, ended>>

\* end_session, once it has the session.
Finish(t, s, session, next) ==
    /\ Send(t, "end", s, session, Completed(session), next)
    /\ ended' = ended \cup {s}
    /\ UNCHANGED accepted

\* end_session of a session that the dictionary holds: it is popped at once.
End(t, s, session, base, next) ==
    /\ memory' = [base EXCEPT ![s] = NoSession]
    /\ Finish(t, s, session, next)

\* What get_session's caller does when it is given None.
Missing(t, why, base) ==
    CASE why = "open" -> Create(t, base)
      [] why = "add"  -> Leave(t, "store") /\ memory' = base /\ UNCHANGED <<accepted, ended>>
      [] OTHER        -> Leave(t, "idle") /\ memory' = base /\ UNCHANGED <<accepted, ended>>

\* Mutant: the input is added, and the session is not persisted.
Given_NotPersisted(t, why, s, base) ==
    CASE why = "open"   -> /\ Begin(t, "lookup", "none", s, NoSession, "none")
                           /\ memory' = base
                           /\ UNCHANGED <<accepted, ended>>
      [] why = "add"    -> /\ memory' = [base EXCEPT ![s] = WithInput(@, t)]
                           /\ accepted' = [accepted EXCEPT ![s] = Append(@, t)]
                           /\ Leave(t, "store")
                           /\ UNCHANGED ended
      [] why = "delete" -> End(t, s, base[s], base, "idle")
      [] OTHER          -> /\ Leave(t, "idle")
                           /\ memory' = base
                           /\ UNCHANGED <<accepted, ended>>

\* ... and when it is given a session, which the dictionary holds by now.
Given(t, why, s, base) ==
    CASE why = "open"   -> /\ Begin(t, "lookup", "none", s, NoSession, "none")
                           /\ memory' = base
                           /\ UNCHANGED <<accepted, ended>>
      [] why = "add"    -> /\ memory' = [base EXCEPT ![s] = WithInput(@, t)]
                           /\ accepted' = [accepted EXCEPT ![s] = Append(@, t)]
                           /\ Send(t, "add", s, base[s], WithInput(base[s], t), "store")
                           /\ UNCHANGED ended
      [] why = "delete" -> End(t, s, base[s], base, "idle")
      [] OTHER          -> /\ Leave(t, "idle")
                           /\ memory' = base
                           /\ UNCHANGED <<accepted, ended>>

WhenMissing(why) ==
    CASE why = "open" -> "create" [] why = "add" -> "store" [] OTHER -> "idle"

\* get_session up to its first await: a session in the dictionary is checked.
Get(t, why, s) ==
    LET session == memory[s]
    IN  CASE session.status = "none" ->
               /\ Begin(t, "miss", why, s, NoSession, "none")
               /\ UNCHANGED <<memory, accepted, ended>>
          [] session.status # "none" /\ IsExpired(session) ->
               End(t, s, session, memory, WhenMissing(why))
          [] OTHER -> Given(t, why, s, memory)

-----------------------------------------------------------------------------
(* Redis answers.                                                          *)

\* GET: the copy as it is at that moment, or nothing if the call fails.
Fetch(t, ok) ==
    /\ step[t] = "miss"
    /\ IF ok THEN held' = [held EXCEPT ![t] = mirror[sid[t]]] ELSE UNCHANGED held
    /\ step' = [step EXCEPT ![t] = "fetched"]
    /\ UNCHANGED <<memory, mirror, clock, goal, sid, after, todo, accepted, ended>>

\* The rest of get_session: what Redis held is not checked.
Install(t) ==
    /\ step[t] = "fetched"
    /\ goal[t] # "sweep"
    /\ IF held[t].status = "none"
       THEN Missing(t, goal[t], memory)
       ELSE Given(t, goal[t], sid[t], [memory EXCEPT ![sid[t]] = held[t]])
    /\ UNCHANGED <<mirror, clock, todo>>

\* SET: done, or failed and logged.
Written(t, ok) ==
    /\ step[t] = "set"
    /\ mirror' = IF ok THEN [mirror EXCEPT ![sid[t]] = held[t]] ELSE mirror

Set(t, ok) ==
    /\ Written(t, ok)
    /\ after[t] # "next"
    /\ IF after[t] = "create"
       THEN Create(t, memory)
       ELSE Leave(t, after[t]) /\ UNCHANGED <<memory, accepted, ended>>
    /\ UNCHANGED <<clock, todo>>

-----------------------------------------------------------------------------
(* The cleanup loop.                                                       *)

\* end_session of session s: from the dictionary or, if it has left it since
\* the expired ones were listed, from Redis.
EndNext(s) ==
    IF memory[s].status # "none"
    THEN End(Sweeper, s, memory[s], memory, "next")
    ELSE /\ Begin(Sweeper, "miss", "sweep", s, NoSession, "none")
         /\ UNCHANGED <<memory, accepted, ended>>

Proceed(rest) ==
    \/ /\ rest = {}
       /\ Leave(Sweeper, "idle")
       /\ todo' = {}
       /\ UNCHANGED <<memory, accepted, ended>>
    \/ \E s \in rest : EndNext(s) /\ todo' = rest \ {s}

\* Mutant: the cleanup goes by the time alone.
Stale_ByTimeOnly == {s \in Inputs : memory[s].status # "none" /\ memory[s].stamp < clock}

Stale == {s \in Inputs : memory[s].status # "none" /\ IsExpired(memory[s])}

Sweep ==
    /\ step[Sweeper] = "idle"
    /\ Stale # {}
    /\ Proceed(Stale)
    /\ UNCHANGED <<mirror, clock>>

SweepSet(ok) ==
    /\ Written(Sweeper, ok)
    /\ Proceed(todo)
    /\ UNCHANGED clock

\* The session was not in the dictionary when it was popped; if another task has
\* loaded it since, it stays there.
SweepFetched ==
    /\ step[Sweeper] = "fetched"
    /\ IF held[Sweeper].status = "none"
       THEN Proceed(todo)
       ELSE Finish(Sweeper, sid[Sweeper], held[Sweeper], "next") /\ UNCHANGED <<memory, todo>>
    /\ UNCHANGED <<mirror, clock>>

-----------------------------------------------------------------------------
\* max_inactivity_minutes pass in which nobody uses any session.
Tick ==
    /\ clock < MaxClock
    /\ clock' = clock + 1
    /\ UNCHANGED <<memory, mirror, tasks, todo, accepted, ended>>

\* An entry's time to live is over, or Redis evicts it.
Forget(s) ==
    /\ mirror[s].status # "none"
    /\ mirror' = [mirror EXCEPT ![s] = NoSession]
    /\ UNCHANGED <<memory, clock, tasks, todo, accepted, ended>>
=============================================================================
