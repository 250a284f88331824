----------------------------- MODULE InputProofs -----------------------------
(***************************************************************************)
(* Proofs about the input path: its sessions, for any number of inputs and *)
(* clients, any cap on what a session keeps and any number of faults, and  *)
(* its gates, for any limits.                                              *)
(***************************************************************************)
EXTENDS InputManager, InputGates, FiniteSetTheorems, SequenceTheorems, TLAPS

-----------------------------------------------------------------------------
(* The inductive invariant.                                                *)

Stored == {session \in Sessions : Len(session.inputs) <= InputCap}

StoreTyped ==
    /\ memory \in [Inputs -> Stored] /\ mirror \in [Inputs -> Stored]
    /\ clock \in 0..MaxClock
    /\ accepted \in [Inputs -> Seq(Inputs)]
    /\ results \subseteq Keys

Goals == {"none", "create", "open", "add", "get", "delete", "end", "sweep"}
Sequels == {"none", "lookup", "create", "store", "idle", "next"}

TasksTyped ==
    /\ step \in [Tasks -> Steps] /\ goal \in [Tasks -> Goals]
    /\ sid \in [Tasks -> Inputs \cup {"none"}]
    /\ held \in [Tasks -> Stored] /\ after \in [Tasks -> Sequels]

Reads(t) == step[t] \in {"miss", "fetched"}
Deals(t) == Reads(t) \/ step[t] = "set"

Created(s) == sid[s] = s

\* The result of input i is in its session, or need not be.
Attached(i) ==
    \/ \E k \in DOMAIN accepted[sid[i]] : accepted[sid[i]][k] = i
    \/ sid[i] \in ended \cup disturbed

\* Why a task deals with a session, and what follows.  An input that is going
\* to create its session has not done so.
InputInv(i) ==
    /\ step[i] = "idle" <=> sid[i] = "none"
    /\ Reads(i) => goal[i] \in {"open", "add"}
    /\ Reads(i) /\ goal[i] = "open" => ~Created(i)
    /\ step[i] = "set" => after[i] \in {"lookup", "create", "store"}
    /\ step[i] = "set" /\ after[i] = "create" => ~Created(i)
    /\ step[i] \in {"store", "success"} \/ (step[i] = "set" /\ after[i] = "store") => Attached(i)

ReaderInv(r) ==
    /\ step[r] = "idle" \/ Deals(r)
    /\ Reads(r) => goal[r] \in {"get", "delete"}
    /\ step[r] = "set" => after[r] = "idle"

SweeperInv ==
    /\ step[Sweeper] = "idle" \/ Deals(Sweeper)
    /\ Reads(Sweeper) => goal[Sweeper] = "sweep"
    /\ step[Sweeper] = "set" => after[Sweeper] = "next"

\* Whoever names a session names one that has been created.
TaskInv(t) ==
    /\ t \in Inputs => InputInv(t)
    /\ t \in Readers => ReaderInv(t)
    /\ t = Sweeper => SweeperInv
    /\ Deals(t) => sid[t] \in Inputs
    /\ sid[t] \in Inputs => Created(sid[t])

TasksInv == \A t \in Tasks : TaskInv(t)

TodoInv == \A s \in todo : s \in Inputs /\ Created(s)

Untouched(s) ==
    /\ memory[s] = NoSession /\ mirror[s] = NoSession
    /\ accepted[s] = <<>> /\ s \notin ended

UncreatedInv == \A s \in Inputs : Created(s) \/ Untouched(s)

\* A copy of session s that tells all there is to tell.
Whole(copy, s) ==
    /\ copy.status # "none"
    /\ copy.inputs = Recent(accepted[s])
    /\ copy.status = "completed" <=> s \in ended

\* Session s, of which the dictionary holds inMemory and Redis inRedis, while
\* the tasks in dealers deal with it: these are one at most, and what it is about
\* to write, or else what Redis holds, tells all.
Sound(s, dealers, inMemory, inRedis) ==
    /\ \A t, u \in dealers : t = u
    /\ \A t \in dealers :
          /\ step[t] = "set" =>
                Whole(held[t], s) /\ (inMemory.status = "none" \/ inMemory = held[t])
          /\ Reads(t) => inMemory.status = "none" /\ Whole(inRedis, s)
          /\ step[t] = "fetched" => held[t] = inRedis
    /\ dealers = {} => Whole(inRedis, s) /\ (inMemory.status = "none" \/ inMemory = inRedis)

SessionsInv ==
    \A s \in Inputs : Created(s) /\ s \notin disturbed =>
        Sound(s, Busy(s), memory[s], mirror[s])

IInv ==
    /\ StoreTyped /\ TasksTyped /\ TasksInv /\ TodoInv
    /\ UncreatedInv /\ SessionsInv

-----------------------------------------------------------------------------
(* Sessions as values.                                                     *)

LEMMA RecentKeeps ==
    ASSUME NEW seq \in Seq(Inputs)
    PROVE  Recent(seq) \in Seq(Inputs) /\ Len(Recent(seq)) <= InputCap
<1>1. InputCap \in Nat \ {0} /\ Len(seq) \in Nat
  BY StoreAssumption, LenProperties
<1>2. CASE Len(seq) <= InputCap
  BY <1>2 DEF Recent
<1>3. CASE Len(seq) > InputCap
  <2>1. SubSeq(seq, Len(seq) - InputCap + 1, Len(seq)) \in Seq(Inputs)
    BY <1>1, <1>3, SubSeqProperties
  <2>2. Len(SubSeq(seq, Len(seq) - InputCap + 1, Len(seq))) = InputCap
    BY <1>1, <1>3, SubSeqProperties
  <2> QED
    BY <1>1, <1>3, <2>1, <2>2 DEF Recent
<1> QED
  BY <1>1, <1>2, <1>3

(* The most recent of what is kept and one more are the most recent of all.*)
LEMMA RecentOfRecent ==
    ASSUME NEW seq \in Seq(Inputs), NEW i \in Inputs
    PROVE  Recent(Append(Recent(seq), i)) = Recent(Append(seq, i))
<1>1. InputCap \in Nat \ {0} /\ Len(seq) \in Nat
  BY StoreAssumption, LenProperties
<1>2. CASE Len(seq) <= InputCap
  BY <1>2 DEF Recent
<1>3. CASE Len(seq) > InputCap
  <2> DEFINE kept == SubSeq(seq, Len(seq) - InputCap + 1, Len(seq))
             all == Append(seq, i)
             more == Append(kept, i)
  <2>1. /\ kept \in Seq(Inputs) /\ Len(kept) = InputCap
        /\ \A k \in 1..InputCap : kept[k] = seq[Len(seq) - InputCap + k]
    BY <1>1, <1>3, SubSeqProperties
  <2>2. /\ all \in Seq(Inputs) /\ Len(all) = Len(seq) + 1
        /\ \A k \in 1..Len(seq) : all[k] = seq[k]
        /\ all[Len(seq) + 1] = i
    BY <1>1, AppendProperties
  <2>3. /\ more \in Seq(Inputs) /\ Len(more) = InputCap + 1
        /\ \A k \in 1..InputCap : more[k] = kept[k]
        /\ more[InputCap + 1] = i
    BY <1>1, <2>1, AppendProperties
  <2>4. Recent(seq) = kept
    BY <1>1, <1>3 DEF Recent
  <2> DEFINE left == SubSeq(more, 2, InputCap + 1)
             right == SubSeq(all, Len(seq) + 1 - InputCap + 1, Len(seq) + 1)
  <2>5. Recent(more) = left
    <3>1. Len(more) - InputCap + 1 = 2 /\ ~(Len(more) <= InputCap)
      BY <1>1, <2>3
    <3>2. Recent(more) = SubSeq(more, Len(more) - InputCap + 1, Len(more))
      BY <3>1 DEF Recent
    <3> QED
      BY <2>3, <3>1, <3>2
  <2>6. Recent(all) = right
    <3>1. ~(Len(all) <= InputCap)
      BY <1>1, <1>3, <2>2
    <3>2. Recent(all) = SubSeq(all, Len(all) - InputCap + 1, Len(all))
      BY <3>1 DEF Recent
    <3>3. Len(all) - InputCap + 1 = Len(seq) + 1 - InputCap + 1 /\ Len(all) = Len(seq) + 1
      BY <1>1, <2>2
    <3> QED
      BY <3>2, <3>3
  <2> HIDE DEF kept, all, more
  <2>7. /\ left \in Seq(Inputs) /\ Len(left) = InputCap
        /\ \A k \in 1..InputCap : left[k] = more[k + 1]
    BY <1>1, <2>3, SubSeqProperties
  <2>8. /\ right \in Seq(Inputs) /\ Len(right) = InputCap
        /\ \A k \in 1..InputCap : right[k] = all[Len(seq) + 1 - InputCap + k]
    BY <1>1, <1>3, <2>2, SubSeqProperties
  <2> HIDE DEF left, right
  <2>9. ASSUME NEW k \in 1..InputCap
        PROVE  left[k] = right[k]
    <3>1. CASE k = InputCap
      BY <1>1, <2>2, <2>3, <2>7, <2>8, <3>1
    <3>2. CASE k # InputCap
      <4>1. k + 1 \in 1..InputCap /\ Len(seq) + 1 - InputCap + k \in 1..Len(seq)
        BY <1>1, <1>3, <3>2
      <4>2. left[k] = seq[Len(seq) - InputCap + (k + 1)]
        BY <2>1, <2>3, <2>7, <4>1
      <4>3. right[k] = seq[Len(seq) + 1 - InputCap + k]
        BY <2>2, <2>8, <4>1
      <4> QED
        BY <1>1, <4>2, <4>3
    <3> QED
      BY <3>1, <3>2
  <2>10. left = right
    BY <2>7, <2>8, <2>9, SeqEqual
  <2> QED
    BY <2>4, <2>5, <2>6, <2>10 DEF more, all
<1> QED
  BY <1>1, <1>2, <1>3

LEMMA StoredIs ==
    ASSUME NEW session
    PROVE  session \in Stored <=>
              /\ session = [status |-> session.status, inputs |-> session.inputs,
                            stamp |-> session.stamp]
              /\ session.status \in {"none", "active", "completed"}
              /\ session.inputs \in Seq(Inputs) /\ Len(session.inputs) <= InputCap
              /\ session.stamp \in 0..MaxClock
BY DEF Stored, Sessions

LEMMA NoSessionStored == NoSession \in Stored /\ NoSession.status = "none"
<1>1. <<>> \in Seq(Inputs) /\ Len(<<>>) = 0
  OBVIOUS
<1>2. 0 <= InputCap /\ 0 \in 0..MaxClock
  BY StoreAssumption
<1> QED
  BY <1>1, <1>2 DEF NoSession, Stored, Sessions

LEMMA FreshStored ==
    ASSUME clock \in 0..MaxClock
    PROVE  Fresh \in Stored /\ Fresh.status = "active" /\ Fresh.inputs = <<>>
<1>1. <<>> \in Seq(Inputs) /\ Len(<<>>) = 0
  OBVIOUS
<1>2. 0 <= InputCap
  BY StoreAssumption
<1> QED
  BY <1>1, <1>2 DEF Fresh, Stored, Sessions

LEMMA CompletedStored ==
    ASSUME NEW session \in Stored
    PROVE  /\ Completed(session) \in Stored
           /\ Completed(session).status = "completed"
           /\ Completed(session).inputs = session.inputs
BY StoredIs DEF Completed, Stored, Sessions

LEMMA WithInputStored ==
    ASSUME clock \in 0..MaxClock, NEW session \in Stored, NEW i \in Inputs
    PROVE  /\ WithInput(session, i) \in Stored
           /\ WithInput(session, i).status = session.status
           /\ WithInput(session, i).inputs = Recent(Append(session.inputs, i))
<1>1. Append(session.inputs, i) \in Seq(Inputs)
  BY AppendProperties DEF Stored, Sessions
<1>2. Recent(Append(session.inputs, i)) \in Seq(Inputs)
      /\ Len(Recent(Append(session.inputs, i))) <= InputCap
  BY <1>1, RecentKeeps
<1> QED
  BY <1>2 DEF WithInput, Stored, Sessions

-----------------------------------------------------------------------------
(* What a task's turn with the manager leaves behind.  "base" is the       *)
(* dictionary as the turn found it, or as Redis's answer has made it.      *)

OthersKept(t) ==
    \A u \in Tasks \ {t} :
        /\ step'[u] = step[u] /\ goal'[u] = goal[u] /\ sid'[u] = sid[u]
        /\ held'[u] = held[u] /\ after'[u] = after[u]

\* The task no longer deals with the store ...
Departs(t, base) ==
    /\ ~Deals(t)'
    /\ sid'[t] \in Inputs => Created(sid'[t])
    /\ memory' = base
    /\ UNCHANGED <<accepted, ended>>

\* ... or is going to read, or has read, what Redis holds ...
Looks(t, base) ==
    /\ Reads(t)'
    /\ sid'[t] \in Inputs => Created(sid'[t])
    /\ memory' = base
    /\ UNCHANGED <<accepted, ended>>
    /\ \/ sid'[t] \in disturbed'
       \/ /\ base[sid'[t]].status = "none"
          /\ step'[t] = "fetched" => held'[t] = mirror'[sid'[t]]

\* ... or has changed its session and is going to write it.
Sends(t, base) ==
    /\ step'[t] = "set"
    /\ \A z \in Inputs \ {sid'[t]} :
          memory'[z] = base[z] /\ accepted'[z] = accepted[z] /\ (z \in ended' <=> z \in ended)
    /\ \/ sid'[t] \in disturbed'
       \/ memory'[sid'[t]].status = "none"
       \/ memory'[sid'[t]] = held'[t]
    /\ \/ sid'[t] \in disturbed'
       \/ Created(sid'[t]) /\ ~Sound(sid'[t], {}, base[sid'[t]], mirror'[sid'[t]])
       \/ Whole(held[t], sid[t])'

Grows ==
    /\ \A z \in Inputs :
          accepted'[z] = accepted[z] \/ \E i \in Inputs : accepted'[z] = Append(accepted[z], i)
    /\ ended \subseteq ended' /\ disturbed \subseteq disturbed'

Turn(t, base) ==
    /\ memory' \in [Inputs -> Stored] /\ accepted' \in [Inputs -> Seq(Inputs)]
    /\ TasksTyped' /\ OthersKept(t) /\ TaskInv(t)'
    /\ t \in Inputs /\ Created(t) => sid'[t] = t
    /\ Grows
    /\ Departs(t, base) \/ Looks(t, base) \/ Sends(t, base)

Before(t, base) ==
    /\ StoreTyped /\ TasksTyped /\ TaskInv(t) /\ UncreatedInv
    /\ t \in Tasks /\ base \in [Inputs -> Stored]
    /\ disturbed \subseteq disturbed'

LEMMA Apart ==
    /\ Inputs \cap Readers = {} /\ Sweeper \notin Inputs /\ Sweeper \notin Readers
    /\ Tasks = Inputs \cup Readers \cup {Sweeper}
    /\ "none" \notin Inputs
BY StoreAssumption DEF Tasks

LEMMA BeginIs ==
    ASSUME TasksTyped, NEW t \in Tasks, NEW newStep \in Steps, NEW newGoal \in Goals,
           NEW s \in Inputs \cup {"none"}, NEW copy \in Stored, NEW next \in Sequels,
           Begin(t, newStep, newGoal, s, copy, next)
    PROVE  /\ TasksTyped' /\ OthersKept(t)
           /\ step'[t] = newStep /\ goal'[t] = newGoal /\ sid'[t] = s
           /\ held'[t] = copy /\ after'[t] = next
BY DEF TasksTyped, Begin, OthersKept

(* A session stays created while the task that created it keeps its name.  *)
LEMMA CreatedStays ==
    ASSUME NEW t \in Tasks, OthersKept(t), t \in Inputs /\ Created(t) => sid'[t] = t,
           NEW s \in Inputs, Created(s)
    PROVE  Created(s)'
BY Apart DEF Created, OthersKept

LEMMA LeaveTurn ==
    ASSUME NEW t, NEW base, NEW next \in Steps, Before(t, base),
           Leave(t, next), memory' = base, UNCHANGED <<accepted, ended>>,
           t \notin Inputs => next = "idle",
           t \in Inputs => sid[t] \in Inputs /\ next \notin {"idle", "miss", "fetched", "set"},
           t \in Inputs /\ next \in {"store", "success"} => Attached(t)
    PROVE  Turn(t, base)
<1> USE DEF Before
<1>1. /\ TasksTyped' /\ OthersKept(t)
      /\ step'[t] = next
      /\ sid'[t] = IF t \in Inputs THEN sid[t] ELSE "none"
  <2>1. "none" \in Goals /\ "none" \in Sequels /\ NoSession \in Stored
    BY NoSessionStored DEF Goals, Sequels
  <2>2. (IF t \in Inputs THEN sid[t] ELSE "none") \in Inputs \cup {"none"}
    BY DEF TasksTyped
  <2> QED
    BY <2>1, <2>2, BeginIs DEF Leave
<1>2. memory' \in [Inputs -> Stored] /\ accepted' \in [Inputs -> Seq(Inputs)]
  BY DEF StoreTyped
<1>3. Grows
  BY DEF Grows
<1>4. t \in Inputs /\ Created(t) => sid'[t] = t
  BY <1>1 DEF Created
<1>5. ~Deals(t)'
  BY <1>1 DEF Deals, Reads
<1>6. Departs(t, base)
  BY <1>1, <1>5, Apart DEF Departs, TaskInv
<1>7. TaskInv(t)'
  <2>1. CASE t \in Inputs
    <3>1. Created(sid[t])
      BY <2>1 DEF TaskInv
    <3>2. Created(sid[t])' /\ sid'[t] = sid[t]
      BY <1>1, <1>4, <2>1, <3>1, CreatedStays DEF Created
    <3>3. Attached(t) => Attached(t)'
      BY <3>2 DEF Attached
    <3>4. InputInv(t)'
      BY <1>1, <1>5, <2>1, <3>2, <3>3, Apart DEF InputInv, Deals, Reads
    <3> QED
      BY <1>5, <2>1, <3>2, <3>4, Apart DEF TaskInv, Created
  <2>2. CASE t \notin Inputs
    <3>1. step'[t] = "idle" /\ sid'[t] = "none"
      BY <1>1, <2>2
    <3>2. ReaderInv(t)'
      BY <3>1 DEF ReaderInv, Deals, Reads
    <3>3. t = Sweeper => SweeperInv'
      BY <3>1 DEF SweeperInv, Deals, Reads
    <3> QED
      BY <1>5, <2>2, <3>1, <3>2, <3>3, Apart DEF TaskInv
  <2> QED
    BY <2>1, <2>2
<1> QED
  BY <1>1, <1>2, <1>3, <1>4, <1>6, <1>7 DEF Turn

LEMMA FinishTurn ==
    ASSUME NEW t, NEW base, NEW s \in Inputs, NEW session \in Stored, NEW next \in Sequels,
           Before(t, base), Created(s), session.status # "none",
           Finish(t, s, session, next),
           memory' \in [Inputs -> Stored],
           \A z \in Inputs \ {s} : memory'[z] = base[z],
           s \in disturbed' \/ memory'[s].status = "none",
           t \in Inputs =>
              \/ next = "create" /\ ~Created(t)
              \/ next = "store" /\ sid[t] = s,
           t \in Readers => next = "idle",
           t = Sweeper => next = "next",
           \/ s \in disturbed
           \/ Sound(s, {}, base[s], mirror'[s]) => session.inputs = Recent(accepted[s])
    PROVE  Turn(t, base)
<1> USE DEF Before
<1>1. /\ TasksTyped' /\ OthersKept(t)
      /\ step'[t] = "set" /\ sid'[t] = s /\ held'[t] = Completed(session) /\ after'[t] = next
  <2>1. "set" \in Steps /\ "end" \in Goals /\ s \in Inputs \cup {"none"}
    BY DEF Steps, Goals
  <2>2. Completed(session) \in Stored
    BY CompletedStored
  <2> QED
    BY <2>1, <2>2, BeginIs DEF Finish, Send
<1>2. ended' = ended \cup {s} /\ accepted' = accepted
  BY DEF Finish
<1>3. memory' \in [Inputs -> Stored] /\ accepted' \in [Inputs -> Seq(Inputs)]
  BY <1>2 DEF StoreTyped
<1>4. Grows
  BY <1>2 DEF Grows
<1>5. t \in Inputs /\ Created(t) => sid'[t] = t
  BY <1>1 DEF Created
<1>6. Created(s)'
  BY <1>1, <1>5, CreatedStays
<1>7. TaskInv(t)'
  <2>1. Deals(t)' /\ ~Reads(t)'
    BY <1>1 DEF Deals, Reads
  <2>2. CASE t \in Inputs
    <3>1. Attached(t)'
      BY <1>1, <1>2 DEF Attached
    <3>2. next = "create" => ~Created(t)'
      BY <1>1, <2>2, Apart DEF Created
    <3>3. InputInv(t)'
      BY <1>1, <2>1, <2>2, <3>1, <3>2, Apart DEF InputInv
    <3> QED
      BY <1>1, <1>6, <2>2, <3>3, Apart DEF TaskInv
  <2>3. CASE t \notin Inputs
    BY <1>1, <1>6, <2>1, <2>3, Apart DEF TaskInv, ReaderInv, SweeperInv
  <2> QED
    BY <2>2, <2>3
<1>8. Sends(t, base)
  <2>1. \A z \in Inputs \ {s} : memory'[z] = base[z] /\ accepted'[z] = accepted[z]
    BY <1>2
  <2>2. \A z \in Inputs \ {s} : z \in ended' <=> z \in ended
    BY <1>2
  <2>3. \/ s \in disturbed'
        \/ ~Sound(s, {}, base[s], mirror'[s])
        \/ Whole(held[t], sid[t])'
    <3>1. held'[t].status = "completed" /\ held'[t].inputs = session.inputs /\ s \in ended'
      BY <1>1, <1>2, CompletedStored
    <3>2. (Whole(held[t], sid[t]))' <=>
             /\ held'[t].status # "none"
             /\ held'[t].inputs = Recent(accepted[s])
             /\ held'[t].status = "completed" <=> s \in ended'
      BY <1>1, <1>2 DEF Whole, Recent
    <3> QED
      BY <3>1, <3>2
  <2> QED
    BY <1>1, <2>1, <2>2, <2>3 DEF Sends
<1> QED
  BY <1>1, <1>3, <1>4, <1>5, <1>7, <1>8 DEF Turn

LEMMA EndTurn ==
    ASSUME NEW t, NEW base, NEW s \in Inputs, NEW session \in Stored, NEW next \in Sequels,
           Before(t, base), Created(s), session.status # "none",
           End(t, s, session, base, next),
           t \in Inputs =>
              \/ next = "create" /\ ~Created(t)
              \/ next = "store" /\ sid[t] = s,
           t \in Readers => next = "idle",
           t = Sweeper => next = "next",
           \/ s \in disturbed
           \/ Sound(s, {}, base[s], mirror'[s]) => session.inputs = Recent(accepted[s])
    PROVE  Turn(t, base)
<1>1. Finish(t, s, session, next) /\ memory' = [base EXCEPT ![s] = NoSession]
  BY DEF End
<1>2. base \in [Inputs -> Stored]
  BY DEF Before
<1>3. /\ memory' \in [Inputs -> Stored]
      /\ \A z \in Inputs \ {s} : memory'[z] = base[z]
      /\ memory'[s].status = "none"
  BY <1>1, <1>2, NoSessionStored
<1> QED
  BY <1>1, <1>3, FinishTurn

LEMMA CreateTurn ==
    ASSUME NEW t \in Inputs, NEW base, Before(t, base), ~Created(t), Create(t, base)
    PROVE  Turn(t, base)
<1> USE DEF Before
<1>1. clock \in 0..MaxClock
  BY DEF StoreTyped
<1>2. /\ TasksTyped' /\ OthersKept(t)
      /\ step'[t] = "set" /\ sid'[t] = t /\ held'[t] = Fresh /\ after'[t] = "lookup"
  <2>1. "set" \in Steps /\ "create" \in Goals /\ t \in Inputs \cup {"none"} /\ "lookup" \in Sequels
    BY DEF Steps, Goals, Sequels
  <2>2. Fresh \in Stored
    BY <1>1, FreshStored
  <2> QED
    BY <2>1, <2>2, BeginIs DEF Create, Send
<1>3. memory' = [base EXCEPT ![t] = Fresh] /\ ended' = ended /\ accepted' = accepted
  BY DEF Create
<1>4. memory' \in [Inputs -> Stored] /\ accepted' \in [Inputs -> Seq(Inputs)]
  BY <1>1, <1>3, FreshStored DEF StoreTyped
<1>5. Grows
  BY <1>3 DEF Grows
<1>6. TaskInv(t)'
  <2>1. Deals(t)' /\ ~Reads(t)' /\ Created(t)'
    BY <1>2 DEF Deals, Reads, Created
  <2>2. InputInv(t)'
    BY <1>2, <2>1, Apart DEF InputInv
  <2> QED
    BY <1>2, <2>1, <2>2, Apart DEF TaskInv
<1>7. Sends(t, base)
  <2>1. Untouched(t)
    BY DEF UncreatedInv
  <2>2. Recent(<<>>) = <<>>
    BY StoreAssumption DEF Recent
  <2>3. (Whole(held[t], sid[t]))'
    BY <1>1, <1>2, <1>3, <2>1, <2>2, FreshStored DEF Whole, Recent, Untouched
  <2> QED
    BY <1>2, <1>3, <2>3 DEF Sends
<1> QED
  BY <1>2, <1>4, <1>5, <1>6, <1>7 DEF Turn

(* Why task t may ask for session s.                                       *)
Asks(t, why, s) ==
    /\ s \in Inputs /\ Created(s)
    /\ \/ t \in Inputs /\ why = "open" /\ ~Created(t)
       \/ t \in Inputs /\ why = "add" /\ sid[t] = s
       \/ t \in Readers /\ why \in {"get", "delete"}
       \/ t = Sweeper /\ why = "sweep"

LEMMA LookTurn ==
    ASSUME NEW t, NEW base, NEW why, NEW s, Before(t, base), Asks(t, why, s),
           Begin(t, "miss", why, s, NoSession, "none"),
           memory' = base, UNCHANGED <<accepted, ended>>,
           base[s].status = "none"
    PROVE  Turn(t, base)
<1> USE DEF Before
<1>1. /\ TasksTyped' /\ OthersKept(t)
      /\ step'[t] = "miss" /\ goal'[t] = why /\ sid'[t] = s
  <2>1. "miss" \in Steps /\ why \in Goals /\ s \in Inputs \cup {"none"} /\ "none" \in Sequels
    BY DEF Steps, Goals, Sequels, Asks
  <2> QED
    BY <2>1, BeginIs, NoSessionStored
<1>2. memory' \in [Inputs -> Stored] /\ accepted' \in [Inputs -> Seq(Inputs)]
  BY DEF StoreTyped
<1>3. Grows
  BY DEF Grows
<1>4. t \in Inputs /\ Created(t) => sid'[t] = t
  BY <1>1, Apart DEF Created, Asks
<1>5. Created(s)'
  BY <1>1, <1>4, CreatedStays DEF Asks
<1>6. TaskInv(t)'
  <2>1. Deals(t)' /\ Reads(t)' /\ s \in Inputs
    BY <1>1 DEF Deals, Reads, Asks
  <2>2. CASE t \in Inputs
    <3>1. why \in {"open", "add"} /\ (why = "open" => s # t)
      BY <2>2, Apart DEF Asks, Created
    <3>2. InputInv(t)'
      BY <1>1, <2>1, <2>2, <3>1, Apart DEF InputInv, Created
    <3> QED
      BY <1>1, <1>5, <2>1, <2>2, <3>2, Apart DEF TaskInv
  <2>3. CASE t \notin Inputs
    BY <1>1, <1>5, <2>1, <2>3, Apart DEF TaskInv, ReaderInv, SweeperInv, Asks
  <2> QED
    BY <2>2, <2>3
<1>7. Looks(t, base)
  <2>1. Reads(t)' /\ step'[t] # "fetched"
    BY <1>1 DEF Reads
  <2> QED
    BY <1>1, <2>1 DEF Looks, Asks
<1> QED
  BY <1>1, <1>2, <1>3, <1>4, <1>6, <1>7 DEF Turn

LEMMA GivenTurn ==
    ASSUME NEW t, NEW why, NEW s, NEW base, Before(t, base), Asks(t, why, s), t # Sweeper,
           base[s].status # "none", Given(t, why, s, base)
    PROVE  Turn(t, base)
<1> USE DEF Before
<1>1. s \in Inputs /\ Created(s)
  BY DEF Asks
<1>2. CASE why = "open"
  <2>1. /\ Begin(t, "lookup", "none", s, NoSession, "none")
        /\ memory' = base
        /\ UNCHANGED <<accepted, ended>>
    BY <1>2 DEF Given
  <2>2. t \in Inputs /\ ~Created(t)
    BY <1>2, Apart DEF Asks
  <2>3. /\ TasksTyped' /\ OthersKept(t)
        /\ step'[t] = "lookup" /\ sid'[t] = s
    <3>1. "lookup" \in Steps /\ "none" \in Goals /\ "none" \in Sequels /\ s \in Inputs \cup {"none"}
      BY <1>1 DEF Steps, Goals, Sequels
    <3> QED
      BY <2>1, <3>1, BeginIs, NoSessionStored
  <2>4. memory' \in [Inputs -> Stored] /\ accepted' \in [Inputs -> Seq(Inputs)]
    BY <2>1 DEF StoreTyped
  <2>5. Grows
    BY <2>1 DEF Grows
  <2>6. Created(s)'
    BY <1>1, <2>2, <2>3, CreatedStays
  <2>7. ~Deals(t)' /\ ~Reads(t)'
    BY <2>3 DEF Deals, Reads
  <2>8. TaskInv(t)'
    <3>1. InputInv(t)'
      BY <1>1, <2>3, <2>7, Apart DEF InputInv
    <3> QED
      BY <2>2, <2>3, <2>6, <2>7, <3>1, Apart DEF TaskInv
  <2>9. Departs(t, base)
    BY <1>1, <2>1, <2>3, <2>7 DEF Departs
  <2> QED
    BY <2>2, <2>3, <2>4, <2>5, <2>8, <2>9 DEF Turn
<1>3. CASE why = "add"
  <2> DEFINE new == WithInput(base[s], t)
  <2>1. /\ memory' = [base EXCEPT ![s] = new]
        /\ accepted' = [accepted EXCEPT ![s] = Append(@, t)]
        /\ Begin(t, "set", "add", s, new, "store")
        /\ ended' = ended
    BY <1>3 DEF Given, Send
  <2>2. t \in Inputs /\ sid[t] = s
    BY <1>3, Apart DEF Asks
  <2>3. /\ new \in Stored /\ new.status = base[s].status
        /\ new.inputs = Recent(Append(base[s].inputs, t))
    BY <1>1, <2>2, WithInputStored DEF StoreTyped
  <2>4. accepted[s] \in Seq(Inputs)
    BY <1>1 DEF StoreTyped
  <2>5. Append(accepted[s], t) \in Seq(Inputs)
    BY <2>2, <2>4, AppendProperties
  <2> HIDE DEF new
  <2>6. /\ TasksTyped' /\ OthersKept(t)
        /\ step'[t] = "set" /\ sid'[t] = s /\ held'[t] = new /\ after'[t] = "store"
    <3>1. "set" \in Steps /\ "add" \in Goals /\ "store" \in Sequels /\ s \in Inputs \cup {"none"}
      BY <1>1 DEF Steps, Goals, Sequels
    <3> QED
      BY <2>1, <2>3, <3>1, BeginIs
  <2>7. memory' \in [Inputs -> Stored] /\ accepted' \in [Inputs -> Seq(Inputs)]
    BY <1>1, <2>1, <2>3, <2>5 DEF StoreTyped
  <2>8. accepted'[s] = Append(accepted[s], t)
    BY <1>1, <2>1 DEF StoreTyped
  <2>9. \A z \in Inputs \ {s} : memory'[z] = base[z] /\ accepted'[z] = accepted[z]
    BY <2>1
  <2>10. Grows
    BY <2>1, <2>2, <2>8, <2>9 DEF Grows
  <2>11. t \in Inputs /\ Created(t) => sid'[t] = t
    BY <2>2, <2>6 DEF Created
  <2>12. Created(s)'
    BY <1>1, <2>6, <2>11, CreatedStays
  <2>13. TaskInv(t)'
    <3>1. Deals(t)' /\ ~Reads(t)'
      BY <2>6 DEF Deals, Reads
    <3>2. Attached(t)'
      <4>1. Len(accepted[s]) + 1 \in DOMAIN accepted'[s]
            /\ accepted'[s][Len(accepted[s]) + 1] = t
        BY <2>2, <2>4, <2>5, <2>8, AppendProperties, LenProperties
      <4> QED
        BY <2>6, <4>1 DEF Attached
    <3>3. InputInv(t)'
      BY <1>1, <2>6, <3>1, <3>2, Apart DEF InputInv
    <3> QED
      BY <1>1, <2>2, <2>6, <2>12, <3>1, <3>3, Apart DEF TaskInv
  <2>14. Sends(t, base)
    <3>1. memory'[s] = new
      BY <1>1, <2>1
    <3>2. Sound(s, {}, base[s], mirror'[s]) => (Whole(held[t], sid[t]))'
      <4>1. SUFFICES ASSUME Sound(s, {}, base[s], mirror'[s])
                     PROVE  (Whole(held[t], sid[t]))'
        OBVIOUS
      <4>2. /\ base[s].inputs = Recent(accepted[s])
            /\ base[s].status = "completed" <=> s \in ended
        BY <4>1 DEF Sound, Whole
      <4>3. new.inputs = Recent(Append(accepted[s], t))
        BY <2>2, <2>3, <2>4, <4>2, RecentOfRecent
      <4> QED
        BY <2>1, <2>3, <2>6, <2>8, <4>2, <4>3 DEF Whole, Recent
    <3> QED
      BY <1>1, <2>1, <2>6, <2>9, <3>1, <3>2 DEF Sends
  <2> QED
    BY <2>6, <2>7, <2>10, <2>11, <2>13, <2>14 DEF Turn
<1>4. CASE why = "delete"
  <2>1. End(t, s, base[s], base, "idle") /\ t \in Readers
    BY <1>4, Apart DEF Given, Asks
  <2>2. Sound(s, {}, base[s], mirror'[s]) => base[s].inputs = Recent(accepted[s])
    BY DEF Sound, Whole
  <2>3. "idle" \in Sequels /\ base[s] \in Stored
    BY <1>1 DEF Sequels
  <2> QED
    BY <1>1, <2>1, <2>2, <2>3, Apart, EndTurn
<1>5. CASE why = "get"
  <2>1. /\ Leave(t, "idle")
        /\ memory' = base
        /\ UNCHANGED <<accepted, ended>>
    BY <1>5 DEF Given
  <2>2. t \notin Inputs /\ "idle" \in Steps
    BY <1>5, Apart DEF Asks, Steps
  <2> QED
    BY <2>1, <2>2, LeaveTurn
<1> QED
  BY <1>2, <1>3, <1>4, <1>5 DEF Asks

(* An input whose session has gone was not attached to one that is undis-  *)
(* turbed: there it would have found it.                                   *)
LEMMA MissingTurn ==
    ASSUME NEW t, NEW why, NEW s, NEW base, Before(t, base), Asks(t, why, s), t # Sweeper,
           s \in disturbed, Missing(t, why, base)
    PROVE  Turn(t, base)
<1> USE DEF Before
<1>1. CASE why = "open"
  <2>1. Create(t, base) /\ t \in Inputs /\ ~Created(t)
    BY <1>1, Apart DEF Missing, Asks
  <2> QED
    BY <2>1, CreateTurn
<1>2. CASE why = "add"
  <2>1. /\ Leave(t, "store")
        /\ memory' = base
        /\ UNCHANGED <<accepted, ended>>
    BY <1>2 DEF Missing
  <2>2. t \in Inputs /\ sid[t] = s /\ s \in Inputs
    BY <1>2, Apart DEF Asks
  <2>3. Attached(t)
    BY <2>2 DEF Attached
  <2>4. "store" \in Steps
    BY DEF Steps
  <2> QED
    BY <2>1, <2>2, <2>3, <2>4, LeaveTurn
<1>3. CASE why \in {"get", "delete"}
  <2>1. /\ Leave(t, "idle")
        /\ memory' = base
        /\ UNCHANGED <<accepted, ended>>
    BY <1>3 DEF Missing
  <2>2. t \notin Inputs /\ "idle" \in Steps
    BY <1>3, Apart DEF Asks, Steps
  <2> QED
    BY <2>1, <2>2, LeaveTurn
<1> QED
  BY <1>1, <1>2, <1>3, Apart DEF Asks

LEMMA GetTurn ==
    ASSUME NEW t, NEW why, NEW s, Before(t, memory), Asks(t, why, s), t # Sweeper,
           Get(t, why, s)
    PROVE  Turn(t, memory)
<1> USE DEF Before
<1>1. s \in Inputs /\ Created(s)
  BY DEF Asks
<1>2. CASE memory[s].status = "none"
  <2>1. Begin(t, "miss", why, s, NoSession, "none")
    BY <1>2 DEF Get
  <2>2. memory' = memory /\ UNCHANGED <<accepted, ended>>
    BY <1>2 DEF Get
  <2> QED
    BY <1>2, <2>1, <2>2, LookTurn
<1>3. CASE memory[s].status # "none" /\ IsExpired(memory[s])
  <2>1. End(t, s, memory[s], memory, WhenMissing(why))
    BY <1>3 DEF Get
  <2>2. /\ t \in Inputs =>
              \/ WhenMissing(why) = "create" /\ ~Created(t)
              \/ WhenMissing(why) = "store" /\ sid[t] = s
        /\ t \in Readers => WhenMissing(why) = "idle"
        /\ WhenMissing(why) \in Sequels
    BY Apart DEF Asks, WhenMissing, Sequels
  <2>3. Sound(s, {}, memory[s], mirror'[s]) => memory[s].inputs = Recent(accepted[s])
    BY <1>3 DEF Sound, Whole
  <2>4. memory[s] \in Stored
    BY <1>1
  <2> QED
    BY <1>1, <1>3, <2>1, <2>2, <2>3, <2>4, EndTurn
<1>4. CASE memory[s].status # "none" /\ ~IsExpired(memory[s])
  <2>1. Given(t, why, s, memory)
    BY <1>4 DEF Get
  <2> QED
    BY <1>4, <2>1, GivenTurn
<1> QED
  BY <1>2, <1>3, <1>4

LEMMA ProceedTurn ==
    ASSUME NEW rest, rest \subseteq {s \in Inputs : Created(s)},
           Before(Sweeper, memory), Proceed(rest)
    PROVE  Turn(Sweeper, memory) /\ todo' \subseteq rest
<1> USE DEF Before
<1>1. CASE rest = {} /\ Leave(Sweeper, "idle") /\ todo' = {} /\ UNCHANGED <<memory, accepted, ended>>
  <2>1. "idle" \in Steps /\ Sweeper \notin Inputs /\ memory' = memory
    BY <1>1, Apart DEF Steps
  <2>2. UNCHANGED <<accepted, ended>>
    BY <1>1
  <2> QED
    BY <1>1, <2>1, <2>2, LeaveTurn
<1>2. ASSUME NEW s \in rest, EndNext(s), todo' = rest \ {s}
      PROVE  Turn(Sweeper, memory) /\ todo' \subseteq rest
  <2>1. s \in Inputs /\ Created(s) /\ memory[s] \in Stored
    OBVIOUS
  <2>2. CASE memory[s].status # "none"
    <3>1. End(Sweeper, s, memory[s], memory, "next")
      BY <1>2, <2>2 DEF EndNext
    <3>2. Sound(s, {}, memory[s], mirror'[s]) => memory[s].inputs = Recent(accepted[s])
      BY <2>2 DEF Sound, Whole
    <3>3. "next" \in Sequels
      BY DEF Sequels
    <3> QED
      BY <1>2, <2>1, <2>2, <3>1, <3>2, <3>3, Apart, EndTurn
  <2>3. CASE memory[s].status = "none"
    <3>1. /\ Begin(Sweeper, "miss", "sweep", s, NoSession, "none")
          /\ memory' = memory
          /\ UNCHANGED <<accepted, ended>>
      BY <1>2, <2>3 DEF EndNext
    <3>2. Asks(Sweeper, "sweep", s)
      BY <2>1 DEF Asks
    <3> QED
      BY <1>2, <2>3, <3>1, <3>2, LookTurn
  <2> QED
    BY <2>2, <2>3
<1> QED
  BY <1>1, <1>2 DEF Proceed

-----------------------------------------------------------------------------
(* What a turn keeps.                                                      *)

LEMMA AtMostOne ==
    ASSUME NEW S, NEW t, \A u, v \in S \ {t} : u = v, ~(Cardinality(S) > 1)
    PROVE  \A u, v \in S : u = v
<1> SUFFICES ASSUME NEW u \in S, NEW v \in S, u # v
             PROVE  FALSE
  OBVIOUS
<1>1. IsFiniteSet(S)
  <2>1. S \subseteq {u, v, t}
    <3> SUFFICES ASSUME NEW w \in S, w # u, w # v, w # t
                 PROVE  FALSE
      OBVIOUS
    <3> QED
      OBVIOUS
  <2>2. IsFiniteSet({u, v, t})
    <3>1. IsFiniteSet({t})
      BY FS_Singleton
    <3>2. IsFiniteSet({t} \cup {v})
      BY <3>1, FS_AddElement
    <3>3. IsFiniteSet(({t} \cup {v}) \cup {u})
      BY <3>2, FS_AddElement
    <3>4. ({t} \cup {v}) \cup {u} = {u, v, t}
      OBVIOUS
    <3> QED
      BY <3>3, <3>4
  <2> QED
    BY <2>1, <2>2, FS_Subset
<1>2. Cardinality({u}) = 1 /\ IsFiniteSet({u})
  BY FS_Singleton
<1>3. Cardinality({u} \cup {v}) = 2
  BY <1>2, FS_AddElement
<1>4. Cardinality({u} \cup {v}) <= Cardinality(S)
  BY <1>1, FS_Subset
<1>5. Cardinality(S) \in Nat
  BY <1>1, FS_CardinalityType
<1> QED
  BY <1>3, <1>4, <1>5

LEMMA GrowsKeepsAttached ==
    ASSUME StoreTyped, Grows, NEW i, sid[i] \in Inputs, sid'[i] = sid[i], Attached(i)
    PROVE  Attached(i)'
<1> DEFINE s == sid[i]
<1>1. CASE s \in ended \cup disturbed
  BY <1>1 DEF Attached, Grows
<1>2. CASE \E k \in DOMAIN accepted[s] : accepted[s][k] = i
  <2>1. PICK k \in DOMAIN accepted[s] : accepted[s][k] = i
    BY <1>2
  <2>2. accepted[s] \in Seq(Inputs)
    BY DEF StoreTyped
  <2>3. CASE accepted'[s] = accepted[s]
    BY <2>1, <2>3 DEF Attached
  <2>4. ASSUME NEW j \in Inputs, accepted'[s] = Append(accepted[s], j)
        PROVE  Attached(i)'
    <3>1. k \in DOMAIN accepted'[s] /\ accepted'[s][k] = i
      BY <2>1, <2>2, <2>4, AppendProperties, LenProperties
    <3> QED
      BY <3>1 DEF Attached
  <2> QED
    BY <2>3, <2>4 DEF Grows
<1> QED
  BY <1>1, <1>2 DEF Attached

LEMMA OthersInv ==
    ASSUME StoreTyped, TasksTyped, Grows, NEW t \in Tasks, OthersKept(t), NEW u \in Tasks \ {t},
           TaskInv(u), \A s \in Inputs : Created(s) => Created(s)'
    PROVE  TaskInv(u)'
<1>1. /\ step'[u] = step[u] /\ goal'[u] = goal[u] /\ sid'[u] = sid[u]
      /\ held'[u] = held[u] /\ after'[u] = after[u]
  BY DEF OthersKept
<1>2. (Deals(u)' <=> Deals(u)) /\ (Reads(u)' <=> Reads(u)) /\ (Created(u)' <=> Created(u))
  BY <1>1 DEF Deals, Reads, Created
<1>3. sid[u] \in Inputs => (Created(sid[u]) => Created(sid[u])')
  BY <1>1 DEF Created
<1>4. u \in Inputs => InputInv(u)'
  <2> SUFFICES ASSUME u \in Inputs
               PROVE  InputInv(u)'
    OBVIOUS
  <2>1. InputInv(u)
    BY DEF TaskInv
  <2>2. sid[u] \in Inputs /\ Attached(u) => Attached(u)'
    BY <1>1, GrowsKeepsAttached
  <2>3. CASE sid[u] \in Inputs
    BY <1>1, <1>2, <2>1, <2>2, <2>3 DEF InputInv
  <2>4. CASE sid[u] \notin Inputs
    <3>1. step[u] = "idle"
      BY <2>1, <2>4 DEF InputInv, TasksTyped
    <3> QED
      BY <1>1, <1>2, <2>1, <3>1 DEF InputInv
  <2> QED
    BY <2>3, <2>4
<1>5. u \in Readers => ReaderInv(u)'
  BY <1>1, <1>2 DEF TaskInv, ReaderInv
<1>6. u = Sweeper => SweeperInv'
  BY <1>1, <1>2 DEF TaskInv, SweeperInv
<1>7. Deals(u)' => sid'[u] \in Inputs
  BY <1>1, <1>2 DEF TaskInv
<1>8. sid'[u] \in Inputs => Created(sid[u])'
  BY <1>1, <1>3 DEF TaskInv
<1> QED
  BY <1>4, <1>5, <1>6, <1>7, <1>8 DEF TaskInv

(* The sessions, when task t has had its turn.                             *)
LEMMA TurnKeepsSessions ==
    ASSUME StoreTyped, TasksTyped, NEW t \in Tasks, NEW base, NEW lost, NEW s \in Inputs,
           Turn(t, base), Disturb(lost), \A u \in Tasks : TaskInv(u),
           Created(s)', s \notin disturbed',
           Created(s) => Sound(s, Busy(s) \ {t}, base[s], mirror'[s])
    PROVE  Sound(s, Busy(s), memory[s], mirror[s])'
<1> DEFINE others == Busy(s) \ {t}
<1>1. \A u \in Tasks \ {t} :
         /\ step'[u] = step[u] /\ sid'[u] = sid[u] /\ held'[u] = held[u]
         /\ u \in Busy(s)' <=> u \in Busy(s)
  BY DEF Turn, OthersKept, Busy
<1>2. Busy(s) \subseteq Tasks /\ Busy(s)' \subseteq Tasks
  BY DEF Busy, Tasks
<1>3. Busy(s)' \ {t} = others
  BY <1>1, <1>2
<1>4. ~Created(s) => others = {}
  BY <1>2 DEF TaskInv, Busy
<1>5. ~Created(s) => s = t
  BY <1>1, Apart DEF Created
<1>6. CASE t \notin Busy(s)'
  <2>1. Busy(s)' = others
    BY <1>3, <1>6
  <2>2. ~(sid'[t] = s /\ Deals(t)')
    BY <1>6 DEF Busy, Deals, Reads
  <2>3. Created(s)
    <3>1. SUFFICES ASSUME ~Created(s)
                   PROVE  FALSE
      OBVIOUS
    <3>2. s = t /\ sid'[t] = s
      BY <1>5, <3>1 DEF Created
    <3>3. Departs(t, base)
      BY <2>2, <3>2 DEF Turn, Looks, Sends, Deals, Reads
    <3> QED
      BY <3>1, <3>2, <3>3 DEF Departs
  <2>4. memory'[s] = base[s] /\ accepted'[s] = accepted[s] /\ (s \in ended' <=> s \in ended)
    <3>1. CASE Departs(t, base) \/ Looks(t, base)
      BY <3>1 DEF Departs, Looks
    <3>2. CASE Sends(t, base)
      <4>1. sid'[t] # s
        BY <2>2, <3>2 DEF Sends, Deals
      <4> QED
        BY <3>2, <4>1 DEF Sends
    <3> QED
      BY <3>1, <3>2 DEF Turn
  <2>5. Sound(s, others, base[s], mirror'[s])
    BY <2>3
  <2>6. \A u \in others : step'[u] = step[u] /\ held'[u] = held[u]
    BY <1>1, <1>2
  <2> QED
    BY <2>1, <2>4, <2>5, <2>6 DEF Sound, Whole, Recent, Reads
<1>7. CASE t \in Busy(s)'
  <2>1. sid'[t] = s /\ Deals(t)'
    BY <1>7 DEF Busy, Deals, Reads
  <2>2. \A u, v \in others : u = v
    BY <1>4 DEF Sound
  <2>3. \A u, v \in Busy(s)' : u = v
    <3>1. ~(Cardinality(Busy(s)') > 1)
      BY DEF Disturb
    <3> QED
      BY <1>3, <2>2, <3>1, AtMostOne
  <2>4. others = {} /\ Busy(s)' = {t}
    BY <1>3, <1>7, <2>3
  <2>5. Created(s) => Sound(s, {}, base[s], mirror'[s])
    BY <2>4
  <2>6. CASE Looks(t, base)
    <3>1. Created(s)
      BY <2>1, <2>6 DEF Looks
    <3>2. /\ Whole(mirror'[s], s)
          /\ memory'[s].status = "none"
          /\ step'[t] = "fetched" => held'[t] = mirror'[s]
      BY <2>1, <2>5, <2>6, <3>1 DEF Looks, Sound
    <3>3. (Whole(mirror[s], s))'
      BY <2>6, <3>2 DEF Looks, Whole, Recent
    <3>4. step'[t] # "set"
      BY <2>6 DEF Looks, Reads
    <3> QED
      BY <2>3, <2>4, <3>2, <3>3, <3>4 DEF Sound
  <2>7. CASE Sends(t, base)
    <3>1. (Whole(held[t], s))'
      BY <2>1, <2>5, <2>7 DEF Sends, Whole
    <3>2. memory'[s].status = "none" \/ memory'[s] = held'[t]
      BY <2>1, <2>7 DEF Sends
    <3>3. step'[t] = "set" /\ ~Reads(t)'
      BY <2>7 DEF Sends, Reads
    <3> QED
      BY <2>3, <2>4, <3>1, <3>2, <3>3 DEF Sound
  <2> QED
    BY <2>1, <2>6, <2>7 DEF Turn, Departs
<1> QED
  BY <1>6, <1>7

(* The whole invariant, when a task has had its turn and neither the       *)
(* cleanup's list nor Redis has got anything that does not belong there.   *)
LEMMA TurnInv ==
    ASSUME IInv, NEW t \in Tasks, NEW base, NEW lost, Turn(t, base), Disturb(lost),
           mirror' \in [Inputs -> Stored], clock' = clock, results' \subseteq Keys,
           \A s \in todo' : s \in Inputs /\ Created(s),
           \A s \in Inputs : Created(s) \/ (base[s] = memory[s] /\ mirror'[s] = mirror[s]),
           \A s \in Inputs : Created(s) /\ s \notin disturbed' =>
               Sound(s, Busy(s) \ {t}, base[s], mirror'[s])
    PROVE  IInv'
<1> USE DEF IInv
<1>1. \A s \in Inputs : Created(s) => Created(s)'
  BY CreatedStays DEF Turn
<1>2. StoreTyped'
  BY DEF StoreTyped, Turn
<1>3. TasksTyped' /\ TaskInv(t)' /\ Grows /\ OthersKept(t)
  BY DEF Turn
<1>4. TasksInv'
  <2>1. \A u \in Tasks \ {t} : TaskInv(u)'
    BY <1>1, <1>3, OthersInv DEF TasksInv
  <2> QED
    BY <1>3, <2>1 DEF TasksInv
<1>5. TodoInv'
  BY <1>1 DEF TodoInv
<1>6. UncreatedInv'
  <2>1. ASSUME NEW s \in Inputs, ~Created(s)'
        PROVE  Untouched(s)'
    <3>1. ~Created(s)
      BY <1>1, <2>1
    <3>2. Untouched(s)
      BY <3>1 DEF UncreatedInv
    <3>3. s # sid'[t]
      BY <1>3, <2>1 DEF TaskInv, Created
    <3>4. memory'[s] = base[s] /\ accepted'[s] = accepted[s] /\ (s \in ended' <=> s \in ended)
      BY <3>3 DEF Turn, Departs, Looks, Sends
    <3> QED
      BY <3>1, <3>2, <3>4 DEF Untouched, NoSession
  <2> QED
    BY <2>1 DEF UncreatedInv
<1>7. SessionsInv'
  <2>1. ASSUME NEW s \in Inputs, Created(s)', s \notin disturbed'
        PROVE  (Sound(s, Busy(s), memory[s], mirror[s]))'
    BY <2>1, TurnKeepsSessions DEF TasksInv
  <2> QED
    BY <2>1 DEF SessionsInv
<1> QED
  BY <1>2, <1>3, <1>4, <1>5, <1>6, <1>7

-----------------------------------------------------------------------------
(* The actions.  First what a session is without task t, which has come to *)
(* the end of an await or was not dealing with any.                        *)

LEMMA Aside ==
    ASSUME IInv, NEW t \in Tasks, NEW base, disturbed \subseteq disturbed',
           \A z \in Inputs : z # sid[t] \/ ~Deals(t) =>
               base[z] = memory[z] /\ mirror'[z] = mirror[z],
           Deals(t) =>
              \/ sid[t] \in disturbed'
              \/ Sound(sid[t], {t}, memory[sid[t]], mirror[sid[t]])
                 => Sound(sid[t], {}, base[sid[t]], mirror'[sid[t]])
    PROVE  \A s \in Inputs : Created(s) /\ s \notin disturbed' =>
               Sound(s, Busy(s) \ {t}, base[s], mirror'[s])
<1> SUFFICES ASSUME NEW s \in Inputs, Created(s), s \notin disturbed'
             PROVE  Sound(s, Busy(s) \ {t}, base[s], mirror'[s])
  OBVIOUS
<1>1. Sound(s, Busy(s), memory[s], mirror[s])
  BY DEF IInv, SessionsInv
<1>2. CASE t \notin Busy(s)
  <2>1. Busy(s) \ {t} = Busy(s)
    BY <1>2
  <2>2. sid[t] # s \/ ~Deals(t)
    BY <1>2 DEF Busy, Deals, Reads
  <2> QED
    BY <1>1, <2>1, <2>2
<1>3. CASE t \in Busy(s)
  <2>1. sid[t] = s /\ Deals(t)
    BY <1>3 DEF Busy, Deals, Reads
  <2>2. Busy(s) = {t} /\ Busy(s) \ {t} = {}
    BY <1>1, <1>3 DEF Sound
  <2> QED
    BY <1>1, <2>1, <2>2
<1> QED
  BY <1>2, <1>3

LEMMA DisturbGrows ==
    ASSUME NEW lost, Disturb(lost)
    PROVE  disturbed \subseteq disturbed' /\ lost \subseteq disturbed'
BY DEF Disturb

LEMMA ReadyFor ==
    ASSUME IInv, NEW t \in Tasks, NEW base \in [Inputs -> Stored], disturbed \subseteq disturbed'
    PROVE  Before(t, base)
BY DEF IInv, TasksInv, Before

(* Turns of a task that reads or writes nothing.                           *)
LEMMA IdleTurnInv ==
    ASSUME IInv, NEW t \in Tasks, ~Deals(t), Disturb({}),
           Before(t, memory) => Turn(t, memory),
           mirror' = mirror, clock' = clock, todo' = todo, results' \subseteq Keys
    PROVE  IInv'
<1>1. disturbed \subseteq disturbed'
  BY DisturbGrows
<1>2. memory \in [Inputs -> Stored] /\ mirror \in [Inputs -> Stored]
  BY DEF IInv, StoreTyped
<1>3. Turn(t, memory)
  BY <1>1, <1>2, ReadyFor
<1>4. \A s \in Inputs : Created(s) /\ s \notin disturbed' =>
          Sound(s, Busy(s) \ {t}, memory[s], mirror'[s])
  BY <1>1, Aside
<1>5. \A s \in todo' : s \in Inputs /\ Created(s)
  BY DEF IInv, TodoInv
<1>6. \A s \in Inputs : Created(s) \/ (memory[s] = memory[s] /\ mirror'[s] = mirror[s])
  OBVIOUS
<1> QED
  BY <1>2, <1>3, <1>4, <1>5, <1>6, TurnInv

LEMMA KnownAreCreated ==
    ASSUME IInv, NEW s \in Known
    PROVE  s \in Inputs /\ Created(s)
<1>1. PICK j \in Inputs : step[j] \in {"success", "cached", "failed"} /\ s = sid[j]
  BY DEF Known
<1>2. InputInv(j) /\ j \in Tasks /\ TaskInv(j)
  BY Apart DEF IInv, TasksInv, TaskInv
<1>3. sid[j] \in Inputs
  BY <1>1, <1>2 DEF InputInv, IInv, TasksTyped
<1> QED
  BY <1>1, <1>2, <1>3 DEF TaskInv

LEMMA InputKeepsTo ==
    ASSUME IInv, NEW i \in Inputs
    PROVE  /\ i \in Tasks /\ TaskInv(i) /\ InputInv(i)
           /\ step[i] \in Steps
           /\ step[i] # "idle" => sid[i] \in Inputs /\ Created(sid[i])
           /\ step[i] = "idle" => ~Created(i)
<1>1. i \in Tasks /\ TaskInv(i) /\ InputInv(i)
  BY Apart DEF IInv, TasksInv, TaskInv
<1>2. step[i] # "idle" => sid[i] \in Inputs
  BY <1>1 DEF IInv, TasksTyped, InputInv
<1> QED
  BY <1>1, <1>2, Apart DEF IInv, TasksTyped, InputInv, Created, TaskInv

LEMMA EnterInv ==
    ASSUME IInv, NEW i \in Inputs, Enter(i)
    PROVE  IInv'
<1>1. /\ step[i] = "idle" /\ Disturb({}) /\ mirror' = mirror /\ clock' = clock
      /\ todo' = todo /\ results' = results
      /\ Create(i, memory) \/ \E s \in Known : Get(i, "open", s)
  BY DEF Enter, Arrive
<1>2. i \in Tasks /\ ~Deals(i) /\ ~Created(i) /\ i # Sweeper
  BY <1>1, InputKeepsTo, Apart DEF Deals, Reads
<1>3. Before(i, memory) => Turn(i, memory)
  <2>1. CASE Create(i, memory)
    BY <1>2, <2>1, CreateTurn
  <2>2. ASSUME NEW s \in Known, Get(i, "open", s)
        PROVE  Before(i, memory) => Turn(i, memory)
    <3>1. Asks(i, "open", s)
      BY <1>2, KnownAreCreated DEF Asks
    <3> QED
      BY <1>2, <2>2, <3>1, GetTurn
  <2> QED
    BY <1>1, <2>1, <2>2
<1>4. results' \subseteq Keys
  BY <1>1 DEF IInv, StoreTyped
<1> QED
  BY <1>1, <1>2, <1>3, <1>4, IdleTurnInv

LEMMA LeaveMeans ==
    ASSUME IInv, NEW i \in Inputs, NEW next \in Steps, Leave(i, next),
           step[i] # "idle", next \notin {"idle", "miss", "fetched", "set"},
           next \in {"store", "success"} => Attached(i),
           UNCHANGED <<memory, accepted, ended>>
    PROVE  Before(i, memory) => Turn(i, memory)
<1>1. sid[i] \in Inputs
  BY InputKeepsTo
<1>2. memory' = memory
  OBVIOUS
<1>3. UNCHANGED <<accepted, ended>>
  OBVIOUS
<1> QED
  BY <1>1, <1>2, <1>3, LeaveTurn

LEMMA WorkInv ==
    ASSUME IInv, NEW i \in Inputs, Work(i)
    PROVE  IInv'
<1>1. Disturb({}) /\ mirror' = mirror /\ clock' = clock /\ todo' = todo
  BY DEF Work, Processed, Rejected, Lookup, Store
<1>2. i \in Tasks /\ i # Sweeper /\ InputInv(i)
  BY InputKeepsTo, Apart
<1>3. results \subseteq Keys
  BY DEF IInv, StoreTyped
<1>4. CASE Processed(i)
  <2>1. step[i] = "process" /\ Get(i, "add", sid[i]) /\ results' = results
    BY <1>4 DEF Processed
  <2>2. ~Deals(i) /\ Asks(i, "add", sid[i])
    BY <2>1, InputKeepsTo DEF Deals, Reads, Asks
  <2>3. Before(i, memory) => Turn(i, memory)
    BY <1>2, <2>1, <2>2, GetTurn
  <2> QED
    BY <1>1, <1>2, <1>3, <2>1, <2>2, <2>3, IdleTurnInv
<1>5. CASE Rejected(i)
  <2>1. step[i] = "process" /\ Leave(i, "failed") /\ results' = results
    BY <1>5 DEF Rejected
  <2>2. UNCHANGED <<memory, accepted, ended>>
    BY <1>5 DEF Rejected
  <2>3. Before(i, memory) => Turn(i, memory)
    BY <2>1, <2>2, LeaveMeans DEF Steps
  <2>4. ~Deals(i)
    BY <2>1 DEF Deals, Reads
  <2> QED
    BY <1>1, <1>2, <1>3, <2>1, <2>3, <2>4, IdleTurnInv
<1>6. ASSUME NEW ok \in BOOLEAN, Lookup(i, ok)
      PROVE  IInv'
  <2>1. /\ step[i] = "lookup" /\ results' = results
        /\ Leave(i, "cached") \/ Leave(i, "process")
    BY <1>6 DEF Lookup
  <2>2. UNCHANGED <<memory, accepted, ended>>
    BY <1>6 DEF Lookup
  <2>3. Before(i, memory) => Turn(i, memory)
    BY <2>1, <2>2, LeaveMeans DEF Steps
  <2>4. ~Deals(i)
    BY <2>1 DEF Deals, Reads
  <2> QED
    BY <1>1, <1>2, <1>3, <2>1, <2>3, <2>4, IdleTurnInv
<1>7. ASSUME NEW ok \in BOOLEAN, Store(i, ok)
      PROVE  IInv'
  <2>1. /\ step[i] = "store" /\ Leave(i, "success")
        /\ results' = IF ok THEN results \cup {KeyOf[i]} ELSE results
    BY <1>7 DEF Store
  <2>2. UNCHANGED <<memory, accepted, ended>>
    BY <1>7 DEF Store
  <2>3. Attached(i)
    BY <1>2, <2>1 DEF InputInv
  <2>4. Before(i, memory) => Turn(i, memory)
    BY <2>1, <2>2, <2>3, LeaveMeans DEF Steps
  <2>5. ~Deals(i)
    BY <2>1 DEF Deals, Reads
  <2>6. results' \subseteq Keys
    BY <1>3, <2>1, InputAssumption
  <2> QED
    BY <1>1, <1>2, <2>4, <2>5, <2>6, IdleTurnInv
<1> QED
  BY <1>4, <1>5, <1>6, <1>7 DEF Work

LEMMA VisitInv ==
    ASSUME IInv, NEW r \in Readers, Visit(r)
    PROVE  IInv'
<1>1. /\ step[r] = "idle" /\ Disturb({}) /\ mirror' = mirror /\ clock' = clock
      /\ todo' = todo /\ results' = results
  BY DEF Visit, Ask
<1>2. PICK s \in Known, why \in {"get", "delete"} : Get(r, why, s)
  BY DEF Visit, Ask
<1>3. r \in Tasks /\ r # Sweeper /\ ~Deals(r)
  BY <1>1, Apart DEF Deals, Reads
<1>4. Asks(r, why, s)
  BY KnownAreCreated DEF Asks
<1>5. Before(r, memory) => Turn(r, memory)
  BY <1>2, <1>3, <1>4, GetTurn
<1>6. results' \subseteq Keys
  BY <1>1 DEF IInv, StoreTyped
<1> QED
  BY <1>1, <1>3, <1>5, <1>6, IdleTurnInv

(* What a task that has read, or is to read, asked for.                    *)
LEMMA ReadsFor ==
    ASSUME IInv, NEW t \in Tasks, Reads(t)
    PROVE  Asks(t, goal[t], sid[t])
<1>1. TaskInv(t) /\ Deals(t)
  BY DEF IInv, TasksInv, Deals
<1>2. sid[t] \in Inputs /\ Created(sid[t])
  BY <1>1 DEF TaskInv
<1>3. CASE t \in Inputs
  BY <1>1, <1>2, <1>3 DEF TaskInv, InputInv, Asks
<1>4. CASE t \in Readers
  BY <1>1, <1>2, <1>4 DEF TaskInv, ReaderInv, Asks
<1>5. CASE t = Sweeper
  BY <1>1, <1>2, <1>5 DEF TaskInv, SweeperInv, Asks
<1> QED
  BY <1>3, <1>4, <1>5, Apart

(* What Redis has answered is the whole session, if that is undisturbed.   *)
LEMMA FetchedIsWhole ==
    ASSUME IInv, NEW t \in Tasks, step[t] = "fetched", sid[t] \notin disturbed
    PROVE  /\ Sound(sid[t], {t}, memory[sid[t]], mirror[sid[t]])
           /\ held[t].status # "none"
<1>1. sid[t] \in Inputs /\ Created(sid[t])
  BY ReadsFor DEF Reads, Asks
<1>2. Sound(sid[t], Busy(sid[t]), memory[sid[t]], mirror[sid[t]]) /\ t \in Busy(sid[t])
  BY <1>1 DEF IInv, SessionsInv, Busy
<1>3. Busy(sid[t]) = {t}
  BY <1>2 DEF Sound
<1> QED
  BY <1>2, <1>3 DEF Sound, Whole, Reads

LEMMA ResumeInv ==
    ASSUME IInv, NEW t \in Tasks, t # Sweeper, Resume(t)
    PROVE  IInv'
<1> DEFINE s == sid[t]
           base == IF held[t].status = "none" THEN memory ELSE [memory EXCEPT ![s] = held[t]]
<1>1. /\ step[t] = "fetched" /\ Disturb({}) /\ mirror' = mirror /\ clock' = clock
      /\ todo' = todo /\ results' = results
  BY DEF Resume, Install
<1>2. Asks(t, goal[t], s) /\ s \in Inputs /\ Created(s)
  BY <1>1, ReadsFor DEF Reads, Asks
<1>3. /\ disturbed \subseteq disturbed'
      /\ memory \in [Inputs -> Stored] /\ mirror \in [Inputs -> Stored] /\ held[t] \in Stored
  BY <1>1, DisturbGrows DEF IInv, StoreTyped, TasksTyped
<1>4. base \in [Inputs -> Stored]
  BY <1>3
<1>5. Before(t, base)
  BY <1>3, <1>4, ReadyFor
<1>6. Turn(t, base)
  <2>1. CASE held[t].status = "none"
    <3>1. Missing(t, goal[t], memory)
      BY <2>1 DEF Resume, Install
    <3>2. s \in disturbed
      BY <1>1, <2>1, FetchedIsWhole
    <3> QED
      BY <1>2, <1>5, <2>1, <3>1, <3>2, MissingTurn
  <2>2. CASE held[t].status # "none"
    <3>1. Given(t, goal[t], s, base)
      BY <2>2 DEF Resume, Install
    <3>2. base[s].status # "none"
      BY <1>2, <1>3, <2>2
    <3> QED
      BY <1>2, <1>5, <3>1, <3>2, GivenTurn
  <2> QED
    BY <2>1, <2>2
<1>7. \A z \in Inputs : Created(z) /\ z \notin disturbed' =>
          Sound(z, Busy(z) \ {t}, base[z], mirror'[z])
  <2>1. \A z \in Inputs : z # sid[t] \/ ~Deals(t) => base[z] = memory[z] /\ mirror'[z] = mirror[z]
    BY <1>1 DEF Deals, Reads
  <2>2. Sound(s, {t}, memory[s], mirror[s]) => Sound(s, {}, base[s], mirror'[s])
    <3>1. SUFFICES ASSUME Sound(s, {t}, memory[s], mirror[s])
                   PROVE  Sound(s, {}, base[s], mirror'[s])
      OBVIOUS
    <3>2. Whole(mirror[s], s) /\ held[t] = mirror[s]
      BY <1>1, <3>1 DEF Sound, Reads
    <3>3. base[s] = mirror[s]
      BY <1>2, <1>3, <3>2 DEF Whole
    <3> QED
      BY <1>1, <3>2, <3>3 DEF Sound
  <2> HIDE DEF base
  <2> QED
    BY <1>3, <2>1, <2>2, Aside
<1>8. \A z \in Inputs : Created(z) \/ (base[z] = memory[z] /\ mirror'[z] = mirror[z])
  BY <1>1, <1>2
<1>9. /\ \A z \in todo' : z \in Inputs /\ Created(z)
      /\ results' \subseteq Keys
  BY <1>1 DEF IInv, TodoInv, StoreTyped
<1> HIDE DEF base
<1> QED
  BY <1>1, <1>3, <1>6, <1>7, <1>8, <1>9, TurnInv

LEMMA FetchInv ==
    ASSUME IInv, NEW t \in Tasks, NEW ok \in BOOLEAN, Fetch(t, ok), results' = results,
           Disturb(IF ok THEN {} ELSE {sid[t]})
    PROVE  IInv'
<1> DEFINE s == sid[t]
<1>1. /\ step[t] = "miss" /\ mirror' = mirror /\ clock' = clock /\ todo' = todo
      /\ step' = [step EXCEPT ![t] = "fetched"]
      /\ held' = IF ok THEN [held EXCEPT ![t] = mirror[s]] ELSE held
      /\ UNCHANGED <<memory, goal, sid, after, accepted, ended>>
  BY DEF Fetch
<1>2. Asks(t, goal[t], s) /\ s \in Inputs /\ Created(s)
  BY <1>1, ReadsFor DEF Reads, Asks
<1>3. /\ disturbed \subseteq disturbed' /\ (ok \/ s \in disturbed')
      /\ memory \in [Inputs -> Stored] /\ mirror \in [Inputs -> Stored]
  BY DisturbGrows DEF IInv, StoreTyped
<1>4. TaskInv(t) /\ TasksTyped
  BY DEF IInv, TasksInv
<1>5. TasksTyped' /\ OthersKept(t) /\ step'[t] = "fetched"
  BY <1>1, <1>2, <1>3, <1>4 DEF TasksTyped, OthersKept, Steps
<1>6. Reads(t) /\ Deals(t) /\ Reads(t)' /\ Deals(t)'
  BY <1>1, <1>5 DEF Reads, Deals
<1>7. TaskInv(t)'
  <2>1. Created(s)' /\ (Created(t)' <=> Created(t))
    BY <1>1, <1>2 DEF Created
  <2>2. t \in Inputs => InputInv(t)'
    BY <1>1, <1>2, <1>4, <1>5, <1>6, <2>1, Apart DEF TaskInv, InputInv
  <2>3. t \in Readers => ReaderInv(t)'
    BY <1>1, <1>4, <1>5, <1>6 DEF TaskInv, ReaderInv
  <2>4. t = Sweeper => SweeperInv'
    BY <1>1, <1>4, <1>5, <1>6 DEF TaskInv, SweeperInv
  <2> QED
    BY <1>1, <1>2, <2>1, <2>2, <2>3, <2>4 DEF TaskInv
<1>8. \A z \in Inputs : Created(z) /\ z \notin disturbed' =>
          Sound(z, Busy(z) \ {t}, memory[z], mirror'[z])
  <2>1. Sound(s, {t}, memory[s], mirror[s]) => Sound(s, {}, memory[s], mirror'[s])
    BY <1>1, <1>6 DEF Sound
  <2> QED
    BY <1>1, <1>3, <2>1, Aside
<1>9. Looks(t, memory)
  <2>1. CASE s \in disturbed'
    BY <1>1, <1>2, <1>6, <2>1 DEF Looks
  <2>2. CASE s \notin disturbed'
    <3>1. Sound(s, Busy(s), memory[s], mirror[s]) /\ t \in Busy(s)
      BY <1>1, <1>2, <1>3, <2>2 DEF IInv, SessionsInv, Busy
    <3>2. memory[s].status = "none"
      BY <1>6, <3>1 DEF Sound
    <3>3. held'[t] = mirror'[s]
      BY <1>1, <1>3, <1>4, <2>2 DEF TasksTyped
    <3> QED
      BY <1>1, <1>2, <1>6, <3>2, <3>3 DEF Looks
  <2> QED
    BY <2>1, <2>2
<1>10. Turn(t, memory)
  <2>1. memory' \in [Inputs -> Stored] /\ accepted' \in [Inputs -> Seq(Inputs)]
    BY <1>1 DEF IInv, StoreTyped
  <2>2. Grows
    BY <1>1, <1>3 DEF Grows
  <2>3. t \in Inputs /\ Created(t) => sid'[t] = t
    BY <1>1 DEF Created
  <2> QED
    BY <1>5, <1>7, <1>9, <2>1, <2>2, <2>3 DEF Turn
<1>11. /\ \A z \in todo' : z \in Inputs /\ Created(z)
       /\ results' \subseteq Keys
       /\ \A z \in Inputs : Created(z) \/ (memory[z] = memory[z] /\ mirror'[z] = mirror[z])
  BY <1>1 DEF IInv, TodoInv, StoreTyped
<1> QED
  BY <1>1, <1>3, <1>8, <1>10, <1>11, TurnInv

(* Redis holds what it was sent, or the session is disturbed.              *)
LEMMA WrittenSettles ==
    ASSUME IInv, NEW t \in Tasks, NEW ok \in BOOLEAN, Written(t, ok),
           Disturb(IF ok THEN {} ELSE {sid[t]})
    PROVE  /\ step[t] = "set" /\ sid[t] \in Inputs /\ Created(sid[t])
           /\ disturbed \subseteq disturbed'
           /\ mirror' \in [Inputs -> Stored]
           /\ \A z \in Inputs : Created(z) \/ mirror'[z] = mirror[z]
           /\ \A z \in Inputs : Created(z) /\ z \notin disturbed' =>
                 Sound(z, Busy(z) \ {t}, memory[z], mirror'[z])
<1> DEFINE s == sid[t]
<1>1. step[t] = "set" /\ mirror' = IF ok THEN [mirror EXCEPT ![s] = held[t]] ELSE mirror
  BY DEF Written
<1>2. s \in Inputs /\ Created(s)
  BY <1>1 DEF IInv, TasksInv, TaskInv, Deals
<1>3. /\ disturbed \subseteq disturbed' /\ (ok \/ s \in disturbed')
      /\ mirror \in [Inputs -> Stored] /\ held[t] \in Stored
  BY DisturbGrows DEF IInv, StoreTyped, TasksTyped
<1>4. mirror' \in [Inputs -> Stored] /\ \A z \in Inputs \ {s} : mirror'[z] = mirror[z]
  BY <1>1, <1>3
<1>5. Sound(s, {t}, memory[s], mirror[s]) => s \in disturbed' \/ Sound(s, {}, memory[s], mirror'[s])
  <2>1. SUFFICES ASSUME Sound(s, {t}, memory[s], mirror[s]), s \notin disturbed'
                 PROVE  Sound(s, {}, memory[s], mirror'[s])
    OBVIOUS
  <2>2. Whole(held[t], s) /\ (memory[s].status = "none" \/ memory[s] = held[t])
    BY <1>1, <2>1 DEF Sound
  <2>3. mirror'[s] = held[t]
    BY <1>1, <1>2, <1>3, <2>1
  <2> QED
    BY <2>2, <2>3 DEF Sound
<1>6. \A z \in Inputs : Created(z) /\ z \notin disturbed' =>
          Sound(z, Busy(z) \ {t}, memory[z], mirror'[z])
  <2>1. \A z \in Inputs : z # sid[t] \/ ~Deals(t) => memory[z] = memory[z] /\ mirror'[z] = mirror[z]
    BY <1>1, <1>4 DEF Deals
  <2> QED
    BY <1>3, <1>5, <2>1, Aside
<1> QED
  BY <1>1, <1>2, <1>3, <1>4, <1>6

LEMMA SetInv ==
    ASSUME IInv, NEW t \in Tasks, t # Sweeper, NEW ok \in BOOLEAN, Set(t, ok),
           results' = results, Disturb(IF ok THEN {} ELSE {sid[t]})
    PROVE  IInv'
<1>1. Written(t, ok) /\ clock' = clock /\ todo' = todo
  BY DEF Set
<1>2. /\ step[t] = "set" /\ sid[t] \in Inputs /\ Created(sid[t])
      /\ disturbed \subseteq disturbed'
      /\ mirror' \in [Inputs -> Stored]
      /\ \A z \in Inputs : Created(z) \/ mirror'[z] = mirror[z]
      /\ \A z \in Inputs : Created(z) /\ z \notin disturbed' =>
            Sound(z, Busy(z) \ {t}, memory[z], mirror'[z])
  BY <1>1, WrittenSettles
<1>3. Before(t, memory)
  BY <1>2, ReadyFor DEF IInv, StoreTyped
<1>4. TaskInv(t)
  BY DEF IInv, TasksInv
<1>5. Turn(t, memory)
  <2>1. CASE after[t] = "create"
    <3>1. t \in Inputs /\ ~Created(t)
      BY <1>2, <1>4, <2>1, Apart DEF TaskInv, InputInv, ReaderInv
    <3>2. Create(t, memory)
      BY <2>1 DEF Set
    <3> QED
      BY <1>3, <3>1, <3>2, CreateTurn
  <2>2. CASE after[t] # "create"
    <3>1. Leave(t, after[t])
      BY <2>2 DEF Set
    <3>2. memory' = memory /\ UNCHANGED <<accepted, ended>>
      BY <2>2 DEF Set
    <3>3. CASE t \in Inputs
      <4>1. after[t] \in {"lookup", "store"} /\ (after[t] = "store" => Attached(t))
        BY <1>2, <1>4, <2>2, <3>3 DEF TaskInv, InputInv
      <4>2. after[t] \in Steps
        BY <4>1 DEF Steps
      <4> QED
        BY <1>2, <1>3, <3>1, <3>2, <3>3, <4>1, <4>2, LeaveTurn
    <3>4. CASE t \notin Inputs
      <4>1. after[t] = "idle"
        BY <1>2, <1>4, <3>4, Apart DEF TaskInv, ReaderInv
      <4>2. after[t] \in Steps
        BY <4>1 DEF Steps
      <4> QED
        BY <1>3, <3>1, <3>2, <3>4, <4>1, <4>2, LeaveTurn
    <3> QED
      BY <3>3, <3>4
  <2> QED
    BY <2>1, <2>2
<1>6. /\ \A z \in todo' : z \in Inputs /\ Created(z)
      /\ results' \subseteq Keys
      /\ \A z \in Inputs : Created(z) \/ (memory[z] = memory[z] /\ mirror'[z] = mirror[z])
  BY <1>1, <1>2 DEF IInv, TodoInv, StoreTyped
<1> QED
  BY <1>1, <1>2, <1>5, <1>6, TurnInv

LEMMA SweepSetInv ==
    ASSUME IInv, NEW ok \in BOOLEAN, SweepSet(ok), results' = results,
           Disturb(IF ok THEN {} ELSE {sid[Sweeper]})
    PROVE  IInv'
<1> DEFINE t == Sweeper
<1>1. Written(t, ok) /\ clock' = clock /\ Proceed(todo) /\ t \in Tasks
  BY Apart DEF SweepSet
<1>2. /\ disturbed \subseteq disturbed'
      /\ mirror' \in [Inputs -> Stored]
      /\ \A z \in Inputs : Created(z) \/ mirror'[z] = mirror[z]
      /\ \A z \in Inputs : Created(z) /\ z \notin disturbed' =>
            Sound(z, Busy(z) \ {t}, memory[z], mirror'[z])
  BY <1>1, WrittenSettles
<1>3. Before(t, memory)
  BY <1>1, <1>2, ReadyFor DEF IInv, StoreTyped
<1>4. Turn(t, memory) /\ todo' \subseteq todo
  BY <1>1, <1>3, ProceedTurn DEF IInv, TodoInv
<1>5. /\ \A z \in todo' : z \in Inputs /\ Created(z)
      /\ results' \subseteq Keys
      /\ \A z \in Inputs : Created(z) \/ (memory[z] = memory[z] /\ mirror'[z] = mirror[z])
  BY <1>2, <1>4 DEF IInv, TodoInv, StoreTyped
<1> QED
  BY <1>1, <1>2, <1>4, <1>5, TurnInv

LEMMA CleanInv ==
    ASSUME IInv, Clean
    PROVE  IInv'
<1> DEFINE t == Sweeper
           s == sid[Sweeper]
<1>1. /\ Sweep \/ SweepFetched
      /\ results' = results /\ Disturb({}) /\ mirror' = mirror /\ clock' = clock
      /\ t \in Tasks
  BY Apart DEF Clean, Sweep, SweepFetched
<1>2. /\ disturbed \subseteq disturbed'
      /\ memory \in [Inputs -> Stored] /\ mirror' \in [Inputs -> Stored]
  BY <1>1, DisturbGrows DEF IInv, StoreTyped
<1>3. Before(t, memory)
  BY <1>1, <1>2, ReadyFor
<1>4. Turn(t, memory) /\ \A z \in todo' : z \in Inputs /\ Created(z)
  <2>1. CASE Sweep
    <3>1. Proceed(Stale)
      BY <2>1 DEF Sweep
    <3>2. Stale \subseteq {z \in Inputs : Created(z)}
      BY NoSessionStored DEF Stale, IInv, UncreatedInv, Untouched
    <3> QED
      BY <1>3, <3>1, <3>2, ProceedTurn
  <2>2. CASE SweepFetched /\ held[t].status = "none"
    <3>1. Proceed(todo)
      BY <2>2 DEF SweepFetched
    <3> QED
      BY <1>3, <3>1, ProceedTurn DEF IInv, TodoInv
  <2>3. CASE SweepFetched /\ held[t].status # "none"
    <3>1. step[t] = "fetched" /\ Finish(t, s, held[t], "next") /\ memory' = memory /\ todo' = todo
      BY <2>3 DEF SweepFetched
    <3>2. s \in Inputs /\ Created(s)
      BY <1>1, <3>1, ReadsFor DEF Reads, Asks
    <3>3. \/ s \in disturbed
          \/ held[t].inputs = Recent(accepted[s])
      BY <1>1, <3>1, FetchedIsWhole DEF Sound, Whole, Reads
    <3>4. held[t] \in Stored /\ "next" \in Sequels
      BY <1>1 DEF IInv, TasksTyped, Sequels
    <3>5. s \in disturbed' \/ memory'[s].status = "none"
      BY <1>1, <1>2, <3>1, FetchedIsWhole DEF Sound, Reads
    <3>6. Turn(t, memory)
      BY <1>2, <1>3, <2>3, <3>1, <3>2, <3>3, <3>4, <3>5, Apart, FinishTurn
    <3> QED
      BY <3>1, <3>6 DEF IInv, TodoInv
  <2> QED
    BY <1>1, <2>1, <2>2, <2>3
<1>5. \A z \in Inputs : Created(z) /\ z \notin disturbed' =>
          Sound(z, Busy(z) \ {t}, memory[z], mirror'[z])
  <2>1. ~Deals(t) \/ step[t] = "fetched"
    BY <1>1 DEF Sweep, SweepFetched, Deals, Reads
  <2>2. \A z \in Inputs : memory[z] = memory[z] /\ mirror'[z] = mirror[z]
    BY <1>1
  <2>3. CASE ~Deals(t)
    BY <1>1, <1>2, <2>2, <2>3, Aside
  <2>4. CASE step[t] = "fetched"
    <3>1. Sound(s, {t}, memory[s], mirror[s]) => Sound(s, {}, memory[s], mirror'[s])
      BY <1>1, <2>4 DEF Sound, Reads
    <3> QED
      BY <1>1, <1>2, <2>2, <3>1, Aside
  <2> QED
    BY <2>1, <2>3, <2>4
<1>6. /\ results' \subseteq Keys
      /\ \A z \in Inputs : Created(z) \/ (memory[z] = memory[z] /\ mirror'[z] = mirror[z])
  BY <1>1 DEF IInv, StoreTyped
<1> QED
  BY <1>1, <1>2, <1>4, <1>5, <1>6, TurnInv

LEMMA RunInv ==
    ASSUME IInv, NEW t \in Tasks, Run(t)
    PROVE  IInv'
<1>1. ASSUME RedisAnswers(t)
      PROVE  IInv'
  <2>1. PICK ok \in BOOLEAN :
           /\ Fetch(t, ok) \/ (t # Sweeper /\ Set(t, ok)) \/ (t = Sweeper /\ SweepSet(ok))
           /\ Disturb(IF ok THEN {} ELSE {sid[t]})
    BY <1>1 DEF RedisAnswers
  <2>2. results' = results
    BY <1>1 DEF RedisAnswers
  <2> QED
    BY <2>1, <2>2, FetchInv, SetInv, SweepSetInv
<1>2. ASSUME t \in Inputs, Work(t)
      PROVE  IInv'
  BY <1>2, WorkInv
<1>3. ASSUME t # Sweeper, Resume(t)
      PROVE  IInv'
  BY <1>3, ResumeInv
<1>4. ASSUME t = Sweeper, Clean
      PROVE  IInv'
  BY <1>4, CleanInv
<1> QED
  BY <1>1, <1>2, <1>3, <1>4 DEF Run

-----------------------------------------------------------------------------
(* The environment.                                                        *)

LEMMA TickInv ==
    ASSUME IInv, Tick, results' = results, Disturb({})
    PROVE  IInv'
<1> USE DEF IInv
<1>1. /\ UNCHANGED <<memory, mirror, tasks, todo, accepted, ended>>
      /\ clock < MaxClock /\ clock' = clock + 1
  BY DEF Tick
<1>2. UNCHANGED <<memory, mirror, step, goal, sid, held, after, todo, accepted, ended>>
  BY <1>1 DEF tasks
<1>3. disturbed \subseteq disturbed'
  BY DisturbGrows
<1>4. StoreTyped'
  BY <1>1, <1>2, StoreAssumption DEF StoreTyped, Stored, Sessions
<1>5. TasksTyped'
  BY <1>2 DEF TasksTyped, Stored, Sessions
<1>6. TasksInv'
  <2> SUFFICES ASSUME NEW t \in Tasks
               PROVE  TaskInv(t)'
    BY DEF TasksInv
  <2>1. TaskInv(t)
    BY DEF TasksInv
  <2>2. Attached(t) => Attached(t)'
    BY <1>2, <1>3 DEF Attached
  <2> QED
    BY <1>2, <2>1, <2>2
       DEF TaskInv, InputInv, ReaderInv, SweeperInv, Reads, Deals, Created
<1>7. TodoInv' /\ UncreatedInv'
  BY <1>2 DEF TodoInv, UncreatedInv, Untouched, Created, NoSession
<1>8. SessionsInv'
  BY <1>2, <1>3 DEF SessionsInv, Sound, Whole, Recent, Reads, Busy, Created
<1> QED
  BY <1>4, <1>5, <1>6, <1>7, <1>8

LEMMA ForgetInv ==
    ASSUME IInv, NEW s \in Inputs, Forget(s), results' = results, Disturb({s})
    PROVE  IInv'
<1> USE DEF IInv
<1>1. /\ UNCHANGED <<memory, clock, tasks, todo, accepted, ended>>
      /\ mirror[s].status # "none" /\ mirror' = [mirror EXCEPT ![s] = NoSession]
  BY DEF Forget
<1>2. UNCHANGED <<memory, step, goal, sid, held, after, todo, accepted, ended>>
  BY <1>1 DEF tasks
<1>3. disturbed \subseteq disturbed' /\ s \in disturbed'
  BY DisturbGrows
<1>4. StoreTyped'
  BY <1>1, <1>2, NoSessionStored DEF StoreTyped, Stored, Sessions
<1>5. TasksTyped'
  BY <1>2 DEF TasksTyped, Stored, Sessions
<1>6. TasksInv'
  <2> SUFFICES ASSUME NEW t \in Tasks
               PROVE  TaskInv(t)'
    BY DEF TasksInv
  <2>1. TaskInv(t)
    BY DEF TasksInv
  <2>2. Attached(t) => Attached(t)'
    BY <1>2, <1>3 DEF Attached
  <2> QED
    BY <1>2, <2>1, <2>2
       DEF TaskInv, InputInv, ReaderInv, SweeperInv, Reads, Deals, Created
<1>7. TodoInv'
  BY <1>2 DEF TodoInv, Created
<1>8. \A z \in Inputs \ {s} : mirror'[z] = mirror[z]
  BY <1>1
<1>9. UncreatedInv'
  <2>1. Created(s)
    BY <1>1, NoSessionStored DEF UncreatedInv, Untouched
  <2> QED
    BY <1>2, <1>8, <2>1 DEF UncreatedInv, Untouched, Created, NoSession
<1>10. SessionsInv'
  BY <1>2, <1>3, <1>8 DEF SessionsInv, Sound, Whole, Recent, Reads, Busy, Created
<1> QED
  BY <1>4, <1>5, <1>6, <1>7, <1>9, <1>10

LEMMA RestartInv ==
    ASSUME IInv, Restart, Disturb({s \in Inputs : Busy(s) # {}})
    PROVE  IInv'
<1> USE DEF IInv
<1>1. /\ memory' = [s \in Inputs |-> NoSession]
      /\ step' = [t \in Tasks |->
            IF t \notin Inputs THEN "idle"
            ELSE IF step[t] \in {"miss", "fetched", "set", "lookup", "process", "store"}
            THEN "lost" ELSE step[t]]
      /\ goal' = [t \in Tasks |-> "none"]
      /\ held' = [t \in Tasks |-> NoSession]
      /\ after' = [t \in Tasks |-> "none"]
      /\ todo' = {}
      /\ UNCHANGED <<mirror, clock, sid, accepted, ended, results>>
  BY DEF Restart
<1>2. disturbed \subseteq disturbed' /\ {s \in Inputs : Busy(s) # {}} \subseteq disturbed'
  BY DisturbGrows
<1>3. StoreTyped'
  BY <1>1, NoSessionStored DEF StoreTyped, Stored, Sessions
<1>4. TasksTyped'
  BY <1>1, NoSessionStored DEF TasksTyped, Stored, Sessions, Steps, Goals, Sequels
<1>5. \A t \in Tasks : ~Deals(t)' /\ ~Reads(t)' /\ step'[t] # "set"
  BY <1>1 DEF Deals, Reads
<1>6. TasksInv'
  <2> SUFFICES ASSUME NEW t \in Tasks
               PROVE  TaskInv(t)'
    BY DEF TasksInv
  <2>1. TaskInv(t) /\ ~Deals(t)' /\ ~Reads(t)' /\ step'[t] # "set"
    BY <1>5 DEF TasksInv
  <2>2. Attached(t) => Attached(t)'
    BY <1>1, <1>2 DEF Attached
  <2>3. CASE t \in Inputs
    <3>1. /\ step'[t] = "idle" <=> step[t] = "idle"
          /\ step'[t] \in {"store", "success"} => step[t] \in {"store", "success"}
      BY <1>1, <2>3
    <3>2. InputInv(t)'
      BY <1>1, <2>1, <2>2, <2>3, <3>1 DEF TaskInv, InputInv
    <3> QED
      BY <1>1, <2>1, <2>3, <3>2, Apart DEF TaskInv, Created
  <2>4. CASE t \notin Inputs
    <3>1. step'[t] = "idle"
      BY <1>1, <2>4
    <3> QED
      BY <1>1, <2>1, <2>4, <3>1 DEF TaskInv, ReaderInv, SweeperInv, Created
  <2> QED
    BY <2>3, <2>4
<1>7. TodoInv' /\ UncreatedInv'
  BY <1>1 DEF TodoInv, UncreatedInv, Untouched, Created, NoSession
<1>8. SessionsInv'
  <2> SUFFICES ASSUME NEW s \in Inputs, Created(s), s \notin disturbed'
               PROVE  (Sound(s, Busy(s), memory[s], mirror[s]))'
    BY <1>1 DEF SessionsInv, Created
  <2>1. Busy(s) = {} /\ s \notin disturbed
    BY <1>2
  <2>2. Whole(mirror[s], s)
    BY <2>1 DEF SessionsInv, Sound
  <2>3. (Whole(mirror[s], s))'
    BY <1>1, <2>2 DEF Whole, Recent
  <2>4. Busy(s)' = {}
    BY <1>5 DEF Busy, Tasks, Deals, Reads
  <2>5. memory'[s].status = "none"
    BY <1>1, NoSessionStored
  <2> QED
    BY <2>3, <2>4, <2>5 DEF Sound
<1> QED
  BY <1>3, <1>4, <1>6, <1>7, <1>8

LEMMA StutterInv ==
    ASSUME IInv, UNCHANGED vars
    PROVE  IInv'
<1> USE DEF IInv
<1>1. UNCHANGED <<memory, mirror, clock, todo, accepted, ended, results, disturbed>>
  BY DEF vars, store
<1>2. UNCHANGED <<step, goal, sid, held, after>>
  BY DEF vars, store, tasks
<1>3. StoreTyped' /\ TasksTyped'
  BY <1>1, <1>2 DEF StoreTyped, TasksTyped, Stored, Sessions
<1>4. TasksInv'
  BY <1>1, <1>2
     DEF TasksInv, TaskInv, InputInv, ReaderInv, SweeperInv, Reads, Deals, Created, Attached
<1>5. TodoInv' /\ UncreatedInv'
  BY <1>1, <1>2 DEF TodoInv, UncreatedInv, Untouched, Created, NoSession
<1>6. SessionsInv'
  BY <1>1, <1>2 DEF SessionsInv, Sound, Whole, Recent, Reads, Busy, Created
<1> QED
  BY <1>3, <1>4, <1>5, <1>6

LEMMA InitInv == Init => IInv
<1> SUFFICES ASSUME Init
             PROVE  IInv
  OBVIOUS
<1>1. /\ StoreInit /\ results = {} /\ disturbed = {}
  BY DEF Init
<1>2. StoreTyped
  <2>1. <<>> \in Seq(Inputs) /\ 0 \in 0..MaxClock
    BY StoreAssumption
  <2> QED
    BY <1>1, <2>1, NoSessionStored DEF StoreInit, StoreTyped
<1>3. TasksTyped
  BY <1>1, NoSessionStored DEF StoreInit, TasksTyped, Steps, Goals, Sequels
<1>4. \A t \in Tasks : step[t] = "idle" /\ sid[t] = "none"
  BY <1>1 DEF StoreInit
<1>5. TasksInv
  BY <1>4, Apart DEF TasksInv, TaskInv, InputInv, ReaderInv, SweeperInv, Reads, Deals
<1>6. \A s \in Inputs : ~Created(s) /\ Untouched(s)
  BY <1>1, <1>4, Apart DEF StoreInit, Created, Untouched
<1>7. TodoInv
  BY <1>1 DEF StoreInit, TodoInv
<1> QED
  BY <1>2, <1>3, <1>5, <1>6, <1>7 DEF IInv, UncreatedInv, SessionsInv

LEMMA StepInv == IInv /\ [Next]_vars => IInv'
<1> SUFFICES ASSUME IInv, [Next]_vars
             PROVE  IInv'
  OBVIOUS
<1>1. ASSUME NEW i \in Inputs, Enter(i)
      PROVE  IInv'
  BY <1>1, EnterInv
<1>2. ASSUME NEW r \in Readers, Visit(r)
      PROVE  IInv'
  BY <1>2, VisitInv
<1>3. ASSUME NEW t \in Tasks, Run(t)
      PROVE  IInv'
  BY <1>3, RunInv
<1>4. ASSUME Environment
      PROVE  IInv'
  BY <1>4, TickInv, ForgetInv, RestartInv DEF Environment
<1>5. CASE UNCHANGED vars
  BY <1>5, StutterInv
<1> QED
  BY <1>1, <1>2, <1>3, <1>4, <1>5 DEF Next

LEMMA InvHolds == Spec => []IInv
  BY InitInv, StepInv, PTL DEF Spec

-----------------------------------------------------------------------------
(* However many tasks deal with a session, and whatever becomes of the     *)
(* calls to Redis, the process and Redis hold sessions that keep no more   *)
(* inputs than the cap allows.                                             *)
THEOREM SessionsAreTyped == Spec => []TypeOK
<1>1. IInv => TypeOK
  <2> SUFFICES ASSUME IInv
               PROVE  TypeOK
    OBVIOUS
  <2>1. \A s \in Inputs : memory[s] \in Stored /\ mirror[s] \in Stored
    BY DEF IInv, StoreTyped
  <2>2. \A t \in Tasks : step[t] \in Steps /\ held[t] \in Stored
    BY DEF IInv, TasksTyped
  <2>3. sid \in [Tasks -> Inputs \cup {"none"}] /\ todo \subseteq Inputs /\ results \subseteq Keys
    BY DEF IInv, StoreTyped, TasksTyped, TodoInv
  <2> QED
    BY <2>1, <2>2, <2>3 DEF TypeOK, Stored
<1> QED
  BY <1>1, InvHolds, PTL

(* A session whose mirroring nothing has disturbed keeps the most recent   *)
(* inputs and its end, through any number of restarts, timeouts, cleanups  *)
(* and reloads (managers/session_manager.py); and what is answered as      *)
(* processed is in the session that the answer names, or that was ended.   *)
THEOREM SessionsKeepAlways == Spec => []SessionsKeep
<1>1. IInv => SessionsKeep
  <2> SUFFICES ASSUME IInv
               PROVE  SessionsKeep
    OBVIOUS
  <2>1. ASSUME NEW s \in Calm
        PROVE  Whole(Served(s), s)
    <3>1. s \in Inputs /\ s \notin disturbed /\ Created(s) /\ Busy(s) = {}
      BY <2>1 DEF Calm, Created
    <3>2. /\ Whole(mirror[s], s)
          /\ memory[s].status = "none" \/ memory[s] = mirror[s]
      BY <3>1 DEF IInv, SessionsInv, Sound
    <3> QED
      BY <3>2 DEF Served
  <2>2. ASSUME NEW i \in Inputs, step[i] = "success"
        PROVE  Attached(i)
    BY <2>2, InputKeepsTo DEF InputInv
  <2> QED
    BY <2>1, <2>2 DEF SessionsKeep, NothingLost, EndSticks, AttachedUnlessEnded, Whole, Attached
<1> QED
  BY <1>1, InvHolds, PTL

-----------------------------------------------------------------------------
(* The gates.                                                              *)

Times == 0..MaxTime
Events == [what : {"allowed", "refused", "success", "failure"}, at : Times]

InOrder(seq) == \A k, l \in DOMAIN seq : k <= l => seq[k] <= seq[l]

LogInv ==
    /\ log \in Seq(Events)
    /\ \A m, n \in DOMAIN log : m <= n => log[m].at <= log[n].at

\* No call was later, nor is any before.
NoLater(now) == \A n \in DOMAIN log : log[n].at <= now

Counted(h) == {k \in DOMAIN bucket : bucket[k] > h}
Granted(h) == {m \in DOMAIN log : log[m].what = "allowed" /\ log[m].at > h}

\* However far one looks back within the window of the latest call, the bucket
\* has as many requests as were allowed.
BucketInv ==
    /\ bucket \in Seq(Times) /\ InOrder(bucket)
    /\ \A now \in Times : NoLater(now) => \A k \in DOMAIN bucket : bucket[k] <= now
    /\ MaxRequests # 0 =>
          \A h \in Int : NoLater(h + Window) => Cardinality(Granted(h)) = Cardinality(Counted(h))

InARow == {k \in DOMAIN log :
              /\ log[k].what = "failure"
              /\ \A j \in k..Len(log) : log[j].what # "success"}
Opener(k) == Cardinality({j \in InARow : j <= k}) = FailureThreshold

\* The breaker has counted the failures in a row, and knows when the circuit was
\* opened by one of them.
BreakerInv ==
    /\ breaker = [failures |-> breaker.failures, openedAt |-> breaker.openedAt]
    /\ breaker.failures = Cardinality(InARow)
    /\ breaker.failures < FailureThreshold => breaker.openedAt = NotOpened
    /\ breaker.failures >= FailureThreshold =>
          \E k \in InARow : Opener(k) /\ breaker.openedAt = log[k].at

GatesInv == LogInv /\ BucketInv /\ LimiterIsExact /\ BreakerInv

LEMMA GatesConstants ==
    /\ MaxRequests \in Nat /\ MaxTime \in Nat
    /\ Window \in Nat \ {0} /\ FailureThreshold \in Nat \ {0} /\ Recovery \in Nat \ {0}
BY GatesAssumption

LEMMA PlaceSetIsFinite ==
    ASSUME NEW n \in Nat, NEW S \in SUBSET (1..n)
    PROVE  IsFiniteSet(S) /\ Cardinality(S) \in 0..n
<1>1. IsFiniteSet(1..n) /\ Cardinality(1..n) = n
  BY FS_Interval
<1>2. IsFiniteSet(S) /\ Cardinality(S) <= Cardinality(1..n)
  BY <1>1, FS_Subset
<1> QED
  BY <1>1, <1>2, FS_CardinalityType

LEMMA BeginningIs ==
    ASSUME NEW n \in Nat, NEW S \in SUBSET (1..n), \A k \in S : \A j \in 1..k : j \in S
    PROVE  S = 1..Cardinality(S)
<1>1. IsFiniteSet(S) /\ Cardinality(S) \in 0..n
  BY PlaceSetIsFinite
<1> DEFINE d == Cardinality(S)
<1>2. d \in Nat
  BY <1>1
<1>3. 1..d \subseteq S
  <2> SUFFICES ASSUME NEW e \in 1..d, e \notin S
               PROVE  FALSE
    OBVIOUS
  <2>1. S \subseteq 1..(e - 1)
    <3> SUFFICES ASSUME NEW k \in S, ~(k <= e - 1)
                 PROVE  FALSE
      BY <1>2
    <3>1. e \in 1..k
      BY <1>2
    <3> QED
      BY <3>1
  <2>2. e - 1 \in Nat
    BY <1>2
  <2>3. d \in 0..(e - 1)
    <3> HIDE DEF d
    <3>1. \A m \in Nat : \A T \in SUBSET (1..m) : Cardinality(T) \in 0..m
      BY PlaceSetIsFinite
    <3> QED
      BY <2>1, <2>2, <3>1 DEF d
  <2> QED
    BY <1>2, <2>2, <2>3
<1>4. Cardinality(1..d) = d
  <2> HIDE DEF d
  <2>1. Cardinality(1..d) = IF 1 > d THEN 0 ELSE d - 1 + 1
    BY <1>2, FS_Interval
  <2> QED
    BY <1>2, <2>1
<1> QED
  BY <1>1, <1>3, <1>4, FS_Subset

(* What is counted in a sequence, one element later.                       *)
LEMMA OneMore ==
    ASSUME NEW T, NEW seq \in Seq(T), NEW e \in T, NEW S, NEW new,
           S \subseteq 1..Len(seq), new \in {S, S \cup {Len(seq) + 1}}
    PROVE  /\ IsFiniteSet(S) /\ Cardinality(S) \in Nat
           /\ Cardinality(new) = IF new = S THEN Cardinality(S) ELSE Cardinality(S) + 1
<1>1. Len(seq) \in Nat
  BY LenProperties
<1>2. IsFiniteSet(S) /\ Cardinality(S) \in Nat
  BY <1>1, PlaceSetIsFinite
<1>3. Len(seq) + 1 \notin S
  BY <1>1
<1>4. Cardinality(S \cup {Len(seq) + 1}) = Cardinality(S) + 1
  BY <1>2, <1>3, FS_AddElement
<1> QED
  BY <1>2, <1>4

(* The requests that are kept are those within the window.                 *)
LEMMA KeptIs ==
    ASSUME BucketInv, NEW now \in Times
    PROVE  /\ Kept(now) \in Seq(Times) /\ InOrder(Kept(now))
           /\ \A k \in DOMAIN Kept(now) : \E l \in DOMAIN bucket : Kept(now)[k] = bucket[l]
           /\ \A h \in Int : h >= now - Window =>
                 Cardinality({k \in DOMAIN Kept(now) : Kept(now)[k] > h}) = Cardinality(Counted(h))
           /\ Len(Kept(now)) = Cardinality(Counted(now - Window))
<1> DEFINE n == Len(bucket)
           old == {k \in DOMAIN bucket : bucket[k] <= now - Window}
           d == Cardinality(old)
           kept == SubSeq(bucket, d + 1, n)
<1>1. /\ bucket \in Seq(Times) /\ InOrder(bucket) /\ n \in Nat /\ DOMAIN bucket = 1..n
      /\ now \in Int /\ Window \in Int
      /\ \A k \in 1..n : bucket[k] \in Int
  BY GatesConstants, LenProperties, ElementOfSeq DEF BucketInv, Times
<1>2. old = 1..d /\ d \in 0..n
  <2>1. old \in SUBSET (1..n)
    BY <1>1
  <2>2. \A k \in old : \A j \in 1..k : j \in old
    BY <1>1 DEF InOrder
  <2> HIDE DEF old
  <2> QED
    BY <1>1, <2>1, <2>2, BeginningIs, PlaceSetIsFinite
<1>3. kept = Kept(now)
  BY DEF Kept
<1>4. \A k \in 1..n : bucket[k] > now - Window <=> k > d
  <2>1. \A k \in 1..n : k \in old <=> k <= d
    BY <1>2
  <2>2. \A k \in 1..n : k \in old <=> bucket[k] <= now - Window
    BY <1>1
  <2> HIDE DEF old, d
  <2> QED
    BY <1>1, <1>2, <2>1, <2>2
<1> HIDE DEF old, d
<1>5. /\ kept \in Seq(Times) /\ Len(kept) = n - d /\ DOMAIN kept = 1..(n - d)
      /\ \A k \in 1..(n - d) : kept[k] = bucket[d + k]
  <2>1. d + 1 \in Int /\ n \in Int /\ d \in Int /\ d <= n
    BY <1>1, <1>2
  <2>2. \A i \in (d + 1)..n : bucket[i] \in Times
    <3>1. \A i \in (d + 1)..n : i \in 1..n
      BY <1>1, <1>2
    <3> QED
      BY <1>1, <3>1, ElementOfSeq
  <2> HIDE DEF n
  <2>3. /\ kept \in Seq(Times)
        /\ Len(kept) = IF d + 1 <= n THEN n - (d + 1) + 1 ELSE 0
        /\ \A i \in 1..(n - (d + 1) + 1) : kept[i] = bucket[d + 1 + i - 1]
    BY <2>1, <2>2, SubSeqProperties
  <2> HIDE DEF kept
  <2>4. Len(kept) = n - d
    BY <2>1, <2>3
  <2>5. DOMAIN kept = 1..(n - d)
    BY <2>3, <2>4, LenProperties
  <2>6. \A k \in 1..(n - d) : kept[k] = bucket[d + k]
    <3> TAKE k \in 1..(n - d)
    <3>1. k \in 1..(n - (d + 1) + 1) /\ d + 1 + k - 1 = d + k
      BY <2>1
    <3> QED
      BY <2>3, <3>1
  <2> QED
    BY <2>3, <2>4, <2>5, <2>6
<1> HIDE DEF kept
<1>6. \A k \in 1..(n - d) : d + k \in 1..n /\ kept[k] = bucket[d + k]
  BY <1>1, <1>2, <1>5
<1>7. InOrder(kept)
  <2> SUFFICES ASSUME NEW k \in 1..(n - d), NEW l \in 1..(n - d), k <= l
               PROVE  kept[k] <= kept[l]
    BY <1>5 DEF InOrder
  <2>1. d + k \in 1..n /\ d + l \in 1..n /\ kept[k] = bucket[d + k] /\ kept[l] = bucket[d + l]
    BY <1>6
  <2>2. d + k <= d + l
    BY <1>1, <1>2
  <2> HIDE DEF n
  <2> QED
    BY <1>1, <2>1, <2>2 DEF InOrder
<1>8. ASSUME NEW h \in Int, h >= now - Window
      PROVE  Cardinality({k \in DOMAIN kept : kept[k] > h}) = Cardinality(Counted(h))
  <2> DEFINE A == {k \in DOMAIN kept : kept[k] > h}
             f == [k \in A |-> d + k]
  <2>1. f \in [A -> Counted(h)]
    BY <1>1, <1>5, <1>6 DEF Counted
  <2>2. \A a, b \in A : f[a] = f[b] => a = b
    BY <1>1, <1>2, <1>5
  <2>3. \A l \in Counted(h) : \E k \in A : f[k] = l
    <3> SUFFICES ASSUME NEW l \in Counted(h)
                 PROVE  \E k \in A : f[k] = l
      OBVIOUS
    <3>1. l \in 1..n /\ bucket[l] > h
      BY <1>1 DEF Counted
    <3>2. l > d
      BY <1>1, <1>4, <1>8, <3>1
    <3>3. l - d \in 1..(n - d) /\ d + (l - d) = l
      BY <1>1, <1>2, <3>1, <3>2
    <3>4. l - d \in A
      BY <1>5, <1>6, <3>1, <3>3
    <3> QED
      BY <3>3, <3>4
  <2>4. IsFiniteSet(A)
    BY <1>1, <1>2, <1>5, PlaceSetIsFinite
  <2>5. ExistsBijection(A, Counted(h))
    <3> HIDE DEF A, f
    <3>1. f \in Bijection(A, Counted(h))
      BY <2>1, <2>2, <2>3 DEF Bijection, Injection, Surjection, IsInjective
    <3> QED
      BY <3>1 DEF ExistsBijection
  <2> QED
    BY <2>4, <2>5, FS_Bijection
<1>9. Len(kept) = Cardinality(Counted(now - Window))
  <2>1. now - Window \in Int /\ now - Window >= now - Window
    BY <1>1
  <2>2. {k \in DOMAIN kept : kept[k] > now - Window} = 1..(n - d)
    BY <1>1, <1>2, <1>4, <1>5, <1>6
  <2>3. Cardinality(1..(n - d)) = n - d
    <3> DEFINE m == n - d
    <3>1. m \in Nat
      BY <1>1, <1>2
    <3> HIDE DEF m
    <3>2. Cardinality(1..m) = IF 1 > m THEN 0 ELSE m - 1 + 1
      BY <3>1, FS_Interval
    <3>3. Cardinality(1..m) = m
      BY <3>1, <3>2
    <3> QED
      BY <3>3 DEF m
  <2> QED
    BY <1>5, <1>8, <2>1, <2>2, <2>3
<1> QED
  BY <1>1, <1>3, <1>5, <1>6, <1>7, <1>8, <1>9

(* The log after another entry.                                            *)
LEMMA WriteIs ==
    ASSUME LogInv, NEW what \in {"allowed", "refused", "success", "failure"}, NEW now \in Times,
           NoLater(now), Write(what, now)
    PROVE  /\ LogInv'
           /\ log' \in Seq(Events) /\ Len(log') = Len(log) + 1 /\ Len(log) \in Nat
           /\ DOMAIN log = 1..Len(log) /\ DOMAIN log' = 1..(Len(log) + 1)
           /\ \A k \in 1..Len(log) : log'[k] = log[k]
           /\ log'[Len(log) + 1].what = what /\ log'[Len(log) + 1].at = now
           /\ \A k \in 1..Len(log) : log[k].at \in Times
<1> DEFINE e == [what |-> what, at |-> now]
<1>1. e \in Events /\ log \in Seq(Events) /\ log' = Append(log, e)
  BY DEF Events, LogInv, Write
<1>2. /\ log' \in Seq(Events) /\ Len(log') = Len(log) + 1
      /\ \A k \in 1..Len(log) : log'[k] = log[k]
      /\ log'[Len(log) + 1] = e
  <2> HIDE DEF e
  <2> QED
    BY <1>1, AppendProperties
<1>3. Len(log) \in Nat /\ DOMAIN log = 1..Len(log) /\ DOMAIN log' = 1..(Len(log) + 1)
  BY <1>1, <1>2, LenProperties
<1>4. \A k \in 1..Len(log) : log[k].at \in Times
  <2> TAKE k \in 1..Len(log)
  <2>1. log[k] \in Events
    BY <1>1, ElementOfSeq
  <2> QED
    BY <2>1 DEF Events
<1>5. \A m, n \in DOMAIN log' : m <= n => log'[m].at <= log'[n].at
  <2> SUFFICES ASSUME NEW m \in 1..(Len(log) + 1), NEW n \in 1..(Len(log) + 1), m <= n
               PROVE  log'[m].at <= log'[n].at
    BY <1>3
  <2>1. CASE n \in 1..Len(log)
    <3>1. m \in 1..Len(log)
      BY <1>3, <2>1
    <3> QED
      BY <1>2, <1>3, <2>1, <3>1 DEF LogInv
  <2>2. CASE n = Len(log) + 1 /\ m \in 1..Len(log)
    BY <1>2, <1>3, <2>2 DEF NoLater
  <2>3. CASE n = Len(log) + 1 /\ m = n
    BY <1>2, <2>3 DEF Times
  <2> QED
    BY <1>3, <2>1, <2>2, <2>3
<1> QED
  BY <1>2, <1>3, <1>4, <1>5 DEF LogInv

LEMMA NoLaterIs ==
    ASSUME LogInv, NEW what \in {"allowed", "refused", "success", "failure"}, NEW now \in Times,
           NoLater(now), Write(what, now), NEW t \in Int, NoLater(t)'
    PROVE  t >= now /\ NoLater(t)
<1>1. /\ DOMAIN log = 1..Len(log) /\ DOMAIN log' = 1..(Len(log) + 1) /\ Len(log) \in Nat
      /\ \A k \in 1..Len(log) : log'[k] = log[k]
      /\ log'[Len(log) + 1].at = now
  BY WriteIs
<1>2. \A n \in 1..(Len(log) + 1) : log'[n].at <= t
  BY <1>1 DEF NoLater
<1>3. now \in Int
  BY GatesConstants DEF Times
<1>4. Len(log) + 1 \in 1..(Len(log) + 1) /\ \A n \in 1..Len(log) : n \in 1..(Len(log) + 1)
  BY <1>1
<1>5. now <= t
  BY <1>1, <1>2, <1>4
<1>6. NoLater(t)
  BY <1>1, <1>2, <1>4 DEF NoLater
<1> QED
  BY <1>3, <1>5, <1>6

LEMMA GrantedIs ==
    ASSUME LogInv, NEW what \in {"allowed", "refused", "success", "failure"}, NEW now \in Times,
           NoLater(now), Write(what, now), NEW h \in Int
    PROVE  /\ Granted(h) \subseteq 1..Len(log)
           /\ IsFiniteSet(Granted(h)) /\ Cardinality(Granted(h)) \in Nat
           /\ Granted(h)' = IF what = "allowed" /\ now > h THEN Granted(h) \cup {Len(log) + 1}
                            ELSE Granted(h)
           /\ Cardinality(Granted(h)') = IF what = "allowed" /\ now > h THEN Cardinality(Granted(h)) + 1
                                         ELSE Cardinality(Granted(h))
<1>1. /\ DOMAIN log = 1..Len(log) /\ DOMAIN log' = 1..(Len(log) + 1) /\ Len(log) \in Nat
      /\ \A k \in 1..Len(log) : log'[k] = log[k]
      /\ log'[Len(log) + 1].what = what /\ log'[Len(log) + 1].at = now
  BY WriteIs
<1>2. Granted(h) \subseteq 1..Len(log)
  BY <1>1 DEF Granted
<1>3. Granted(h)' = {m \in 1..(Len(log) + 1) : log'[m].what = "allowed" /\ log'[m].at > h}
  BY <1>1 DEF Granted
<1>4. 1..(Len(log) + 1) = 1..Len(log) \cup {Len(log) + 1} /\ Len(log) + 1 \notin 1..Len(log)
  BY <1>1
<1>5. Granted(h)' = IF what = "allowed" /\ now > h THEN Granted(h) \cup {Len(log) + 1} ELSE Granted(h)
  BY <1>1, <1>3, <1>4 DEF Granted
<1>6. IsFiniteSet(Granted(h)) /\ Cardinality(Granted(h)) \in Nat
  BY <1>1, <1>2, PlaceSetIsFinite
<1>7. Len(log) + 1 \notin Granted(h)
  BY <1>2, <1>4
<1>8. Cardinality(Granted(h) \cup {Len(log) + 1}) = Cardinality(Granted(h)) + 1
  BY <1>6, <1>7, FS_AddElement
<1> QED
  BY <1>2, <1>5, <1>6, <1>8

LEMMA InARowIs ==
    ASSUME LogInv, NEW what \in {"allowed", "refused", "success", "failure"}, NEW now \in Times,
           NoLater(now), Write(what, now)
    PROVE  /\ InARow \subseteq 1..Len(log)
           /\ IsFiniteSet(InARow) /\ Cardinality(InARow) \in Nat
           /\ what \in {"allowed", "refused"} => InARow' = InARow
           /\ what = "success" => InARow' = {}
           /\ what = "failure" => /\ InARow' = InARow \cup {Len(log) + 1}
                                  /\ Cardinality(InARow') = Cardinality(InARow) + 1
<1>1. /\ DOMAIN log = 1..Len(log) /\ DOMAIN log' = 1..(Len(log) + 1) /\ Len(log) \in Nat
      /\ Len(log') = Len(log) + 1
      /\ \A k \in 1..Len(log) : log'[k] = log[k]
      /\ log'[Len(log) + 1].what = what
  BY WriteIs
<1> DEFINE last == Len(log) + 1
<1>2. InARow \subseteq 1..Len(log)
  BY <1>1 DEF InARow
<1>3. InARow' = {k \in 1..last : log'[k].what = "failure" /\ \A j \in k..last : log'[j].what # "success"}
  BY <1>1 DEF InARow
<1>4. InARow = {k \in 1..Len(log) : log[k].what = "failure" /\ \A j \in k..Len(log) : log[j].what # "success"}
  BY <1>1 DEF InARow
<1>5. /\ 1..last = 1..Len(log) \cup {last} /\ last \notin 1..Len(log)
      /\ \A k \in 1..Len(log) : k..last = k..Len(log) \cup {last} /\ k..Len(log) \subseteq 1..Len(log)
      /\ last..last = {last}
  BY <1>1
<1> HIDE DEF last
<1>6. log'[last].what = what /\ \A k \in 1..Len(log) : log'[k] = log[k]
  BY <1>1 DEF last
<1>7. last \in InARow' <=> what = "failure"
  BY <1>3, <1>5, <1>6
<1>8. \A k \in 1..Len(log) : k \in InARow' <=> k \in InARow /\ what # "success"
  BY <1>3, <1>4, <1>5, <1>6
<1>9. InARow' \subseteq 1..Len(log) \cup {last}
  BY <1>3, <1>5
<1>10. IsFiniteSet(InARow) /\ Cardinality(InARow) \in Nat
  BY <1>1, <1>2, PlaceSetIsFinite
<1>11. last \notin InARow
  BY <1>2, <1>5
<1>12. Cardinality(InARow \cup {last}) = Cardinality(InARow) + 1
  BY <1>10, <1>11, FS_AddElement
<1>13. what \in {"allowed", "refused"} => InARow' = InARow
  BY <1>2, <1>7, <1>8, <1>9
<1>14. what = "success" => InARow' = {}
  BY <1>7, <1>8, <1>9
<1>15. what = "failure" => InARow' = InARow \cup {last}
  BY <1>2, <1>7, <1>8, <1>9
<1> QED
  BY <1>2, <1>10, <1>12, <1>13, <1>14, <1>15 DEF last

(* What was answered before stays right; so must be the answer that comes. *)
LEMMA LimiterGoesOn ==
    ASSUME LogInv, NEW what \in {"allowed", "refused", "success", "failure"}, NEW now \in Times,
           NoLater(now), Write(what, now), LimiterIsExact,
           what = "allowed" => MaxRequests = 0 \/ Cardinality(Granted(now - Window)) < MaxRequests,
           what = "refused" => ~(MaxRequests = 0 \/ Cardinality(Granted(now - Window)) < MaxRequests)
    PROVE  LimiterIsExact'
<1> DEFINE before(n) == {m \in 1..(n - 1) : log[m].what = "allowed" /\ log[m].at > log[n].at - Window}
           beforeNext(n) == {m \in 1..(n - 1) : log'[m].what = "allowed" /\ log'[m].at > log'[n].at - Window}
           last == Len(log) + 1
<1>1. /\ DOMAIN log = 1..Len(log) /\ DOMAIN log' = 1..last /\ Len(log) \in Nat
      /\ \A k \in 1..Len(log) : log'[k] = log[k]
      /\ log'[last].what = what /\ log'[last].at = now
  BY WriteIs
<1>2. ASSUME NEW n \in 1..Len(log)
      PROVE  beforeNext(n) = before(n) /\ log'[n] = log[n]
  <2>1. \A m \in 1..(n - 1) : m \in 1..Len(log)
    BY <1>1
  <2> QED
    BY <1>1, <2>1
<1>3. beforeNext(last) = Granted(now - Window)
  <2>1. last - 1 = Len(log)
    BY <1>1
  <2> HIDE DEF last
  <2> QED
    BY <1>1, <2>1 DEF Granted
<1>4. ASSUME NEW n \in 1..last
      PROVE  /\ log'[n].what = "allowed" => MaxRequests = 0 \/ Cardinality(beforeNext(n)) < MaxRequests
             /\ log'[n].what = "refused" => ~(MaxRequests = 0 \/ Cardinality(beforeNext(n)) < MaxRequests)
  <2>1. CASE n \in 1..Len(log)
    <3>1. /\ log[n].what = "allowed" => MaxRequests = 0 \/ Cardinality(before(n)) < MaxRequests
          /\ log[n].what = "refused" => ~(MaxRequests = 0 \/ Cardinality(before(n)) < MaxRequests)
      BY <1>1, <2>1 DEF LimiterIsExact
    <3>2. beforeNext(n) = before(n) /\ log'[n] = log[n]
      BY <1>2, <2>1
    <3> HIDE DEF before, beforeNext
    <3> QED
      BY <3>1, <3>2
  <2>2. CASE n = last
    <3> HIDE DEF beforeNext, last
    <3> QED
      BY <1>1, <1>3, <2>2
  <2> QED
    BY <1>1, <2>1, <2>2
<1> QED
  BY <1>1, <1>4 DEF LimiterIsExact

LEMMA KeptGoesOn ==
    ASSUME LogInv, BucketInv, NEW what \in {"allowed", "refused"}, NEW now \in Times, NoLater(now),
           Write(what, now), MaxRequests # 0,
           bucket' = IF what = "allowed" THEN Append(Kept(now), now) ELSE Kept(now)
    PROVE  BucketInv'
<1> DEFINE n == Len(Kept(now))
<1>1. /\ Kept(now) \in Seq(Times) /\ InOrder(Kept(now))
      /\ \A k \in DOMAIN Kept(now) : \E l \in DOMAIN bucket : Kept(now)[k] = bucket[l]
      /\ \A h \in Int : h >= now - Window =>
            Cardinality({k \in DOMAIN Kept(now) : Kept(now)[k] > h}) = Cardinality(Counted(h))
  BY KeptIs
<1>2. n \in Nat /\ DOMAIN Kept(now) = 1..n
  BY <1>1, LenProperties
<1>3. now \in Int /\ Window \in Int /\ \A t \in Times : t \in Int
  BY GatesConstants DEF Times
<1>4. \A k \in 1..n : Kept(now)[k] \in Times /\ Kept(now)[k] <= now
  <2>1. \A l \in DOMAIN bucket : bucket[l] <= now
    BY DEF BucketInv
  <2> QED
    BY <1>1, <1>2, <2>1, ElementOfSeq
<1>5. /\ bucket' \in Seq(Times)
      /\ \A k \in 1..n : bucket'[k] = Kept(now)[k]
      /\ what = "allowed" => Len(bucket') = n + 1 /\ bucket'[n + 1] = now
      /\ what = "refused" => Len(bucket') = n
  BY <1>1, AppendProperties
<1>6. DOMAIN bucket' = 1..(IF what = "allowed" THEN n + 1 ELSE n)
  BY <1>5, LenProperties
<1> HIDE DEF n
<1>7. \A k \in DOMAIN bucket' : k \in 1..n \/ (what = "allowed" /\ k = n + 1)
  BY <1>2, <1>6
<1>8. \A k \in DOMAIN bucket' : bucket'[k] \in Times /\ bucket'[k] <= now
  BY <1>3, <1>4, <1>5, <1>7
<1>9. InOrder(bucket')
  <2> SUFFICES ASSUME NEW k \in DOMAIN bucket', NEW l \in DOMAIN bucket', k <= l
               PROVE  bucket'[k] <= bucket'[l]
    BY DEF InOrder
  <2>1. CASE l \in 1..n
    <3>1. k \in 1..n
      BY <1>2, <1>7, <2>1
    <3> QED
      BY <1>1, <1>2, <1>5, <2>1, <3>1 DEF InOrder
  <2>2. CASE what = "allowed" /\ l = n + 1
    BY <1>5, <1>8, <2>2
  <2> QED
    BY <1>7, <2>1, <2>2
<1>10. ASSUME NEW t \in Times, NoLater(t)'
       PROVE  \A k \in DOMAIN bucket' : bucket'[k] <= t
  <2>1. t >= now
    BY <1>3, <1>10, NoLaterIs
  <2> TAKE k \in DOMAIN bucket'
  <2>2. bucket'[k] \in Int /\ bucket'[k] <= now /\ t \in Int
    BY <1>3, <1>8
  <2> QED
    BY <1>3, <2>1, <2>2
<1>11. ASSUME NEW h \in Int, NoLater(h + Window)'
       PROVE  Cardinality(Granted(h)') = Cardinality(Counted(h)')
  <2>1. h + Window \in Int
    BY <1>3
  <2>2. h + Window >= now /\ NoLater(h + Window)
    BY <1>11, <2>1, NoLaterIs
  <2>3. h >= now - Window
    BY <1>3, <2>2
  <2> DEFINE A == {k \in DOMAIN Kept(now) : Kept(now)[k] > h}
             new == {k \in DOMAIN bucket' : bucket'[k] > h}
  <2>4. Cardinality(A) = Cardinality(Counted(h)) /\ Cardinality(Granted(h)) = Cardinality(Counted(h))
    BY <1>1, <2>2, <2>3 DEF BucketInv
  <2>5. new = IF what = "allowed" /\ now > h THEN A \cup {n + 1} ELSE A
    <3>1. n + 1 \notin 1..n /\ \A k \in 1..n : k \in 1..(n + 1)
      BY <1>2
    <3>2. \A k \in new : k \in A \/ (what = "allowed" /\ now > h /\ k = n + 1)
      BY <1>2, <1>5, <1>7
    <3>3. \A k \in A : k \in new
      BY <1>2, <1>5, <1>6, <3>1
    <3>4. what = "allowed" /\ now > h => n + 1 \in new
      BY <1>2, <1>5, <1>6
    <3> HIDE DEF A, new
    <3> QED
      BY <3>2, <3>3, <3>4
  <2>6. A \subseteq 1..n
    BY <1>2
  <2> HIDE DEF A, new
  <2>7. IsFiniteSet(A) /\ Cardinality(A) \in Nat
    BY <1>2, <2>6, PlaceSetIsFinite
  <2>8. n + 1 \notin A
    BY <1>2, <2>6
  <2>9. Cardinality(A \cup {n + 1}) = Cardinality(A) + 1
    BY <2>7, <2>8, FS_AddElement
  <2>10. Cardinality(new) = Cardinality(Granted(h)')
    BY <2>4, <2>5, <2>7, <2>9, GrantedIs
  <2> QED
    BY <2>10 DEF Counted, new
<1> QED
  BY <1>5, <1>9, <1>10, <1>11 DEF BucketInv, InOrder

LEMMA BucketStays ==
    ASSUME LogInv, BucketInv, NEW what \in {"allowed", "refused", "success", "failure"},
           NEW now \in Times, NoLater(now), Write(what, now), UNCHANGED bucket,
           what = "allowed" => MaxRequests = 0
    PROVE  BucketInv'
<1>1. now \in Int /\ Window \in Int /\ \A t \in Times : t \in Int
  BY GatesConstants DEF Times
<1>2. ASSUME NEW t \in Times, NoLater(t)'
      PROVE  \A k \in DOMAIN bucket' : bucket'[k] <= t
  <2>1. t \in Int /\ NoLater(t)'
    BY <1>1, <1>2
  <2>2. NoLater(t)
    BY <2>1, NoLaterIs
  <2>3. \A k \in DOMAIN bucket : bucket[k] <= t
    BY <2>2 DEF BucketInv
  <2>4. bucket' = bucket
    OBVIOUS
  <2> QED
    BY <2>3, <2>4
<1>3. ASSUME NEW h \in Int, NoLater(h + Window)', MaxRequests # 0
      PROVE  Cardinality(Granted(h)') = Cardinality(Counted(h)')
  <2>1. h + Window \in Int
    BY <1>1
  <2>2. NoLater(h + Window)
    BY <1>3, <2>1, NoLaterIs
  <2>3. Cardinality(Granted(h)) = Cardinality(Counted(h))
    BY <1>3, <2>2 DEF BucketInv
  <2>4. Cardinality(Granted(h)') = Cardinality(Granted(h))
    BY <1>3, GrantedIs
  <2>5. Counted(h)' = Counted(h)
    BY DEF Counted
  <2> QED
    BY <2>3, <2>4, <2>5
<1>4. bucket' \in Seq(Times) /\ InOrder(bucket')
  BY DEF BucketInv
<1> QED
  BY <1>2, <1>3, <1>4 DEF BucketInv, InOrder

-----------------------------------------------------------------------------
LEMMA BreakerStays ==
    ASSUME LogInv, BreakerInv, NEW what \in {"allowed", "refused"}, NEW now \in Times,
           NoLater(now), Write(what, now), UNCHANGED breaker
    PROVE  BreakerInv'
<1>1. InARow' = InARow /\ InARow \subseteq 1..Len(log)
  BY InARowIs
<1>2. \A k \in 1..Len(log) : log'[k] = log[k]
  BY WriteIs
<1>3. \A k \in InARow : Opener(k)' <=> Opener(k)
  BY <1>1 DEF Opener
<1>4. breaker.failures >= FailureThreshold =>
          \E k \in InARow : Opener(k)' /\ breaker.openedAt = log'[k].at
  BY <1>1, <1>2, <1>3 DEF BreakerInv
<1> QED
  BY <1>1, <1>4 DEF BreakerInv

LEMMA BreakerCloses ==
    ASSUME LogInv, BreakerInv, NEW now \in Times, NoLater(now), RecordSuccess(now)
    PROVE  BreakerInv'
<1>1. InARow' = {}
  BY InARowIs DEF RecordSuccess
<1>2. Cardinality({}) = 0
  BY FS_EmptySet
<1>3. breaker' = [failures |-> 0, openedAt |-> NotOpened]
  BY DEF RecordSuccess, NewBreaker
<1> QED
  BY <1>1, <1>2, <1>3, GatesConstants DEF BreakerInv

LEMMA BreakerCounts ==
    ASSUME LogInv, BreakerInv, NEW now \in Times, NoLater(now), RecordFailure(now)
    PROVE  BreakerInv'
<1> DEFINE f == breaker.failures
<1>0. PICK last : last = Len(log) + 1
  OBVIOUS
<1>1. /\ InARow \subseteq 1..Len(log) /\ Cardinality(InARow) \in Nat
      /\ InARow' = InARow \cup {last} /\ Cardinality(InARow') = Cardinality(InARow) + 1
  BY <1>0, InARowIs DEF RecordFailure
<1>2. /\ \A k \in 1..Len(log) : log'[k] = log[k] /\ log[k].at \in Times
      /\ log'[last].at = now /\ Len(log) \in Nat
  BY <1>0, WriteIs DEF RecordFailure
<1>3. /\ f \in Nat /\ f = Cardinality(InARow)
      /\ f < FailureThreshold => breaker.openedAt = NotOpened
      /\ f >= FailureThreshold => \E k \in InARow : Opener(k) /\ breaker.openedAt = log[k].at
  BY <1>1 DEF BreakerInv
<1>4. /\ breaker'.failures = f + 1
      /\ breaker'.openedAt = IF f + 1 >= FailureThreshold /\ breaker.openedAt = NotOpened
                             THEN now ELSE breaker.openedAt
      /\ breaker' = [failures |-> breaker'.failures, openedAt |-> breaker'.openedAt]
  BY DEF RecordFailure
<1>5. FailureThreshold \in Nat /\ now \in Int /\ \A t \in Times : t # NotOpened
  BY GatesConstants DEF Times, NotOpened
<1>6. \A k \in InARow : Opener(k) => Opener(k)'
  <2> SUFFICES ASSUME NEW k \in InARow PROVE Opener(k) => Opener(k)'
    OBVIOUS
  <2>1. ~(last <= k)
    BY <1>0, <1>1, <1>2
  <2>2. {j \in InARow' : j <= k} = {j \in InARow : j <= k}
    BY <1>1, <2>1
  <2> QED
    BY <2>2 DEF Opener
<1>7. f + 1 = FailureThreshold => Opener(last)'
  <2>1. \A j \in InARow' : j <= last
    BY <1>0, <1>1, <1>2
  <2>2. {j \in InARow' : j <= last} = InARow'
    BY <2>1
  <2> QED
    BY <1>1, <1>3, <2>2 DEF Opener
<1>8. ASSUME f + 1 >= FailureThreshold
      PROVE  \E k \in InARow' : Opener(k)' /\ breaker'.openedAt = log'[k].at
  <2>1. CASE f < FailureThreshold
    <3>1. f + 1 = FailureThreshold /\ breaker'.openedAt = now
      BY <1>3, <1>4, <1>5, <1>8, <2>1
    <3> QED
      BY <1>1, <1>2, <1>7, <3>1
  <2>2. CASE f >= FailureThreshold
    <3>1. PICK k \in InARow : Opener(k) /\ breaker.openedAt = log[k].at
      BY <1>3, <2>2
    <3>2. k \in 1..Len(log) /\ log'[k] = log[k] /\ log[k].at \in Times
      BY <1>1, <1>2
    <3>3. breaker'.openedAt = log'[k].at
      BY <1>4, <1>5, <3>1, <3>2
    <3> QED
      BY <1>1, <1>6, <3>1, <3>3
  <2> QED
    BY <1>3, <1>5, <2>1, <2>2
<1>9. f + 1 < FailureThreshold => breaker'.openedAt = NotOpened
  BY <1>3, <1>4, <1>5
<1> HIDE DEF f
<1> QED
  BY <1>1, <1>3, <1>4, <1>8, <1>9 DEF BreakerInv

-----------------------------------------------------------------------------
LEMMA AllowKeeps ==
    ASSUME LogInv, BucketInv, LimiterIsExact, BreakerInv, NEW now \in Times, NoLater(now),
           Allow(now)
    PROVE  LogInv' /\ BucketInv' /\ LimiterIsExact' /\ BreakerInv'
<1>1. PICK what \in {"allowed", "refused"} :
        /\ Write(what, now) /\ UNCHANGED breaker
        /\ \/ /\ MaxRequests = 0 /\ what = "allowed" /\ UNCHANGED bucket
           \/ /\ MaxRequests # 0
              /\ what = "allowed" <=> Len(Kept(now)) < MaxRequests
              /\ bucket' = IF what = "allowed" THEN Append(Kept(now), now) ELSE Kept(now)
  <2>1. Kept(now) \in Seq(Times)
    BY KeptIs
  <2>2. Len(Kept(now)) \in Nat /\ MaxRequests \in Nat
    BY <2>1, LenProperties, GatesConstants
  <2>3. CASE MaxRequests = 0 /\ UNCHANGED bucket /\ Write("allowed", now)
    BY <2>3 DEF Allow
  <2>4. CASE /\ Len(Kept(now)) < MaxRequests
             /\ bucket' = Append(Kept(now), now) /\ Write("allowed", now)
    BY <2>2, <2>4 DEF Allow
  <2>5. CASE /\ MaxRequests # 0 /\ Len(Kept(now)) >= MaxRequests
             /\ bucket' = Kept(now) /\ Write("refused", now)
    BY <2>2, <2>5 DEF Allow
  <2> QED
    BY <2>3, <2>4, <2>5 DEF Allow
<1>2. LogInv' /\ BreakerInv'
  BY <1>1, WriteIs, BreakerStays
<1>3. BucketInv'
  <2>1. CASE MaxRequests = 0 /\ what = "allowed" /\ UNCHANGED bucket
    BY <1>1, <2>1, BucketStays
  <2>2. CASE /\ MaxRequests # 0
             /\ bucket' = IF what = "allowed" THEN Append(Kept(now), now) ELSE Kept(now)
    BY <1>1, <2>2, KeptGoesOn
  <2> QED
    BY <1>1, <2>1, <2>2
<1>4. MaxRequests # 0 => Cardinality(Granted(now - Window)) = Len(Kept(now))
  <2>1. now \in Int /\ Window \in Int
    BY GatesConstants DEF Times
  <2>2. now - Window \in Int /\ (now - Window) + Window = now
    BY <2>1
  <2>3. NoLater((now - Window) + Window)
    BY <2>2
  <2> QED
    BY <2>2, <2>3, KeptIs DEF BucketInv
<1>5. /\ what = "allowed" => MaxRequests = 0 \/ Cardinality(Granted(now - Window)) < MaxRequests
      /\ what = "refused" => ~(MaxRequests = 0 \/ Cardinality(Granted(now - Window)) < MaxRequests)
  BY <1>1, <1>4
<1>6. LimiterIsExact'
  BY <1>1, <1>5, LimiterGoesOn
<1> QED
  BY <1>2, <1>3, <1>6

LEMMA RecordKeeps ==
    ASSUME LogInv, BucketInv, LimiterIsExact, BreakerInv, NEW now \in Times, NoLater(now),
           RecordSuccess(now) \/ RecordFailure(now)
    PROVE  LogInv' /\ BucketInv' /\ LimiterIsExact' /\ BreakerInv'
<1>1. PICK what \in {"success", "failure"} : Write(what, now) /\ UNCHANGED bucket
  BY DEF RecordSuccess, RecordFailure
<1>2. LogInv'
  BY <1>1, WriteIs
<1>3. BucketInv'
  BY <1>1, BucketStays
<1>4. LimiterIsExact'
  BY <1>1, LimiterGoesOn
<1>5. BreakerInv'
  BY BreakerCloses, BreakerCounts
<1> QED
  BY <1>2, <1>3, <1>4, <1>5

(* Of the failures in a row only one is the one too many.                  *)
LEMMA OneOpener ==
    ASSUME LogInv, NEW k \in InARow, NEW l \in InARow, Opener(k), Opener(l)
    PROVE  k = l
<1>1. DOMAIN log = 1..Len(log) /\ Len(log) \in Nat
  BY LenProperties DEF LogInv
<1>2. InARow \subseteq 1..Len(log)
  BY <1>1 DEF InARow
<1>3. ASSUME NEW a \in InARow, NEW b \in InARow, a < b
      PROVE  ~(Opener(a) /\ Opener(b))
  <2> DEFINE A == {j \in InARow : j <= a}
             B == {j \in InARow : j <= b}
  <2>1. a \in Int /\ b \in Int /\ \A j \in InARow : j \in Int
    BY <1>2
  <2>2. A \cup {b} \subseteq B /\ b \notin A /\ A \subseteq 1..Len(log) /\ B \subseteq 1..Len(log)
    <3>1. \A j \in A : j \in B
      BY <1>3, <2>1
    <3>2. b \in B /\ b \notin A
      BY <1>3, <2>1
    <3>3. A \subseteq InARow /\ B \subseteq InARow
      OBVIOUS
    <3> HIDE DEF A, B
    <3> QED
      BY <1>2, <3>1, <3>2, <3>3
  <2> HIDE DEF A, B
  <2>3. IsFiniteSet(A) /\ IsFiniteSet(B) /\ Cardinality(A) \in Nat /\ Cardinality(B) \in Nat
    BY <1>1, <2>2, PlaceSetIsFinite
  <2>4. Cardinality(A \cup {b}) = Cardinality(A) + 1
    BY <2>2, <2>3, FS_AddElement
  <2>5. Cardinality(A \cup {b}) <= Cardinality(B)
    BY <2>2, <2>3, FS_Subset
  <2>6. Cardinality(A) # Cardinality(B)
    BY <2>3, <2>4, <2>5
  <2> QED
    BY <2>6 DEF Opener, A, B
<1>4. k \in Int /\ l \in Int
  BY <1>2
<1> QED
  BY <1>3, <1>4

LEMMA BreakerIsExactThen ==
    ASSUME LogInv, BreakerInv
    PROVE  BreakerIsExact
<1> SUFFICES ASSUME NEW now \in 0..(MaxTime + Recovery), NoLater(now)
             PROVE  ~LetsThrough(now) <=> \E k \in InARow : Opener(k) /\ now - log[k].at < Recovery
  BY DEF BreakerIsExact, NoLater, InARow, Opener
<1>1. DOMAIN log = 1..Len(log) /\ Len(log) \in Nat /\ \A k \in 1..Len(log) : log[k].at \in Times
  <2>1. DOMAIN log = 1..Len(log) /\ Len(log) \in Nat
    BY LenProperties DEF LogInv
  <2>2. \A k \in 1..Len(log) : log[k] \in Events
    BY ElementOfSeq DEF LogInv
  <2> QED
    BY <2>1, <2>2 DEF Events
<1>2. InARow \subseteq 1..Len(log)
  BY <1>1 DEF InARow
<1>3. IsFiniteSet(InARow) /\ Cardinality(InARow) \in Nat
  BY <1>1, <1>2, PlaceSetIsFinite
<1>4. now \in Int /\ Recovery \in Nat /\ FailureThreshold \in Nat /\ \A t \in Times : t \in Int /\ t # NotOpened
  BY GatesConstants DEF Times, NotOpened
<1>5. CASE breaker.failures < FailureThreshold
  <2>1. LetsThrough(now)
    BY <1>5 DEF BreakerInv, LetsThrough
  <2>2. ASSUME NEW k \in InARow
        PROVE  ~Opener(k)
    <3> DEFINE A == {j \in InARow : j <= k}
    <3>1. A \subseteq InARow
      OBVIOUS
    <3> HIDE DEF A
    <3>2. Cardinality(A) <= Cardinality(InARow)
      BY <1>3, <3>1, FS_Subset
    <3>3. Cardinality(A) \in Nat
      BY <1>3, <3>1, FS_Subset, FS_CardinalityType
    <3>4. Cardinality(A) # FailureThreshold
      BY <1>3, <1>4, <1>5, <3>2, <3>3 DEF BreakerInv
    <3> QED
      BY <3>4 DEF Opener, A
  <2> QED
    BY <2>1, <2>2
<1>6. CASE breaker.failures >= FailureThreshold
  <2>1. PICK k \in InARow : Opener(k) /\ breaker.openedAt = log[k].at
    BY <1>6 DEF BreakerInv
  <2>2. log[k].at \in Times
    BY <1>1, <1>2
  <2>3. ~LetsThrough(now) <=> now - log[k].at < Recovery
    BY <1>4, <2>1, <2>2 DEF LetsThrough
  <2>4. \A l \in InARow : Opener(l) => l = k
    BY <2>1, OneOpener
  <2> QED
    BY <2>1, <2>3, <2>4
<1> QED
  BY <1>3, <1>4, <1>5, <1>6 DEF BreakerInv

(* The limiter refuses a request exactly if as many as are allowed came in *)
(* the window before it, and the breaker refuses exactly during the        *)
(* recovery, for every limit, window and threshold and any order of calls  *)
(* (InputGates.GatesAreExact).                                             *)
THEOREM GatesStayExact == GatesSpec => []GatesAreExact
<1>1. GatesInit => GatesInv
  <2> SUFFICES ASSUME GatesInit PROVE GatesInv
    OBVIOUS
  <2>1. log = <<>> /\ bucket = <<>> /\ breaker = [failures |-> 0, openedAt |-> NotOpened]
    BY DEF GatesInit, NewBreaker
  <2>2. /\ log \in Seq(Events) /\ bucket \in Seq(Times)
        /\ DOMAIN log = {} /\ DOMAIN bucket = {}
    BY <2>1, EmptySeq, LenProperties
  <2>3. Cardinality({}) = 0
    BY FS_EmptySet
  <2>4. InARow = {} /\ \A h \in Int : Granted(h) = {} /\ Counted(h) = {}
    BY <2>2 DEF InARow, Granted, Counted
  <2>5. LogInv /\ LimiterIsExact
    BY <2>2 DEF LogInv, LimiterIsExact
  <2>6. BucketInv
    BY <2>2, <2>4 DEF BucketInv, InOrder
  <2>7. BreakerInv
    BY <2>1, <2>3, <2>4, GatesConstants DEF BreakerInv
  <2> QED
    BY <2>5, <2>6, <2>7 DEF GatesInv
<1>2. GatesInv /\ [GatesNext]_gates => GatesInv'
  <2> SUFFICES ASSUME GatesInv, [GatesNext]_gates PROVE GatesInv'
    OBVIOUS
  <2>1. CASE GatesNext
    <3>1. PICK now \in Times : /\ log # <<>> => now >= log[Len(log)].at
                               /\ Allow(now) \/ RecordSuccess(now) \/ RecordFailure(now)
      BY <2>1 DEF GatesNext, Times
    <3>2. NoLater(now)
      <4>1. DOMAIN log = 1..Len(log) /\ Len(log) \in Nat
        BY LenProperties DEF GatesInv, LogInv
      <4> SUFFICES ASSUME NEW n \in 1..Len(log) PROVE log[n].at <= now
        BY <4>1 DEF NoLater
      <4>2. Len(log) \in 1..Len(log) /\ n <= Len(log)
        BY <4>1
      <4>3. log # <<>>
        BY <4>2
      <4>4. log[n].at <= log[Len(log)].at
        BY <4>1, <4>2 DEF GatesInv, LogInv
      <4>5. log[n] \in Events /\ log[Len(log)] \in Events
        BY <4>2, ElementOfSeq DEF GatesInv, LogInv
      <4>6. log[n].at \in Int /\ log[Len(log)].at \in Int /\ now \in Int
        BY <4>5, GatesConstants DEF Events, Times
      <4> QED
        BY <3>1, <4>3, <4>4, <4>6
    <3> QED
      BY <3>1, <3>2, AllowKeeps, RecordKeeps DEF GatesInv
  <2>2. CASE UNCHANGED gates
    <3>1. bucket' = bucket /\ breaker' = breaker /\ log' = log
      BY <2>2 DEF gates
    <3>2. LogInv' /\ LimiterIsExact'
      BY <3>1 DEF GatesInv, LogInv, LimiterIsExact
    <3>3. BucketInv'
      BY <3>1 DEF GatesInv, BucketInv, InOrder, NoLater, Granted, Counted
    <3>4. BreakerInv'
      BY <3>1 DEF GatesInv, BreakerInv, InARow, Opener
    <3> QED
      BY <3>2, <3>3, <3>4 DEF GatesInv
  <2> QED
    BY <2>1, <2>2
<1>3. GatesInv => GatesAreExact
  BY BreakerIsExactThen DEF GatesInv, GatesAreExact
<1> QED
  BY <1>1, <1>2, <1>3, PTL DEF GatesSpec
=============================================================================
