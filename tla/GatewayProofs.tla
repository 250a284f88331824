---------------------------- MODULE GatewayProofs ----------------------------
(***************************************************************************)
(* Proofs about the gateway.  Of its circuit breakers, for any number of   *)
(* requests and any threshold, backoff, probe quota and number of retries. *)
(* Of its tasks, for any number of them, of rooms, of tokens and of        *)
(* restarts: the hub stays sound, and nobody passes a verification with a  *)
(* token that has been revoked.                                            *)
(***************************************************************************)
EXTENDS GatewayForwarder, GatewayTasks,
        FiniteSetTheorems, SequenceTheorems, WellFoundedInduction, TLAPS

-----------------------------------------------------------------------------
(* The circuit breaker.                                                    *)

(* A saturating counter stays within its bound. *)
LEMMA UpToBounds ==
    ASSUME NEW cap \in Nat, NEW n \in Nat
    PROVE  UpTo(cap, n) \in 0..cap
BY DEF UpTo

LEMMA CapsAreNat == AgeCap \in Nat /\ TripCap \in Nat
BY ForwarderAssumption DEF AgeCap, TripCap

(* The doubled backoff is one the clock can reach. *)
LEMMA BackoffBounds ==
    ASSUME recovery \in 0..AgeCap
    PROVE  Backoff \in 0..AgeCap
<1>1. 2 * recovery \in Nat /\ MaxRecovery \in Nat
  BY CapsAreNat, ForwarderAssumption
<1>2. Backoff \in 0..MaxRecovery
  BY <1>1, UpToBounds DEF Backoff
<1>3. MaxRecovery <= AgeCap
  BY ForwarderAssumption DEF AgeCap
<1> QED
  BY <1>1, <1>2, <1>3, CapsAreNat

-----------------------------------------------------------------------------
(* Type correctness, one step per operation of the breaker first.          *)

BreakerTypeOK ==
    /\ state \in States
    /\ failureCount \in 0..Threshold
    /\ age \in NotOpened..AgeCap
    /\ halfOpenCalls \in 0..HalfOpenMax
    /\ recovery \in 0..AgeCap
    /\ probes \in SUBSET Requests
    /\ trips \in 0..TripCap

LEMMA CloseType == CloseCircuit => BreakerTypeOK'
BY CapsAreNat, ForwarderAssumption
   DEF CloseCircuit, BreakerTypeOK, States, NotOpened, AgeCap

LEMMA TripType ==
    ASSUME BreakerTypeOK, Trip, failureCount' \in 0..Threshold
    PROVE  BreakerTypeOK'
<1>1. recovery' \in 0..AgeCap
  BY BackoffBounds DEF BreakerTypeOK, Trip
<1>2. trips' \in 0..TripCap
  BY UpToBounds, CapsAreNat DEF BreakerTypeOK, Trip
<1> QED
  BY <1>1, <1>2, CapsAreNat, ForwarderAssumption
     DEF BreakerTypeOK, Trip, States, NotOpened

LEMMA AllowType ==
    ASSUME NEW r \in Requests, BreakerTypeOK, Allow(r)
    PROVE  BreakerTypeOK'
<1>1. CASE AllowClosed
  BY <1>1 DEF AllowClosed, BreakerTypeOK, breakerVars, historyVars
<1>2. CASE FirstProbe(r)
  BY <1>2, CapsAreNat, ForwarderAssumption
     DEF FirstProbe, BreakerTypeOK, States, NotOpened
<1>3. CASE NextProbe(r)
  BY <1>3, ForwarderAssumption DEF NextProbe, TakeProbe, BreakerTypeOK
<1> QED
  BY <1>1, <1>2, <1>3 DEF Allow

LEMMA RecordSuccessType ==
    ASSUME NEW r \in Requests, BreakerTypeOK, RecordSuccess(r)
    PROVE  BreakerTypeOK'
<1>1. CASE CloseCircuit
  BY <1>1, CloseType
<1>2. CASE Settle(r, TRUE) /\ UNCHANGED <<breakerVars, trips>>
  BY <1>2 DEF BreakerTypeOK, Settle, breakerVars
<1>3. CASE /\ failureCount' = 0
           /\ UNCHANGED <<state, age, halfOpenCalls, recovery, historyVars>>
  BY <1>3, ForwarderAssumption DEF BreakerTypeOK, historyVars
<1>4. CASE UNCHANGED <<breakerVars, historyVars>>
  BY <1>4 DEF BreakerTypeOK, breakerVars, historyVars
<1> QED
  BY <1>1, <1>2, <1>3, <1>4 DEF RecordSuccess

LEMMA RecordFailureType ==
    ASSUME NEW r \in Requests, NEW done \in BOOLEAN,
           BreakerTypeOK, RecordFailure(r, done)
    PROVE  BreakerTypeOK'
<1>1. failureCount' \in 0..Threshold
  BY UpToBounds, ForwarderAssumption DEF RecordFailure, BreakerTypeOK
<1>2. CASE Trip
  BY <1>1, <1>2, TripType
<1>3. CASE /\ Settle(r, done)
           /\ UNCHANGED <<state, age, halfOpenCalls, recovery, trips>>
  BY <1>1, <1>3 DEF BreakerTypeOK, Settle
<1> QED
  BY <1>2, <1>3 DEF RecordFailure

LEMMA InitType == ForwarderInit => ForwarderTypeOK
BY CapsAreNat, ForwarderAssumption
   DEF ForwarderInit, ForwarderTypeOK, States, NotOpened, AgeCap

LEMMA TypeStep == ForwarderTypeOK /\ [ForwarderNext]_forwarderVars => ForwarderTypeOK'
<1> SUFFICES ASSUME ForwarderTypeOK, [ForwarderNext]_forwarderVars
             PROVE  ForwarderTypeOK'
  OBVIOUS
<1> DEFINE CallTypeOK == /\ place \in [Requests -> {"idle", "sending"}]
                         /\ attempt \in [Requests -> 0..MaxRetries]
<1>1. BreakerTypeOK /\ CallTypeOK
  BY DEF ForwarderTypeOK, BreakerTypeOK
<1>2. BreakerTypeOK' /\ CallTypeOK' => ForwarderTypeOK'
  BY DEF ForwarderTypeOK, BreakerTypeOK
<1>3. ASSUME NEW r \in Requests, Arrive(r)
      PROVE  BreakerTypeOK' /\ CallTypeOK'
  <2>1. BreakerTypeOK'
    BY <1>1, <1>3, AllowType DEF Arrive
  <2>2. CallTypeOK'
    BY <1>1, <1>3, ForwarderAssumption DEF Arrive
  <2> QED
    BY <2>1, <2>2
<1>4. ASSUME NEW r \in Requests, AnswerOk(r)
      PROVE  BreakerTypeOK' /\ CallTypeOK'
  <2>1. BreakerTypeOK'
    BY <1>1, <1>4, RecordSuccessType DEF AnswerOk
  <2>2. CallTypeOK'
    BY <1>1, <1>4 DEF AnswerOk
  <2> QED
    BY <2>1, <2>2
<1>5. ASSUME NEW r \in Requests, AnswerFailure(r)
      PROVE  BreakerTypeOK' /\ CallTypeOK'
  <2>1. BreakerTypeOK'
    <3> DEFINE done == attempt[r] >= MaxRetries
    <3>1. done \in BOOLEAN /\ RecordFailure(r, done)
      BY <1>5 DEF AnswerFailure
    <3> HIDE DEF done
    <3> QED
      BY <1>1, <3>1, RecordFailureType
  <2>2. CallTypeOK'
    BY <1>1, <1>5, ForwarderAssumption DEF AnswerFailure
  <2> QED
    BY <2>1, <2>2
<1>6. ASSUME NEW r \in Requests, Escape(r)
      PROVE  BreakerTypeOK' /\ CallTypeOK'
  BY <1>1, <1>6 DEF Escape, Settle, BreakerTypeOK, breakerVars
<1>7. CASE AdminReset
  BY <1>1, <1>2, <1>7, CloseType DEF AdminReset, callVars
<1>8. CASE Tick
  BY <1>1, <1>2, <1>8, CapsAreNat
     DEF Tick, BreakerTypeOK, NotOpened, callVars, historyVars
<1>9. CASE UNCHANGED forwarderVars
  BY <1>1, <1>2, <1>9 DEF forwarderVars, breakerVars, callVars, historyVars, BreakerTypeOK
<1> QED
  BY <1>2, <1>3, <1>4, <1>5, <1>6, <1>7, <1>8, <1>9 DEF ForwarderNext

(* Every reachable state is well typed: no counter of the breaker leaves   *)
(* its bound, whatever order admissions, retries and late results come in. *)
THEOREM Typing == ForwarderSpec => []ForwarderTypeOK
BY InitType, TypeStep, PTL DEF ForwarderSpec

-----------------------------------------------------------------------------
(***************************************************************************)
(* The safety invariants.  ProbeQuota is not inductive alone: a request    *)
(* that leaves while the circuit is not half-open must not be a probe, so  *)
(* the probes of an episode must be forgotten with it.                     *)
(***************************************************************************)
NoStrayProbes == state # "half_open" => probes = {} /\ halfOpenCalls = 0

ForwarderInv ==
    /\ ForwarderTypeOK
    /\ OpenIffStamped
    /\ ClosedIsFresh
    /\ NoStrayProbes
    /\ ProbeQuota

(* What an operation of the breaker does to the parts of ForwarderInv that concern *)
(* the breaker alone.                                                      *)
BreakerInv ==
    /\ OpenIffStamped
    /\ ClosedIsFresh
    /\ NoStrayProbes
    /\ Cardinality(probes) <= halfOpenCalls

LEMMA ProbesFinite ==
    ASSUME NEW S \in SUBSET Requests
    PROVE  IsFiniteSet(S) /\ Cardinality(S) \in Nat
BY FS_Subset, FS_CardinalityType, ForwarderAssumption

LEMMA EmptyCard == Cardinality({}) = 0
BY FS_EmptySet

(* A call that leaves takes at most itself out of the probes in flight.    *)
LEMMA LeaveCard ==
    ASSUME NEW r \in Requests, NEW done \in BOOLEAN,
           probes \in SUBSET Requests, Settle(r, done)
    PROVE  Cardinality(probes') <= Cardinality(probes)
<1>1. probes' \subseteq probes
  BY DEF Settle
<1> QED
  BY <1>1, FS_Subset, ProbesFinite

LEMMA TripSafe ==
    ASSUME Trip
    PROVE  BreakerInv'
BY EmptyCard DEF Trip, BreakerInv, OpenIffStamped, ClosedIsFresh, NoStrayProbes, NotOpened

LEMMA CloseSafe ==
    ASSUME CloseCircuit
    PROVE  BreakerInv'
BY EmptyCard, ForwarderAssumption
   DEF CloseCircuit, BreakerInv, OpenIffStamped, ClosedIsFresh, NoStrayProbes, NotOpened

LEMMA AllowSafe ==
    ASSUME NEW r \in Requests, BreakerTypeOK, BreakerInv, Allow(r)
    PROVE  BreakerInv' /\ probes' \subseteq probes \cup {r}
<1>1. CASE AllowClosed
  BY <1>1 DEF AllowClosed, BreakerInv, OpenIffStamped, ClosedIsFresh, NoStrayProbes,
              breakerVars, historyVars
<1>2. CASE FirstProbe(r)
  <2>1. Cardinality({r}) = 1
    BY FS_Singleton
  <2> QED
    BY <1>2, <2>1
       DEF FirstProbe, BreakerInv, OpenIffStamped, ClosedIsFresh, NoStrayProbes, NotOpened
<1>3. CASE NextProbe(r)
  <2>1. Cardinality(probes \cup {r}) <= Cardinality(probes) + 1
    BY FS_AddElement, ProbesFinite DEF BreakerTypeOK
  <2>2. Cardinality(probes \cup {r}) \in Nat /\ Cardinality(probes) \in Nat
    BY ProbesFinite DEF BreakerTypeOK
  <2>3. Cardinality(probes') <= halfOpenCalls'
    BY <1>3, <2>1, <2>2 DEF NextProbe, TakeProbe, BreakerInv, BreakerTypeOK
  <2> QED
    BY <1>3, <2>3
       DEF NextProbe, TakeProbe, BreakerInv, OpenIffStamped, ClosedIsFresh, NoStrayProbes
<1> QED
  BY <1>1, <1>2, <1>3 DEF Allow

LEMMA RecordSuccessSafe ==
    ASSUME NEW r \in Requests, BreakerTypeOK, BreakerInv, RecordSuccess(r)
    PROVE  /\ BreakerInv'
           /\ probes' \subseteq probes
           /\ r \notin probes'
<1>1. CASE CloseCircuit
  BY <1>1, CloseSafe DEF CloseCircuit
<1>2. CASE /\ state = "half_open"
           /\ Settle(r, TRUE)
           /\ UNCHANGED <<breakerVars, trips>>
  <2>1. Cardinality(probes') <= Cardinality(probes)
    BY <1>2, LeaveCard DEF BreakerTypeOK
  <2>2. probes' = probes \ {r} /\ probes \in SUBSET Requests /\ probes' \in SUBSET Requests
    BY <1>2 DEF Settle, BreakerTypeOK
  <2>3. Cardinality(probes) \in Nat /\ Cardinality(probes') \in Nat
    BY <2>2, ProbesFinite
  <2>4. Cardinality(probes') <= halfOpenCalls'
    BY <1>2, <2>1, <2>3 DEF BreakerInv, BreakerTypeOK, breakerVars
  <2> QED
    BY <1>2, <2>2, <2>4
       DEF BreakerInv, OpenIffStamped, ClosedIsFresh, NoStrayProbes, breakerVars
<1>3. CASE /\ state = "closed"
           /\ failureCount' = 0
           /\ UNCHANGED <<state, age, halfOpenCalls, recovery, historyVars>>
  BY <1>3, ForwarderAssumption
     DEF BreakerInv, OpenIffStamped, ClosedIsFresh, NoStrayProbes, historyVars
<1>4. CASE /\ state = "open"
           /\ UNCHANGED <<breakerVars, historyVars>>
  BY <1>4 DEF BreakerInv, OpenIffStamped, ClosedIsFresh, NoStrayProbes,
              breakerVars, historyVars
<1> QED
  BY <1>1, <1>2, <1>3, <1>4 DEF RecordSuccess

LEMMA RecordFailureSafe ==
    ASSUME NEW r \in Requests, NEW done \in BOOLEAN,
           BreakerTypeOK, BreakerInv, RecordFailure(r, done)
    PROVE  /\ BreakerInv'
           /\ probes' = {}
<1>1. CASE Trip
  BY <1>1, TripSafe DEF Trip
<1>2. CASE /\ \/ state = "open"
              \/ state = "closed" /\ failureCount' < Threshold
           /\ Settle(r, done)
           /\ UNCHANGED <<state, age, halfOpenCalls, recovery, trips>>
  <2>1. probes' = {}
    BY <1>2 DEF Settle, BreakerInv, NoStrayProbes
  <2> QED
    BY <1>2, <2>1, EmptyCard
       DEF BreakerInv, OpenIffStamped, ClosedIsFresh, NoStrayProbes, BreakerTypeOK
<1> QED
  BY <1>1, <1>2 DEF RecordFailure

LEMMA Inductive == ForwarderInv /\ [ForwarderNext]_forwarderVars => ForwarderInv'
<1> SUFFICES ASSUME ForwarderInv, [ForwarderNext]_forwarderVars
             PROVE  ForwarderInv'
  OBVIOUS
<1> DEFINE InFlight == \A r \in probes : place[r] = "sending"
<1>1. BreakerTypeOK /\ BreakerInv /\ InFlight /\ place \in [Requests -> {"idle", "sending"}]
  BY DEF ForwarderInv, ForwarderTypeOK, BreakerTypeOK, BreakerInv, ProbeQuota
<1>2. ForwarderTypeOK'
  BY TypeStep DEF ForwarderInv
<1>3. BreakerInv' /\ InFlight' => ForwarderInv'
  BY <1>2 DEF ForwarderInv, ForwarderTypeOK, BreakerInv, ProbeQuota
<1>4. ASSUME NEW r \in Requests, Arrive(r)
      PROVE  BreakerInv' /\ InFlight'
  <2>1. BreakerInv' /\ probes' \subseteq probes \cup {r}
    BY <1>1, <1>4, AllowSafe DEF Arrive
  <2> QED
    BY <1>1, <1>4, <2>1 DEF Arrive
<1>5. ASSUME NEW r \in Requests, AnswerOk(r)
      PROVE  BreakerInv' /\ InFlight'
  <2>1. BreakerInv' /\ probes' \subseteq probes /\ r \notin probes'
    BY <1>1, <1>5, RecordSuccessSafe DEF AnswerOk
  <2>2. \A q \in probes' : place'[q] = place[q]
    BY <1>1, <1>5, <2>1 DEF AnswerOk
  <2> QED
    BY <1>1, <2>1, <2>2
<1>6. ASSUME NEW r \in Requests, AnswerFailure(r)
      PROVE  BreakerInv' /\ InFlight'
  <2> DEFINE done == attempt[r] >= MaxRetries
  <2>1. done \in BOOLEAN /\ RecordFailure(r, done)
    BY <1>6 DEF AnswerFailure
  <2> HIDE DEF done
  <2> QED
    BY <1>1, <2>1, RecordFailureSafe
<1>7. ASSUME NEW r \in Requests, Escape(r)
      PROVE  BreakerInv' /\ InFlight'
  <2>1. Cardinality(probes') <= Cardinality(probes)
    BY <1>1, <1>7, LeaveCard DEF Escape, BreakerTypeOK
  <2>2. probes' = probes \ {r} /\ probes \in SUBSET Requests /\ probes' \in SUBSET Requests
    BY <1>1, <1>7 DEF Escape, Settle, BreakerTypeOK
  <2>3. Cardinality(probes) \in Nat /\ Cardinality(probes') \in Nat
    BY <2>2, ProbesFinite
  <2>4. Cardinality(probes') <= halfOpenCalls'
    BY <1>1, <1>7, <2>1, <2>3 DEF Escape, BreakerInv, BreakerTypeOK, breakerVars
  <2>5. InFlight'
    BY <1>1, <1>7, <2>2 DEF Escape
  <2> QED
    BY <1>1, <1>7, <2>2, <2>4, <2>5
       DEF Escape, BreakerInv, OpenIffStamped, ClosedIsFresh, NoStrayProbes, breakerVars
<1>8. CASE AdminReset
  BY <1>3, <1>8, CloseSafe DEF AdminReset, CloseCircuit
<1>9. CASE Tick
  <2>1. BreakerInv'
    BY <1>1, <1>9 DEF Tick, BreakerInv, BreakerTypeOK, OpenIffStamped, ClosedIsFresh,
                      NoStrayProbes, NotOpened, callVars, historyVars
  <2> QED
    BY <1>1, <1>3, <1>9, <2>1 DEF Tick, callVars, historyVars
<1>10. CASE UNCHANGED forwarderVars
  BY <1>1, <1>3, <1>10 DEF forwarderVars, breakerVars, callVars, historyVars, BreakerInv,
                           OpenIffStamped, ClosedIsFresh, NoStrayProbes
<1> QED
  BY <1>3, <1>4, <1>5, <1>6, <1>7, <1>8, <1>9, <1>10 DEF ForwarderNext

(* Whatever order admissions, late results, retries, escapes and resets    *)
(* come in, ForwarderInv holds; the theorems below read its parts off.             *)
THEOREM Safety == ForwarderSpec => []ForwarderInv
<1>1. ForwarderInit => ForwarderInv
  <2>1. ForwarderInit => ForwarderTypeOK
    BY InitType
  <2>2. ForwarderInit => /\ OpenIffStamped /\ ClosedIsFresh /\ NoStrayProbes
                /\ halfOpenCalls = 0 /\ probes = {}
    BY ForwarderAssumption
       DEF ForwarderInit, OpenIffStamped, ClosedIsFresh, NoStrayProbes, NotOpened
  <2> QED
    BY <2>1, <2>2, EmptyCard, ForwarderAssumption DEF ForwarderInv, ProbeQuota
<1> QED
  BY <1>1, Inductive, PTL DEF ForwarderSpec

(* The breaker's fields keep their types and bounds; allow()'s assertion   *)
(* that an open circuit has its opening time holds; and a closed circuit   *)
(* has the base backoff and room for a failure.                            *)
THEOREM ConsistentAlways == ForwarderSpec => []Consistent
<1>1. ForwarderInv => Consistent
  BY DEF ForwarderInv, Consistent
<1> QED
  BY <1>1, Safety, PTL

(* A half-open circuit never has more probes in flight than its quota.     *)
THEOREM QuotaIsKept == ForwarderSpec => []ProbeQuota
<1>1. ForwarderInv => ProbeQuota
  BY DEF ForwarderInv
<1> QED
  BY <1>1, Safety, PTL

(* With a base recovery no larger than the maximum, no step of an outage   *)
(* shortens the wait.                                                      *)
THEOREM BackoffNeverShrinks ==
    ASSUME BaseRecovery <= MaxRecovery
    PROVE  ForwarderSpec => OutageBackoff
<1>1. ForwarderInv /\ [ForwarderNext]_forwarderVars
         => [state' # "closed" => recovery' >= recovery]_forwarderVars
  <2> SUFFICES ASSUME ForwarderInv, ForwarderNext, state' # "closed"
               PROVE  recovery' >= recovery
    OBVIOUS
  <2>1. recovery \in Nat /\ recovery <= MaxRecovery
    BY ForwarderAssumption DEF ForwarderInv, ForwarderTypeOK, AgeCap
  <2>2. Trip => recovery' >= recovery
    BY <2>1, ForwarderAssumption DEF Trip, Backoff, UpTo
  <2>3. ASSUME NEW r \in Requests, Arrive(r)
        PROVE  recovery' >= recovery
    <3>1. recovery' = recovery
      BY <2>3 DEF Arrive, Allow, AllowClosed, FirstProbe, NextProbe, TakeProbe, breakerVars
    <3> QED
      BY <2>1, <3>1
  <2>4. ASSUME NEW r \in Requests, AnswerOk(r)
        PROVE  recovery' >= recovery
    <3>1. ~CloseCircuit
      BY DEF CloseCircuit
    <3>2. recovery' = recovery
      BY <2>4, <3>1 DEF AnswerOk, RecordSuccess, breakerVars
    <3> QED
      BY <2>1, <3>2
  <2>5. ASSUME NEW r \in Requests, AnswerFailure(r)
        PROVE  recovery' >= recovery
    BY <2>1, <2>2, <2>5 DEF AnswerFailure, RecordFailure
  <2>6. ASSUME NEW r \in Requests, Escape(r)
        PROVE  recovery' >= recovery
    BY <2>1, <2>6 DEF Escape, breakerVars
  <2>7. CASE AdminReset
    BY <2>7 DEF AdminReset, CloseCircuit
  <2>8. CASE Tick
    BY <2>1, <2>8 DEF Tick
  <2> QED
    BY <2>3, <2>4, <2>5, <2>6, <2>7, <2>8 DEF ForwarderNext
<1> QED
  BY <1>1, Safety, PTL DEF ForwarderSpec, OutageBackoff

-----------------------------------------------------------------------------
(* The backoff follows the trips.  That doubling defines a function of the *)
(* number of trips at all is shown first: its beginnings exist and agree.  *)

LEMMA LeastNumber ==
    ASSUME NEW S \in SUBSET Nat, S # {}
    PROVE  \E k \in S : \A l \in S : k <= l
<1> DEFINE R == OpToRel(<, Nat)
<1>1. R = {p \in Nat \X Nat : p[1] < p[2]}
  BY DEF OpToRel
<1>2. IsWellFoundedOn(R, Nat)
  BY NatLessThanWellFounded
<1>3. \E k \in S : \A l \in S : <<l, k>> \notin R
  <2> HIDE DEF R
  <2> QED
    BY <1>2, WFMin
<1>4. ASSUME NEW k \in S, NEW l \in S, <<l, k>> \notin R
      PROVE  k <= l
  <2>1. <<l, k>> \in Nat \X Nat /\ <<l, k>>[1] = l /\ <<l, k>>[2] = k
    OBVIOUS
  <2>2. ~(l < k)
    BY <1>1, <1>4, <2>1
  <2> QED
    BY <2>2
<1> QED
  BY <1>3, <1>4

\* g is the doubled times for up to n trips.
Begins(n, g) ==
    /\ g \in [0..n -> Nat]
    /\ g[0] = BaseRecovery
    /\ \A k \in 1..n : g[k] = 2 * g[k - 1]

LEMMA BeginningsExist == \A n \in Nat : \E g : Begins(n, g)
<1> DEFINE S == {n \in Nat : ~\E g : Begins(n, g)}
<1>1. ASSUME S # {}
      PROVE  FALSE
  <2>1. PICK n \in S : \A l \in S : n <= l
    BY <1>1, LeastNumber
  <2>2. n \in Nat /\ ~\E g : Begins(n, g)
    OBVIOUS
  <2>3. n # 0
    <3>1. Begins(0, [k \in 0..0 |-> BaseRecovery])
      BY ForwarderAssumption DEF Begins
    <3> QED
      BY <2>2, <3>1
  <2>4. n - 1 \in Nat /\ n - 1 \notin S
    BY <2>1, <2>2, <2>3
  <2>5. PICK g : Begins(n - 1, g)
    BY <2>4
  <2>6. Begins(n, [k \in 0..n |-> IF k = n THEN 2 * g[n - 1] ELSE g[k]])
    <3> DEFINE h == [k \in 0..n |-> IF k = n THEN 2 * g[n - 1] ELSE g[k]]
    <3>1. /\ g \in [0..(n - 1) -> Nat] /\ g[0] = BaseRecovery
          /\ \A k \in 1..(n - 1) : g[k] = 2 * g[k - 1]
      BY <2>5 DEF Begins
    <3>2. \A k \in 0..n : h[k] = IF k = n THEN 2 * g[n - 1] ELSE g[k]
      OBVIOUS
    <3>3. g[n - 1] \in Nat /\ \A k \in 0..n : k # n => g[k] \in Nat
      BY <2>2, <2>3, <3>1
    <3>4. h \in [0..n -> Nat]
      BY <3>3
    <3> HIDE DEF h
    <3>5. h[0] = BaseRecovery
      BY <2>2, <2>3, <3>1, <3>2
    <3>6. ASSUME NEW k \in 1..n
          PROVE  h[k] = 2 * h[k - 1]
      <4>1. h[k - 1] = g[k - 1]
        BY <2>2, <3>2
      <4>2. CASE k = n
        BY <2>2, <2>3, <3>2, <4>1, <4>2
      <4>3. CASE k # n
        <5>1. h[k] = g[k] /\ k \in 1..(n - 1)
          BY <2>2, <3>2, <4>3
        <5> QED
          BY <3>1, <4>1, <5>1
      <4> QED
        BY <4>2, <4>3
    <3> QED
      BY <3>4, <3>5, <3>6 DEF Begins, h
  <2> QED
    BY <2>2, <2>6
<1> QED
  BY <1>1

LEMMA BeginningsAgree ==
    ASSUME NEW m \in Nat, NEW n \in Nat, m <= n, NEW g, NEW h, Begins(m, g), Begins(n, h)
    PROVE  \A k \in 0..m : g[k] = h[k]
<1> DEFINE S == {k \in 0..m : g[k] # h[k]}
<1>1. ASSUME S # {}
      PROVE  FALSE
  <2>1. PICK k \in S : \A l \in S : k <= l
    <3>1. S \in SUBSET Nat
      OBVIOUS
    <3> HIDE DEF S
    <3> QED
      BY <1>1, <3>1, LeastNumber
  <2>2. k # 0
    BY DEF Begins
  <2>3. k \in 1..m /\ k \in 1..n /\ k - 1 \in 0..m
    BY <2>2
  <2>4. k - 1 \notin S
    BY <2>1, <2>3
  <2>5. g[k - 1] = h[k - 1]
    BY <2>3, <2>4
  <2> QED
    BY <2>3, <2>5 DEF Begins
<1> QED
  BY <1>1

LEMMA DoubledIs ==
    /\ Doubled \in [Nat -> Nat]
    /\ Doubled[0] = BaseRecovery
    /\ \A k \in Nat : Doubled[k + 1] = 2 * Doubled[k]
<1> DEFINE G(n) == CHOOSE g : Begins(n, g)
           f == [n \in Nat |-> G(n)[n]]
<1>1. \A n \in Nat : Begins(n, G(n))
  BY BeginningsExist
<1> HIDE DEF G
<1>2. f \in [Nat -> Nat] /\ f[0] = BaseRecovery
  BY <1>1 DEF Begins
<1>3. ASSUME NEW n \in Nat, n # 0
      PROVE  f[n] = 2 * f[n - 1]
  <2>1. n - 1 \in Nat /\ n - 1 <= n /\ n \in 1..n /\ n - 1 \in 0..(n - 1)
    BY <1>3
  <2>2. G(n)[n] = 2 * G(n)[n - 1]
    BY <1>1, <2>1 DEF Begins
  <2>3. G(n - 1)[n - 1] = G(n)[n - 1]
    BY <1>1, <2>1, BeginningsAgree
  <2> QED
    BY <2>1, <2>2, <2>3
<1> HIDE DEF f
<1>4. f = [n \in Nat |-> IF n = 0 THEN BaseRecovery ELSE 2 * f[n - 1]]
  BY <1>2, <1>3
<1>5. Doubled = [n \in Nat |-> IF n = 0 THEN BaseRecovery ELSE 2 * Doubled[n - 1]]
  BY <1>4 DEF Doubled
<1>6. Doubled[0] = BaseRecovery /\ \A k \in Nat : Doubled[k + 1] = 2 * Doubled[k]
  BY <1>5
<1>7. Doubled \in [Nat -> Nat]
  <2> DEFINE S == {n \in Nat : Doubled[n] \notin Nat}
  <2>1. ASSUME S # {}
        PROVE  FALSE
    <3>1. PICK n \in S : \A l \in S : n <= l
      BY <2>1, LeastNumber
    <3>2. n # 0
      BY <1>6, ForwarderAssumption
    <3>3. n - 1 \in Nat /\ n - 1 \notin S
      BY <3>1, <3>2
    <3>4. Doubled[n - 1] \in Nat /\ Doubled[n] = 2 * Doubled[n - 1]
      BY <1>5, <3>2, <3>3
    <3> QED
      BY <3>4
  <2>2. \A n \in Nat : Doubled[n] \in Nat
    BY <2>1
  <2>3. Doubled = [n \in Nat |-> Doubled[n]]
    <3> DEFINE F(n) == IF n = 0 THEN BaseRecovery ELSE 2 * Doubled[n - 1]
    <3>1. Doubled = [n \in Nat |-> F(n)]
      BY <1>5
    <3> HIDE DEF F
    <3>2. \A n \in Nat : Doubled[n] = F(n)
      BY <3>1
    <3> QED
      BY <3>1, <3>2
  <2> QED
    BY <2>2, <2>3
<1> QED
  BY <1>6, <1>7

\* As many doublings as the maximum has ticks are enough to reach it.
LEMMA DoubledGrows ==
    ASSUME BaseRecovery > 0
    PROVE  \A k \in Nat : Doubled[k] > k
<1> DEFINE S == {n \in Nat : ~(Doubled[n] > n)}
<1>1. ASSUME S # {}
      PROVE  FALSE
  <2>1. PICK n \in S : \A l \in S : n <= l
    BY <1>1, LeastNumber
  <2>2. n \in Nat /\ n # 0
    BY DoubledIs
  <2>3. n - 1 \in Nat /\ n - 1 \notin S
    BY <2>1, <2>2
  <2>4. Doubled[n - 1] \in Nat /\ Doubled[n - 1] > n - 1
    BY <2>3, DoubledIs
  <2>5. Doubled[n] = 2 * Doubled[n - 1]
    <3>1. Doubled[(n - 1) + 1] = 2 * Doubled[n - 1] /\ (n - 1) + 1 = n
      BY <2>2, <2>3, DoubledIs
    <3> QED
      BY <3>1
  <2> QED
    BY <2>2, <2>4, <2>5
<1> QED
  BY <1>1

LEMMA NothingDoubled ==
    ASSUME BaseRecovery = 0
    PROVE  \A k \in Nat : Doubled[k] = 0
<1> DEFINE S == {n \in Nat : Doubled[n] # 0}
<1>1. ASSUME S # {}
      PROVE  FALSE
  <2>1. PICK n \in S : \A l \in S : n <= l
    BY <1>1, LeastNumber
  <2>2. n \in Nat /\ n # 0
    BY DoubledIs
  <2>3. n - 1 \in Nat /\ n - 1 \notin S
    BY <2>1, <2>2
  <2>4. Doubled[(n - 1) + 1] = 2 * Doubled[n - 1] /\ (n - 1) + 1 = n
    BY <2>2, <2>3, DoubledIs
  <2> QED
    BY <2>3, <2>4
<1> QED
  BY <1>1

\* Whatever has been counted, the circuit waits as long as that many trips ask for.
WaitInv ==
    /\ ForwarderTypeOK
    /\ recovery = IF trips = 0 THEN BaseRecovery ELSE UpTo(MaxRecovery, Doubled[trips])

LEMMA TripWaits ==
    ASSUME WaitInv, Trip
    PROVE  trips' # 0 /\ recovery' = UpTo(MaxRecovery, Doubled[trips'])
<1>1. /\ trips \in 0..TripCap /\ TripCap = MaxRecovery + 1 /\ MaxRecovery \in Nat
      /\ BaseRecovery \in Nat /\ trips \in Nat /\ Doubled[trips] \in Nat
      /\ Doubled[0] = BaseRecovery /\ Doubled[trips + 1] = 2 * Doubled[trips]
  BY ForwarderAssumption, DoubledIs DEF WaitInv, ForwarderTypeOK, TripCap
<1>2. /\ trips' = IF trips + 1 < TripCap THEN trips + 1 ELSE TripCap
      /\ recovery' = IF 2 * recovery < MaxRecovery THEN 2 * recovery ELSE MaxRecovery
  BY DEF Trip, Backoff, UpTo
<1>3. CASE trips = 0
  BY <1>1, <1>2, <1>3 DEF WaitInv, UpTo
<1>4. CASE trips # 0 /\ trips < TripCap
  <2>1. trips' = trips + 1
    BY <1>1, <1>2, <1>4
  <2>2. recovery = IF Doubled[trips] < MaxRecovery THEN Doubled[trips] ELSE MaxRecovery
    BY <1>4 DEF WaitInv, UpTo
  <2>3. recovery' = IF 2 * Doubled[trips] < MaxRecovery THEN 2 * Doubled[trips] ELSE MaxRecovery
    BY <1>1, <1>2, <2>2
  <2> QED
    BY <1>1, <2>1, <2>3 DEF UpTo
<1>5. CASE trips = TripCap
  <2>1. trips' = trips /\ trips # 0
    BY <1>1, <1>2, <1>5
  <2>2. recovery = UpTo(MaxRecovery, Doubled[trips])
    BY <2>1 DEF WaitInv
  <2>3. CASE BaseRecovery = 0
    <3>1. Doubled[trips] = 0
      BY <1>1, <2>3, NothingDoubled
    <3> QED
      BY <1>1, <1>2, <2>1, <2>2, <3>1 DEF UpTo
  <2>4. CASE BaseRecovery > 0
    <3>1. Doubled[trips] > MaxRecovery
      BY <1>1, <1>5, <2>4, DoubledGrows
    <3>2. UpTo(MaxRecovery, Doubled[trips]) = MaxRecovery
      BY <1>1, <3>1 DEF UpTo
    <3> QED
      BY <1>1, <1>2, <2>1, <2>2, <3>2
  <2> QED
    BY <1>1, <2>3, <2>4
<1> QED
  BY <1>1, <1>3, <1>4, <1>5

LEMMA WaitStep == WaitInv /\ [ForwarderNext]_forwarderVars => WaitInv'
<1> SUFFICES ASSUME WaitInv, [ForwarderNext]_forwarderVars
             PROVE  WaitInv'
  OBVIOUS
<1>1. ForwarderTypeOK'
  BY TypeStep DEF WaitInv
<1>2. Trip \/ CloseCircuit \/ UNCHANGED <<recovery, trips>>
  <2>1. ASSUME NEW r \in Requests, Arrive(r) \/ AnswerOk(r) \/ AnswerFailure(r) \/ Escape(r)
        PROVE  Trip \/ CloseCircuit \/ UNCHANGED <<recovery, trips>>
    BY <2>1 DEF Arrive, Allow, AllowClosed, FirstProbe, NextProbe, TakeProbe, AnswerOk,
                RecordSuccess, AnswerFailure, RecordFailure, Escape, breakerVars, historyVars
  <2> QED
    BY <2>1 DEF ForwarderNext, AdminReset, Tick, forwarderVars, breakerVars, historyVars
<1>3. CASE Trip
  BY <1>1, <1>3, TripWaits DEF WaitInv
<1>4. CASE CloseCircuit
  BY <1>1, <1>4 DEF WaitInv, CloseCircuit
<1>5. CASE UNCHANGED <<recovery, trips>>
  BY <1>1, <1>5 DEF WaitInv
<1> QED
  BY <1>2, <1>3, <1>4, <1>5

(* However many late failures come in while the circuit is open, and       *)
(* however often it half-opens and trips again, it waits the base time     *)
(* doubled once for each trip, or the maximum.                             *)
THEOREM WaitsDouble == ForwarderSpec => []BackoffFollowsTrips
<1>1. ForwarderInit => WaitInv
  BY InitType DEF ForwarderInit, WaitInv
<1>2. WaitInv => BackoffFollowsTrips
  BY DEF WaitInv, BackoffFollowsTrips, ForwarderTypeOK
<1> QED
  BY <1>1, <1>2, WaitStep, PTL DEF ForwarderSpec

-----------------------------------------------------------------------------
(* The tasks.                                                             *)

SessionSteps == {"ws_welcome", "ws_loop", "ws_send", "ws_tell", "ws_end"}

HubInv ==
    /\ connections \in SUBSET Tasks /\ IsFiniteSet(connections)
    /\ capacity \in Nat /\ Cardinality(connections) <= capacity
    /\ rooms \in [Rooms -> SUBSET Tasks]
    /\ joined \in [Tasks -> SUBSET Rooms]
    /\ open \in SUBSET Tasks /\ gone \in SUBSET open
    /\ IndexAgrees

\* A connection belongs to a session that goes on, or to one whose welcome failed
\* and whose task does nothing any more.
Homes ==
    /\ pc \in [Tasks -> {"idle"} \cup Steps]
    /\ \A t \in Tasks \cap connections :
          pc[t] \in SessionSteps \/ (pc[t] = "idle" /\ t \in orphans)

SocketsInv == HubInv /\ Homes

-----------------------------------------------------------------------------
(* The methods of the hub *)

LEMMA HubStays == HubInv /\ UNCHANGED <<hub, capacity>> => HubInv'
BY DEF HubInv, hub, IndexAgrees

LEMMA ConnectKeeps ==
    ASSUME HubInv, UNCHANGED capacity, NEW t \in Tasks, t \notin connections, Connect(t)
    PROVE  HubInv' /\ connections' = connections \cup {t}
<1>1. /\ connections' = connections \cup {t}
      /\ joined' = [joined EXCEPT ![t] = {}]
      /\ UNCHANGED <<rooms, open, gone>>
  BY DEF Connect
<1>2. IsFiniteSet(connections') /\ Cardinality(connections') = Cardinality(connections) + 1
  BY <1>1, FS_AddElement DEF HubInv
<1>3. Cardinality(connections') <= capacity'
  BY <1>2, FS_CardinalityType DEF HubInv, Connect, Full
<1>4. IndexAgrees'
  BY <1>1 DEF HubInv, IndexAgrees
<1> QED
  BY <1>1, <1>2, <1>3, <1>4 DEF HubInv

LEMMA CloseKeeps ==
    ASSUME HubInv, UNCHANGED capacity, NEW t, Close(t), UNCHANGED <<connections, rooms, joined>>
    PROVE  HubInv'
BY DEF HubInv, Close, IndexAgrees

LEMMA DisconnectKeeps ==
    ASSUME HubInv, UNCHANGED capacity, NEW t, Disconnect(t)
    PROVE  HubInv' /\ connections' = connections \ {t}
<1>1. CASE t \in connections
  <2>1. /\ connections' = connections \ {t}
        /\ rooms' = [r \in Rooms |-> IF r \in joined[t] THEN rooms[r] \ {t} ELSE rooms[r]]
        /\ joined' = [joined EXCEPT ![t] = {}]
        /\ open' = open \ {t} /\ gone' = gone \ {t}
    BY <1>1 DEF Disconnect, Close
  <2>2. t \in Tasks
    BY <1>1 DEF HubInv
  <2>3. IsFiniteSet(connections') /\ Cardinality(connections') <= Cardinality(connections)
    BY <2>1, FS_Subset DEF HubInv
  <2>4. Cardinality(connections') <= capacity'
    BY <2>3, FS_CardinalityType DEF HubInv
  <2>5. IndexAgrees'
    BY <2>1, <2>2 DEF HubInv, IndexAgrees
  <2> QED
    BY <2>1, <2>2, <2>3, <2>4, <2>5 DEF HubInv
<1>2. CASE t \notin connections
  BY <1>2, HubStays DEF Disconnect, hub
<1> QED
  BY <1>1, <1>2

LEMMA JoinKeeps ==
    ASSUME HubInv, UNCHANGED capacity, NEW t \in Tasks, NEW r \in Rooms, JoinRoom(t, r)
    PROVE  HubInv' /\ connections' = connections
<1>1. CASE t \in connections
  BY <1>1 DEF JoinRoom, HubInv, IndexAgrees
<1>2. CASE t \notin connections
  BY <1>2, HubStays DEF JoinRoom, hub
<1> QED
  BY <1>1, <1>2

LEMMA LeaveKeeps ==
    ASSUME HubInv, UNCHANGED capacity, NEW t \in Tasks, NEW r \in Rooms, LeaveRoom(t, r)
    PROVE  HubInv' /\ connections' = connections
<1>1. CASE t \in connections
  BY <1>1 DEF LeaveRoom, HubInv, IndexAgrees
<1>2. CASE t \notin connections
  BY <1>2, HubStays DEF LeaveRoom, hub
<1> QED
  BY <1>1, <1>2

LEMMA SendKeeps ==
    ASSUME HubInv, UNCHANGED capacity, NEW c, SendTo(c)
    PROVE  HubInv' /\ connections' \subseteq connections
BY HubStays, DisconnectKeeps DEF SendTo, hub

-----------------------------------------------------------------------------
(* The tasks and the connections *)

LEMMA GoKeeps ==
    ASSUME Homes, NEW t \in Tasks, NEW step \in {"idle"} \cup Steps,
           pc' = [pc EXCEPT ![t] = step],
           connections' \subseteq connections \cup {t}, orphans \subseteq orphans',
           \/ step \in SessionSteps
           \/ t \notin connections'
           \/ step = "idle" /\ t \in orphans'
    PROVE  Homes'
<1>1. pc' \in [Tasks -> {"idle"} \cup Steps]
  BY DEF Homes
<1>2. pc'[t] = step
  BY DEF Homes
<1>3. ASSUME NEW c \in Tasks \cap connections', c # t
      PROVE  pc'[c] \in SessionSteps \/ (pc'[c] = "idle" /\ c \in orphans')
  BY <1>3 DEF Homes
<1> QED
  BY <1>1, <1>2, <1>3 DEF Homes

LEMMA StayKeeps ==
    ASSUME Homes, pc' = pc, connections' \subseteq connections, orphans' = orphans
    PROVE  Homes'
BY DEF Homes

\* A task that does something else is not a connection.
LEMMA NotConnected ==
    ASSUME Homes, NEW t \in Tasks, pc[t] \notin SessionSteps, pc[t] # "idle" \/ Free(t)
    PROVE  t \notin connections
BY DEF Homes, Free

\* What goes on without the hub.
LEMMA ElsewhereKeeps ==
    ASSUME SocketsInv, UNCHANGED capacity, NEW t \in Tasks, NEW step \in {"idle"} \cup Steps,
           t \notin connections, pc' = [pc EXCEPT ![t] = step], UNCHANGED <<hub, orphans>>
    PROVE  SocketsInv'
<1>1. HubInv'
  BY HubStays DEF SocketsInv
<1>2. Homes'
  BY GoKeeps DEF SocketsInv, hub
<1> QED
  BY <1>1, <1>2 DEF SocketsInv

LEMMA BeginKeeps ==
    ASSUME SocketsInv, UNCHANGED capacity, NEW t \in Tasks, NEW step \in Steps, NEW token,
           Begin(t, step, token)
    PROVE  SocketsInv'
<1>1. Free(t) /\ pc' = [pc EXCEPT ![t] = step] /\ UNCHANGED <<hub, orphans>>
  BY DEF Begin, session
<1>2. t \notin connections
  BY <1>1, NotConnected DEF SocketsInv, Free, SessionSteps
<1> QED
  BY <1>1, <1>2, ElsewhereKeeps

(* Logging in and out, refreshing, requests. *)
LEMMA OtherTasksKeep ==
    ASSUME SocketsInv, UNCHANGED capacity, NEW t \in Tasks,
           \/ Login(t) \/ BeginRefresh(t) \/ CheckRefresh(t) \/ RevokeOld(t) \/ IssueNew(t)
           \/ BeginLogout(t) \/ Revoke(t) \/ BeginRequest(t) \/ Verify(t) \/ LimiterFails(t)
           \/ Limited(t) \/ Authorize(t) \/ Proxied(t) \/ BeginSession(t)
    PROVE  SocketsInv'
<1>1. CASE Login(t)
  BY <1>1, HubStays, StayKeeps DEF Login, SocketsInv, job, session, hub
<1>2. CASE BeginRefresh(t) \/ BeginLogout(t) \/ BeginRequest(t) \/ BeginSession(t)
  BY <1>2, BeginKeeps DEF BeginRefresh, BeginLogout, BeginRequest, BeginSession, Steps
<1>3. CASE \/ CheckRefresh(t) \/ RevokeOld(t) \/ IssueNew(t) \/ Revoke(t) \/ Verify(t)
           \/ LimiterFails(t) \/ Limited(t) \/ Authorize(t) \/ Proxied(t)
  <2>1. /\ pc[t] \in Steps \ (SessionSteps \cup {"ws_verify", "ws_connect"})
        /\ UNCHANGED <<hub, orphans>>
        /\ \E step \in {"idle"} \cup Steps : pc' = [pc EXCEPT ![t] = step]
    BY <1>3 DEF CheckRefresh, RevokeOld, IssueNew, Revoke, Verify, LimiterFails, Limited,
                Authorize, Proxied, Go, End, Steps, SessionSteps, session
  <2>2. t \notin connections
    BY <2>1, NotConnected DEF SocketsInv, Steps
  <2> QED
    BY <2>1, <2>2, ElsewhereKeeps
<1> QED
  BY <1>1, <1>2, <1>3

LEMMA AcceptKeeps ==
    ASSUME SocketsInv, UNCHANGED capacity, NEW t \in Tasks, Accept(t)
    PROVE  SocketsInv'
<1>1. t \notin connections
  BY NotConnected DEF Accept, SocketsInv, SessionSteps
<1>2. /\ open' \in {open, open \cup {t}}
      /\ UNCHANGED <<connections, rooms, joined, gone, orphans>>
      /\ pc' = [pc EXCEPT ![t] = "idle"] \/ pc' = [pc EXCEPT ![t] = "ws_connect"]
  BY DEF Accept, Go, End, session
<1>3. HubInv'
  BY <1>2 DEF SocketsInv, HubInv, IndexAgrees
<1>4. Homes'
  BY <1>1, <1>2, GoKeeps DEF SocketsInv, Steps
<1> QED
  BY <1>3, <1>4 DEF SocketsInv

LEMMA RegisterKeeps ==
    ASSUME SocketsInv, UNCHANGED capacity, NEW t \in Tasks, Register(t)
    PROVE  SocketsInv'
<1>1. t \notin connections /\ UNCHANGED orphans
  BY NotConnected DEF Register, SocketsInv, SessionSteps, session
<1>2. CASE Connect(t) /\ Go(t, "ws_welcome")
  <2>1. HubInv' /\ connections' = connections \cup {t}
    BY <1>1, <1>2, ConnectKeeps DEF SocketsInv
  <2>2. Homes'
    BY <1>1, <1>2, <2>1, GoKeeps DEF SocketsInv, Go, Steps, SessionSteps
  <2> QED
    BY <2>1, <2>2 DEF SocketsInv
<1>3. CASE Close(t) /\ UNCHANGED <<connections, rooms, joined>> /\ End(t)
  <2>1. HubInv'
    BY <1>3, CloseKeeps DEF SocketsInv
  <2>2. Homes'
    BY <1>1, <1>3, GoKeeps DEF SocketsInv, End
  <2> QED
    BY <2>1, <2>2 DEF SocketsInv
<1> QED
  BY <1>2, <1>3 DEF Register

LEMMA WelcomeFailsKeeps ==
    ASSUME SocketsInv, UNCHANGED capacity, NEW t \in Tasks, WelcomeFails(t)
    PROVE  SocketsInv'
<1>1. HubInv'
  BY CloseKeeps DEF WelcomeFails, SocketsInv
<1>2. Homes'
  BY GoKeeps DEF WelcomeFails, SocketsInv, Go
<1> QED
  BY <1>1, <1>2 DEF SocketsInv

(* What a session does in its loop. *)
LEMMA LoopKeeps ==
    ASSUME SocketsInv, UNCHANGED capacity, NEW t \in Tasks,
           \/ Welcome(t) \/ Join(t) \/ Leave(t) \/ Broadcast(t) \/ SendNext(t)
           \/ Tell(t) \/ Answer(t) \/ LoopEnds(t)
    PROVE  SocketsInv'
<1>1. UNCHANGED orphans
  BY DEF Welcome, Join, Leave, Broadcast, SendNext, Tell, Answer, LoopEnds, session
<1>2. HubInv' /\ connections' \subseteq connections
  <2>1. CASE Welcome(t) \/ Broadcast(t) \/ Answer(t) \/ LoopEnds(t)
    BY <2>1, HubStays DEF Welcome, Broadcast, Answer, LoopEnds, SocketsInv, hub
  <2>2. CASE Join(t)
    BY <2>2, JoinKeeps DEF Join, SocketsInv
  <2>3. CASE Leave(t)
    BY <2>3, LeaveKeeps DEF Leave, SocketsInv
  <2>4. CASE SendNext(t)
    BY <2>4, HubStays, SendKeeps DEF SendNext, SocketsInv, hub
  <2>5. CASE Tell(t)
    BY <2>5, SendKeeps DEF Tell, SocketsInv
  <2> QED
    BY <2>1, <2>2, <2>3, <2>4, <2>5
<1>3. pc' = pc \/ \E step \in SessionSteps : pc' = [pc EXCEPT ![t] = step]
  BY DEF Welcome, Join, Leave, Broadcast, SendNext, Tell, Answer, LoopEnds, Go, job, SessionSteps
<1>4. Homes'
  BY <1>1, <1>2, <1>3, GoKeeps, StayKeeps DEF SocketsInv, Steps, SessionSteps
<1> QED
  BY <1>2, <1>4 DEF SocketsInv

LEMMA FinallyKeeps ==
    ASSUME SocketsInv, UNCHANGED capacity, NEW t \in Tasks, Finally(t)
    PROVE  SocketsInv'
<1>1. HubInv' /\ connections' = connections \ {t}
  BY DisconnectKeeps DEF Finally, SocketsInv
<1>2. Homes'
  BY <1>1, GoKeeps DEF Finally, SocketsInv, End, session
<1> QED
  BY <1>1, <1>2 DEF SocketsInv

LEMMA PeerLeavesKeeps ==
    ASSUME SocketsInv, UNCHANGED capacity, NEW t \in Tasks, PeerLeaves(t)
    PROVE  SocketsInv'
<1>1. HubInv'
  BY DEF PeerLeaves, SocketsInv, HubInv, IndexAgrees
<1>2. Homes'
  BY StayKeeps DEF PeerLeaves, SocketsInv, job, session
<1> QED
  BY <1>1, <1>2 DEF SocketsInv

LEMMA RestartKeeps == SocketsInv /\ UNCHANGED capacity /\ Restart => SocketsInv'
<1> SUFFICES ASSUME SocketsInv, UNCHANGED capacity, Restart
             PROVE  SocketsInv'
  OBVIOUS
<1>1. IsFiniteSet(connections') /\ Cardinality(connections') = 0
  BY FS_EmptySet DEF Restart
<1>2. HubInv'
  BY <1>1 DEF Restart, SocketsInv, HubInv, IndexAgrees
<1>3. Homes'
  BY DEF Restart, Homes
<1> QED
  BY <1>2, <1>3 DEF SocketsInv

LEMMA SocketsInit == Init => SocketsInv
<1> SUFFICES ASSUME Init
             PROVE  SocketsInv
  OBVIOUS
<1>1. IsFiniteSet(connections) /\ Cardinality(connections) = 0
  BY FS_EmptySet DEF Init, HubInit
<1> QED
  BY <1>1, SocketsAssumption DEF Init, HubInit, SocketsInv, HubInv, IndexAgrees, Homes

LEMMA CapacityStays == [Next]_vars => UNCHANGED capacity
<1> SUFFICES ASSUME [Next]_vars
             PROVE  UNCHANGED capacity
  OBVIOUS
<1>1. CASE Environment \/ RedisFault \/ Restart \/ UNCHANGED vars
  BY <1>1 DEF Environment, RedisFault, Restart, vars, process
<1>2. ASSUME NEW t \in Tasks, Step(t)
      PROVE  UNCHANGED capacity
  <2>1. CASE Session(t)
    BY <2>1 DEF Session, Accept, Register, Welcome, WelcomeFails, Join, Leave, Broadcast, SendNext,
                Tell, Answer, LoopEnds, Finally, process
  <2>2. CASE ~Session(t)
    BY <1>2, <2>2 DEF Step, Login, BeginRefresh, CheckRefresh, RevokeOld, IssueNew, BeginLogout,
                      Revoke, BeginRequest, Verify, LimiterFails, Limited, Authorize, Proxied,
                      BeginSession, PeerLeaves, Begin, process
  <2> QED
    BY <2>1, <2>2
<1> QED
  BY <1>1, <1>2 DEF Next

LEMMA SocketsStep == SocketsInv /\ [Next]_vars => SocketsInv'
<1> SUFFICES ASSUME SocketsInv, [Next]_vars
             PROVE  SocketsInv'
  OBVIOUS
<1>0. UNCHANGED capacity
  BY CapacityStays
<1>1. CASE Environment \/ RedisFault \/ UNCHANGED vars
  BY <1>0, <1>1, HubStays, StayKeeps DEF Environment, RedisFault, vars, SocketsInv, hub, job, session
<1>2. CASE Restart
  BY <1>0, <1>2, RestartKeeps
<1>3. ASSUME NEW t \in Tasks, Step(t)
      PROVE  SocketsInv'
  BY <1>0, <1>3, OtherTasksKeep, AcceptKeeps, RegisterKeeps, WelcomeFailsKeeps, LoopKeeps,
     FinallyKeeps, PeerLeavesKeeps DEF Step, Session
<1> QED
  BY <1>1, <1>2, <1>3 DEF Next

(* Whatever tasks do at once, rooms and connections agree, there are no    *)
(* more of them than max_connections, and every one has a session that     *)
(* disconnects it, or its welcome failed.                                  *)
THEOREM HubStaysSound == Spec => []HubIsSound
<1>1. SocketsInv => HubIsSound
  BY DEF SocketsInv, HubInv, Homes, HubIsSound, HubTypeOK, NoOtherOrphans, SessionSteps
<1> QED
  BY <1>1, SocketsInit, SocketsStep, PTL DEF Spec

-----------------------------------------------------------------------------
(* Revocation *)

\* Whoever asks for a token that has been revoked finds it.
RevokedAreListed ==
    /\ revoked \subseteq IF redisUp THEN inRedis ELSE inMemory
    /\ pc \in [Tasks -> {"idle"} \cup Steps]

LEMMA AddLists ==
    ASSUME RevokedAreListed, NEW token, Add(token)
    PROVE  revoked' \subseteq IF redisUp' THEN inRedis' ELSE inMemory'
BY DEF RevokedAreListed, Add

\* All that a task does is to move on.
LEMMA TasksMove ==
    ASSUME NEW t \in Tasks, Step(t)
    PROVE  pc' = pc \/ \E step \in {"idle"} \cup Steps : pc' = [pc EXCEPT ![t] = step]
<1>1. CASE \/ Login(t) \/ BeginRefresh(t) \/ CheckRefresh(t) \/ RevokeOld(t) \/ IssueNew(t)
           \/ BeginLogout(t) \/ Revoke(t)
  BY <1>1 DEF Login, BeginRefresh, CheckRefresh, RevokeOld, IssueNew, BeginLogout, Revoke,
              Begin, Go, End, job, Steps
<1>2. CASE \/ BeginRequest(t) \/ Verify(t) \/ LimiterFails(t) \/ Limited(t) \/ Authorize(t)
           \/ Proxied(t) \/ BeginSession(t) \/ PeerLeaves(t)
  BY <1>2 DEF BeginRequest, Verify, LimiterFails, Limited, Authorize, Proxied, BeginSession,
              PeerLeaves, Begin, Go, End, job, Steps
<1>3. CASE Session(t)
  BY <1>3 DEF Session, Accept, Register, Welcome, WelcomeFails, Join, Leave, Broadcast, SendNext,
              Tell, Answer, LoopEnds, Finally, Go, End, job, Steps
<1> QED
  BY <1>1, <1>2, <1>3 DEF Step

\* Only those who revoke touch the list.
LEMMA OthersLeaveTheList ==
    ASSUME NEW t \in Tasks, Step(t)
    PROVE  \/ UNCHANGED <<revoked, redisUp, inRedis, inMemory>>
           \/ RevokeOld(t) \/ Revoke(t)
<1>1. CASE \/ Login(t) \/ BeginRefresh(t) \/ CheckRefresh(t) \/ IssueNew(t) \/ BeginLogout(t)
  BY <1>1 DEF Login, BeginRefresh, CheckRefresh, IssueNew, BeginLogout, Begin, Issue, access
<1>2. CASE \/ BeginRequest(t) \/ Verify(t) \/ LimiterFails(t) \/ Limited(t) \/ Authorize(t)
           \/ Proxied(t) \/ BeginSession(t) \/ PeerLeaves(t)
  BY <1>2 DEF BeginRequest, Verify, LimiterFails, Limited, Authorize, Proxied, BeginSession,
              PeerLeaves, Begin, TryConsume, access
<1>3. CASE Session(t)
  BY <1>3 DEF Session, Accept, Register, Welcome, WelcomeFails, Join, Leave, Broadcast, SendNext,
              Tell, Answer, LoopEnds, Finally, access
<1> QED
  BY <1>1, <1>2, <1>3 DEF Step

LEMMA RevocationInit == Init => RevokedAreListed
BY DEF Init, AccessInit, RevokedAreListed

LEMMA RevocationStep == RevokedAreListed /\ [Next]_vars => RevokedAreListed'
<1> SUFFICES ASSUME RevokedAreListed, [Next]_vars
             PROVE  RevokedAreListed'
  OBVIOUS
<1>1. CASE Environment
  <2>1. CASE Refill
    BY <1>1, <2>1 DEF Environment, Refill, job, RevokedAreListed
  <2>2. ASSUME NEW token \in Issued, Expire(token)
        PROVE  revoked' \subseteq IF redisUp' THEN inRedis' ELSE inMemory'
    BY <2>2 DEF Expire, RevokedAreListed
  <2> QED
    BY <1>1, <2>1, <2>2 DEF Environment, job, RevokedAreListed
<1>2. CASE RedisFault
  BY <1>2 DEF RedisFault, RedisComesOrGoes, job, RevokedAreListed
<1>3. CASE Restart
  BY <1>3 DEF Restart, RevokedAreListed
<1>4. ASSUME NEW t \in Tasks, Step(t)
      PROVE  RevokedAreListed'
  <2>1. pc' \in [Tasks -> {"idle"} \cup Steps]
    BY <1>4, TasksMove DEF RevokedAreListed
  <2>2. CASE UNCHANGED <<revoked, redisUp, inRedis, inMemory>>
    BY <2>1, <2>2 DEF RevokedAreListed
  <2>3. CASE RevokeOld(t) \/ Revoke(t)
    BY <2>1, <2>3, AddLists DEF RevokeOld, Revoke, RevokedAreListed
  <2> QED
    BY <1>4, <2>2, <2>3, OthersLeaveTheList
<1>5. CASE UNCHANGED vars
  BY <1>5 DEF vars, access, job, RevokedAreListed
<1> QED
  BY <1>1, <1>2, <1>3, <1>4, <1>5 DEF Next

Refused ==
    \A t \in Tasks :
        pc[t] \in {"refresh_check", "verify", "ws_verify"} /\ held[t] \in revoked
        => pc'[t] \in {pc[t], "idle"}

LEMMA RevokedAreRefused == RevokedAreListed /\ [Next]_vars => Refused
<1> SUFFICES ASSUME RevokedAreListed, [Next]_vars, NEW t \in Tasks,
                    pc[t] \in {"refresh_check", "verify", "ws_verify"}, held[t] \in revoked
             PROVE  pc'[t] \in {pc[t], "idle"}
  BY DEF Refused
<1>1. Contains(held[t])
  BY DEF Contains, RevokedAreListed
<1>2. CASE Environment \/ RedisFault \/ UNCHANGED vars
  BY <1>2 DEF Environment, RedisFault, vars, job
<1>3. CASE Restart
  BY <1>3 DEF Restart
<1>4. ASSUME NEW u \in Tasks, Step(u), u # t
      PROVE  pc'[t] = pc[t]
  BY <1>4, TasksMove DEF RevokedAreListed
<1>5. CASE Step(t)
  <2>1. CASE CheckRefresh(t) \/ Verify(t)
    BY <1>1, <2>1 DEF CheckRefresh, Verify, Verified, Go, End, RevokedAreListed
  <2>2. CASE Accept(t)
    BY <1>1, <2>2 DEF Accept, Verified, Go, End, RevokedAreListed
  <2>3. CASE Login(t) \/ PeerLeaves(t)
    BY <2>3 DEF Login, PeerLeaves, job
  <2>4. ~(BeginRefresh(t) \/ BeginLogout(t) \/ BeginRequest(t) \/ BeginSession(t))
    BY DEF BeginRefresh, BeginLogout, BeginRequest, BeginSession, Begin, Free
  <2>5. ~(\/ RevokeOld(t) \/ IssueNew(t) \/ Revoke(t) \/ LimiterFails(t) \/ Limited(t)
          \/ Authorize(t) \/ Proxied(t))
    BY DEF RevokeOld, IssueNew, Revoke, LimiterFails, Limited, Authorize, Proxied
  <2>6. ~(\/ Register(t) \/ Welcome(t) \/ WelcomeFails(t) \/ Join(t) \/ Leave(t) \/ Broadcast(t)
          \/ SendNext(t) \/ Tell(t) \/ Answer(t) \/ LoopEnds(t) \/ Finally(t))
    BY DEF Register, Welcome, WelcomeFails, Join, Leave, Broadcast, SendNext, Tell, Answer,
           LoopEnds, Finally
  <2> QED
    BY <1>5, <2>1, <2>2, <2>3, <2>4, <2>5, <2>6 DEF Step, Session
<1> QED
  BY <1>2, <1>3, <1>4, <1>5 DEF Next

(* A token that has been revoked gets nobody past a verification that      *)
(* follows, with Redis or without it, unless Redis comes or goes or the    *)
(* process restarts without it.                                            *)
THEOREM RevocationHolds == Spec => NobodyPassesRevoked
<1>1. RevokedAreListed /\ [Next]_vars => [Refused]_vars
  BY RevokedAreRefused
<1>2. Spec => [][Refused]_vars
  BY <1>1, RevocationInit, RevocationStep, PTL DEF Spec
<1> QED
  BY <1>2 DEF NobodyPassesRevoked, Refused

-----------------------------------------------------------------------------
(* Tokens.  What is listed as revoked has been issued and is not over, and *)
(* there is room for what the refreshes under way will issue.              *)

RefreshSteps == {"refresh_check", "refresh_revoke", "refresh_issue"}
Refreshing == {t \in Tasks : pc[t] \in RefreshSteps}

TokensInv ==
    /\ \E S : pairs \in Seq(S)
    /\ expired \subseteq Issued
    /\ inRedis \cup inMemory \cup revoked \subseteq Issued \ expired
    /\ bucket \in 0..Burst

JobsInv ==
    /\ pc \in [Tasks -> {"idle"} \cup Steps]
    /\ held \in [Tasks -> {NoToken, ApiKey} \cup Issued]
    /\ \A t \in Tasks : pc[t] \in {"refresh_check", "refresh_revoke", "logout"} => held[t] \in Issued

RoomInv ==
    /\ IsFiniteSet(Refreshing)
    /\ Len(pairs) + Cardinality(Refreshing) <= MaxPairs

QueueInv == queue \in [Tasks -> SUBSET Tasks]

AccessInv == TokensInv /\ JobsInv /\ RoomInv /\ QueueInv /\ SocketsInv

\* One pair more is issued.
LEMMA AppendedPair ==
    ASSUME NEW S, pairs \in Seq(S), NEW pair, pairs' = Append(pairs, pair)
    PROVE  /\ \E R : pairs' \in Seq(R)
           /\ Len(pairs) \in Nat /\ Len(pairs') = Len(pairs) + 1
           /\ Issued \subseteq Issued'
<1>1. pairs \in Seq(S \cup {pair})
  BY SeqDef
<1>2. /\ pairs' \in Seq(S \cup {pair})
      /\ Len(pairs') = Len(pairs) + 1
  BY <1>1, AppendProperties
<1>3. /\ Len(pairs) \in Nat /\ DOMAIN pairs = 1..Len(pairs)
  BY <1>1, LenProperties
<1>4. DOMAIN pairs' = 1..Len(pairs')
  BY <1>2, LenProperties
<1>5. DOMAIN pairs \subseteq DOMAIN pairs'
  BY <1>2, <1>3, <1>4
<1> QED
  BY <1>2, <1>3, <1>5 DEF Issued

\* How a step of a task touches the tokens and the bucket.
LEMMA TokensMove ==
    ASSUME NEW t \in Tasks, Step(t)
    PROVE  \/ UNCHANGED <<pairs, expired, inRedis, inMemory, revoked>> /\ (UNCHANGED bucket \/ TryConsume)
           \/ /\ Login(t) \/ IssueNew(t)
              /\ \E pair : pairs' = Append(pairs, pair)
              /\ UNCHANGED <<expired, inRedis, inMemory, revoked, bucket>>
           \/ RevokeOld(t) \/ Revoke(t)
<1>1. CASE \/ CheckRefresh(t) \/ BeginRefresh(t) \/ BeginLogout(t)
           \/ BeginRequest(t) \/ Verify(t) \/ LimiterFails(t) \/ Limited(t) \/ Authorize(t)
           \/ Proxied(t) \/ BeginSession(t) \/ PeerLeaves(t)
  BY <1>1 DEF BeginRefresh, CheckRefresh, BeginLogout, BeginRequest, Verify, LimiterFails, Limited,
              Authorize, Proxied, BeginSession, PeerLeaves, Begin, TryConsume, access
<1>2. CASE Login(t)
  BY <1>2 DEF Login, Issue
<1>3. CASE IssueNew(t)
  BY <1>3 DEF IssueNew, Issue
<1>4. CASE Session(t)
  BY <1>4 DEF Session, Accept, Register, Welcome, WelcomeFails, Join, Leave, Broadcast, SendNext,
              Tell, Answer, LoopEnds, Finally, access
<1> QED
  BY <1>1, <1>2, <1>3, <1>4 DEF Step

LEMMA TokensKeep ==
    ASSUME NEW t \in Tasks, Step(t), TokensInv, JobsInv
    PROVE  TokensInv' /\ Issued \subseteq Issued'
<1>1. CASE UNCHANGED <<pairs, expired, inRedis, inMemory, revoked>> /\ (UNCHANGED bucket \/ TryConsume)
  <2>1. bucket' \in 0..Burst
    BY <1>1, AccessAssumption DEF TokensInv, TryConsume
  <2> QED
    BY <1>1, <2>1 DEF TokensInv, Issued
<1>2. CASE /\ \E pair : pairs' = Append(pairs, pair)
           /\ UNCHANGED <<expired, inRedis, inMemory, revoked, bucket>>
  <2>1. (\E R : pairs' \in Seq(R)) /\ Issued \subseteq Issued'
    BY <1>2, AppendedPair DEF TokensInv
  <2> QED
    BY <1>2, <2>1 DEF TokensInv
<1>3. CASE RevokeOld(t) \/ Revoke(t)
  <2>1. held[t] \in Issued /\ Add(held[t])
    BY <1>3 DEF RevokeOld, Revoke, JobsInv
  <2>2. UNCHANGED <<pairs, expired, bucket>> /\ Issued' = Issued
    BY <2>1 DEF Add, Issued
  <2>3. inRedis' \cup inMemory' \cup revoked' \subseteq Issued \ expired
    BY <2>1 DEF Add, TokensInv
  <2> QED
    BY <2>2, <2>3 DEF TokensInv
<1> QED
  BY <1>1, <1>2, <1>3, TokensMove

\* What a step of a task means for the task.
LEMMA TaskMoves ==
    ASSUME NEW t \in Tasks, Step(t)
    PROVE  \/ UNCHANGED job
           \/ End(t)
           \/ \E step \in ({"idle"} \cup Steps) \ {"refresh_check", "logout"} :
                 /\ Go(t, step)
                 /\ step = "refresh_revoke" => pc[t] = "refresh_check"
                 /\ step = "refresh_issue" => pc[t] = "refresh_revoke"
           \/ BeginRefresh(t)
           \/ \E step \in Steps \ RefreshSteps, token \in {NoToken, ApiKey} \cup Issued :
                 Begin(t, step, token) /\ (step = "logout" => token \in Issued)
<1>1. CASE \/ Login(t) \/ CheckRefresh(t) \/ RevokeOld(t) \/ IssueNew(t) \/ Revoke(t)
  BY <1>1 DEF Login, CheckRefresh, RevokeOld, IssueNew, Revoke, Steps
<1>2. CASE \/ Verify(t) \/ LimiterFails(t) \/ Limited(t) \/ Authorize(t) \/ Proxied(t) \/ PeerLeaves(t)
  BY <1>2 DEF Verify, LimiterFails, Limited, Authorize, Proxied, PeerLeaves, Steps
<1>3. CASE BeginLogout(t) \/ BeginRequest(t) \/ BeginSession(t)
  BY <1>3 DEF BeginLogout, BeginRequest, BeginSession, Steps, RefreshSteps
<1>4. CASE Session(t)
  BY <1>4 DEF Session, Accept, Register, Welcome, WelcomeFails, Join, Leave, Broadcast, SendNext,
              Tell, Answer, LoopEnds, Finally, Steps
<1> QED
  BY <1>1, <1>2, <1>3, <1>4 DEF Step

LEMMA JobsKeep ==
    ASSUME NEW t \in Tasks, Step(t), JobsInv, Issued \subseteq Issued'
    PROVE  JobsInv'
<1>1. CASE UNCHANGED job
  BY <1>1 DEF JobsInv, job
<1>2. CASE End(t)
  BY <1>2 DEF JobsInv, End
<1>3. CASE \E step \in ({"idle"} \cup Steps) \ {"refresh_check", "logout"} :
              Go(t, step) /\ (step = "refresh_revoke" => pc[t] = "refresh_check")
  BY <1>3 DEF JobsInv, Go
<1>4. ASSUME NEW step \in Steps, NEW token \in {NoToken, ApiKey} \cup Issued, Begin(t, step, token),
             step \in {"refresh_check", "refresh_revoke", "logout"} => token \in Issued
      PROVE  JobsInv'
  BY <1>4 DEF JobsInv, Begin
<1>5. CASE BeginRefresh(t)
  <2>1. \E token \in Issued : Begin(t, "refresh_check", token)
    BY <1>5 DEF BeginRefresh
  <2> QED
    BY <1>4, <2>1 DEF Steps
<1> QED
  BY <1>1, <1>2, <1>3, <1>4, <1>5, TaskMoves DEF RefreshSteps

LEMMA RoomKeeps ==
    ASSUME NEW t \in Tasks, Step(t), TokensInv, JobsInv, RoomInv
    PROVE  RoomInv'
<1>1. PICK S : pairs \in Seq(S)
  BY DEF TokensInv
<1>2. Len(pairs) \in Nat /\ Cardinality(Refreshing) \in Nat /\ MaxPairs \in Nat
  BY <1>1, LenProperties, FS_CardinalityType, AccessAssumption DEF RoomInv
<1>3. ASSUME Refreshing' \subseteq Refreshing, UNCHANGED pairs
      PROVE  RoomInv'
  <2>1. IsFiniteSet(Refreshing') /\ Cardinality(Refreshing') <= Cardinality(Refreshing)
        /\ Cardinality(Refreshing') \in Nat
    BY <1>3, FS_Subset, FS_CardinalityType DEF RoomInv
  <2> QED
    BY <1>2, <1>3, <2>1 DEF RoomInv
<1>4. RoomForPairs <=> Len(pairs) + Cardinality(Refreshing) < MaxPairs
  BY DEF RoomForPairs, Refreshing, RefreshSteps
<1>5. CASE Login(t)
  <2>1. Len(pairs') = Len(pairs) + 1 /\ Refreshing' = Refreshing
    BY <1>1, <1>5, AppendedPair DEF Login, Issue, job, Refreshing
  <2> QED
    BY <1>2, <1>4, <1>5, <2>1 DEF Login, RoomInv
<1>6. CASE IssueNew(t)
  <2>1. Len(pairs') = Len(pairs) + 1
    BY <1>1, <1>6, AppendedPair DEF IssueNew, Issue
  <2>2. t \in Refreshing /\ Refreshing' = Refreshing \ {t}
    BY <1>6 DEF IssueNew, End, Refreshing, RefreshSteps, JobsInv
  <2>3. IsFiniteSet(Refreshing') /\ Cardinality(Refreshing') = Cardinality(Refreshing) - 1
    BY <2>2, FS_RemoveElement DEF RoomInv
  <2> QED
    BY <1>2, <2>1, <2>3 DEF RoomInv
<1>7. CASE BeginRefresh(t)
  <2>1. Refreshing' \subseteq Refreshing \cup {t} /\ UNCHANGED pairs /\ RoomForPairs
    BY <1>7 DEF BeginRefresh, Begin, access, Refreshing, JobsInv
  <2>2. /\ IsFiniteSet(Refreshing \cup {t})
        /\ Cardinality(Refreshing \cup {t}) <= Cardinality(Refreshing) + 1
        /\ Cardinality(Refreshing \cup {t}) \in Nat
    <3>1. /\ IsFiniteSet(Refreshing \cup {t})
          /\ Cardinality(Refreshing \cup {t}) =
                IF t \in Refreshing THEN Cardinality(Refreshing) ELSE Cardinality(Refreshing) + 1
      BY FS_AddElement DEF RoomInv
    <3> QED
      BY <1>2, <3>1
  <2>3. /\ IsFiniteSet(Refreshing') /\ Cardinality(Refreshing') \in Nat
        /\ Cardinality(Refreshing') <= Cardinality(Refreshing \cup {t})
    BY <2>1, <2>2, FS_Subset, FS_CardinalityType
  <2>4. Len(pairs') = Len(pairs)
    BY <2>1
  <2> QED
    BY <1>2, <1>4, <2>1, <2>2, <2>3, <2>4 DEF RoomInv
<1>8. CASE ~(Login(t) \/ IssueNew(t) \/ BeginRefresh(t))
  <2>1. UNCHANGED pairs
    BY <1>8, TokensMove DEF RevokeOld, Revoke, Add
  <2>2. Refreshing' \subseteq Refreshing
    <3>1. CASE UNCHANGED job \/ End(t)
      BY <3>1 DEF job, End, Refreshing, RefreshSteps, JobsInv
    <3>2. CASE \E step \in ({"idle"} \cup Steps) \ {"refresh_check", "logout"} :
                  /\ Go(t, step)
                  /\ step = "refresh_revoke" => pc[t] = "refresh_check"
                  /\ step = "refresh_issue" => pc[t] = "refresh_revoke"
      BY <3>2 DEF Go, Refreshing, RefreshSteps, JobsInv
    <3>3. CASE \E step \in Steps \ RefreshSteps, token \in {NoToken, ApiKey} \cup Issued :
                  Begin(t, step, token)
      BY <3>3 DEF Begin, Refreshing, JobsInv
    <3> QED
      BY <1>8, <3>1, <3>2, <3>3, TaskMoves
  <2> QED
    BY <1>3, <2>1, <2>2
<1> QED
  BY <1>5, <1>6, <1>7, <1>8

LEMMA QueueKeeps ==
    ASSUME NEW t \in Tasks, Step(t), QueueInv, SocketsInv
    PROVE  QueueInv'
<1>1. CASE Broadcast(t)
  BY <1>1 DEF Broadcast, QueueInv, SocketsInv, HubInv
<1>2. CASE SendNext(t)
  BY <1>2 DEF SendNext, QueueInv
<1>3. UNCHANGED queue \/ Broadcast(t) \/ SendNext(t)
  <2>1. CASE Session(t)
    BY <2>1 DEF Session, Accept, Register, Welcome, WelcomeFails, Join, Leave, Tell, Answer,
                LoopEnds, Finally, session
  <2>2. CASE ~Session(t)
    BY <2>2 DEF Step, Login, BeginRefresh, CheckRefresh, RevokeOld, IssueNew, BeginLogout, Revoke,
                BeginRequest, Verify, LimiterFails, Limited, Authorize, Proxied, BeginSession,
                PeerLeaves, Begin, session
  <2> QED
    BY <2>1, <2>2
<1> QED
  BY <1>1, <1>2, <1>3 DEF QueueInv

LEMMA AccessInvInit == Init => AccessInv
<1> SUFFICES ASSUME Init
             PROVE  AccessInv
  OBVIOUS
<1>1. pairs = <<>> /\ Len(pairs) = 0 /\ \E S : pairs \in Seq(S)
  BY DEF Init, AccessInit
<1>2. TokensInv /\ JobsInv /\ QueueInv
  BY <1>1, AccessAssumption DEF Init, AccessInit, TokensInv, JobsInv, QueueInv
<1>3. Refreshing = {}
  BY DEF Init, Refreshing, RefreshSteps
<1>4. IsFiniteSet(Refreshing) /\ Cardinality(Refreshing) = 0
  BY <1>3, FS_EmptySet
<1>5. RoomInv
  BY <1>1, <1>4, AccessAssumption DEF RoomInv
<1> QED
  BY <1>2, <1>5, SocketsInit DEF AccessInv

LEMMA AccessStep == AccessInv /\ [Next]_vars => AccessInv'
<1> SUFFICES ASSUME AccessInv, [Next]_vars
             PROVE  AccessInv'
  OBVIOUS
<1>1. TokensInv /\ JobsInv /\ RoomInv /\ QueueInv /\ SocketsInv'
  BY SocketsStep DEF AccessInv
<1>2. ASSUME UNCHANGED <<job, session>>, UNCHANGED pairs
      PROVE  JobsInv' /\ RoomInv' /\ QueueInv' /\ Issued' = Issued
  <2>1. UNCHANGED <<pc, held, queue, pairs>> /\ Issued' = Issued /\ Refreshing' = Refreshing
    BY <1>2 DEF job, session, Issued, Refreshing
  <2> QED
    BY <1>1, <2>1 DEF JobsInv, RoomInv, QueueInv
<1>3. CASE Environment
  <2>1. UNCHANGED <<job, session>>
    BY <1>3 DEF Environment
  <2>2. CASE Refill
    <3>1. UNCHANGED pairs /\ bucket' \in 0..Burst
      BY <1>1, <2>2, AccessAssumption DEF Refill, TokensInv
    <3> QED
      BY <1>1, <1>2, <2>1, <2>2, <3>1 DEF Refill, TokensInv, AccessInv
  <2>3. ASSUME NEW token \in Issued, Expire(token)
        PROVE  AccessInv'
    BY <1>1, <1>2, <2>1, <2>3 DEF Expire, TokensInv, AccessInv
  <2> QED
    BY <1>3, <2>2, <2>3 DEF Environment
<1>4. CASE RedisFault
  BY <1>1, <1>2, <1>4 DEF RedisFault, RedisComesOrGoes, TokensInv, AccessInv
<1>5. CASE UNCHANGED vars
  BY <1>1, <1>2, <1>5 DEF vars, access, TokensInv, AccessInv
<1>6. CASE Restart
  <2>1. UNCHANGED <<pairs, expired, inRedis>> /\ Issued' = Issued
    BY <1>6 DEF Restart, Issued
  <2>2. inMemory' = {} /\ revoked' \subseteq revoked /\ bucket' \in {bucket, Burst}
    BY <1>6 DEF Restart
  <2>3. bucket' \in 0..Burst
    BY <1>1, <2>2, AccessAssumption DEF TokensInv
  <2>4. TokensInv'
    BY <1>1, <2>1, <2>2, <2>3 DEF TokensInv
  <2>5. JobsInv' /\ QueueInv'
    BY <1>6 DEF Restart, JobsInv, QueueInv
  <2>6. Refreshing' = {}
    BY <1>6 DEF Restart, Refreshing, RefreshSteps
  <2>7. IsFiniteSet(Refreshing') /\ Cardinality(Refreshing') = 0
    BY <2>6, FS_EmptySet
  <2>8. Len(pairs') \in Nat /\ Len(pairs') <= MaxPairs
    <3>1. PICK S : pairs \in Seq(S)
      BY <1>1 DEF TokensInv
    <3>2. Len(pairs) \in Nat /\ Cardinality(Refreshing) \in Nat /\ MaxPairs \in Nat
      BY <1>1, <3>1, LenProperties, FS_CardinalityType, AccessAssumption DEF RoomInv
    <3> QED
      BY <1>1, <2>1, <3>2 DEF RoomInv
  <2>9. RoomInv'
    BY <2>7, <2>8 DEF RoomInv
  <2> QED
    BY <1>1, <2>4, <2>5, <2>9 DEF AccessInv
<1>7. ASSUME NEW t \in Tasks, Step(t)
      PROVE  AccessInv'
  <2>1. TokensInv' /\ Issued \subseteq Issued'
    BY <1>1, <1>7, TokensKeep
  <2> QED
    BY <1>1, <1>7, <2>1, JobsKeep, RoomKeeps, QueueKeeps DEF AccessInv
<1> QED
  BY <1>3, <1>4, <1>5, <1>6, <1>7 DEF Next

(* Only tokens that have been issued and are not over are listed as        *)
(* revoked, in Redis, in memory or in both, whatever comes and goes; a     *)
(* task holds a token that was issued to somebody; and the refreshes under *)
(* way find room for what they issue.                                      *)
THEOREM TokensAreTyped == Spec => []TypeOK
<1>1. ASSUME AccessInv
      PROVE  TypeOK
  <2>1. Len(pairs) <= MaxPairs
    <3>1. PICK S : pairs \in Seq(S)
      BY <1>1 DEF AccessInv, TokensInv
    <3>2. Len(pairs) \in Nat /\ Cardinality(Refreshing) \in Nat /\ MaxPairs \in Nat
      BY <1>1, <3>1, LenProperties, FS_CardinalityType, AccessAssumption DEF AccessInv, RoomInv
    <3> QED
      BY <1>1, <3>2 DEF AccessInv, RoomInv
  <2>2. AccessTypeOK
    BY <1>1, <2>1 DEF AccessInv, TokensInv, AccessTypeOK
  <2> QED
    BY <1>1, <2>2 DEF AccessInv, JobsInv, QueueInv, TypeOK
<1> QED
  BY <1>1, AccessInvInit, AccessStep, PTL DEF Spec
=============================================================================
