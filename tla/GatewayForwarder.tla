-------------------------- MODULE GatewayForwarder --------------------------
(***************************************************************************)
(* The gateway's circuit breaker (gateway/circuit_breaker/breaker.py) and  *)
(* the requests that UpstreamForwarder.forward sends through it            *)
(* (gateway/routing/forwarder.py).                                         *)
(*                                                                         *)
(* Every method of the breaker runs under its asyncio lock and awaits      *)
(* nothing inside it, so it is one atomic step; a request yields only      *)
(* while it awaits the upstream, so what the forwarder does between two    *)
(* such awaits is one step too.  A request asks the breaker once and then  *)
(* records a result for every try it makes.                                *)
(***************************************************************************)
EXTENDS Integers, FiniteSets

CONSTANTS
    Requests,       \* tasks that call forward; each may call it again and again
    Threshold,      \* failure_threshold
    BaseRecovery,   \* recovery_seconds, in ticks
    MaxRecovery,    \* max_recovery_seconds, in ticks
    HalfOpenMax,    \* half_open_max_calls
    MaxRetries,     \* upstream_max_retries
    Escapes         \* may a try end with an exception forward does not catch?

ASSUME ForwarderAssumption ==
    /\ IsFiniteSet(Requests)
    /\ Threshold \in Nat \ {0}
    /\ BaseRecovery \in Nat
    /\ MaxRecovery \in Nat
    /\ HalfOpenMax \in Nat \ {0}
    /\ MaxRetries \in Nat
    /\ Escapes \in BOOLEAN

VARIABLES
    state,          \* _state
    failureCount,   \* _failure_count, saturated at Threshold
    age,            \* ticks since _opened_at, NotOpened when that is None
    halfOpenCalls,  \* _half_open_calls
    recovery,       \* _recovery
    place,          \* place[r]: is request r awaiting the upstream?
    attempt,        \* attempt[r]: index of the try r is in
    probes,         \* history: calls in flight admitted in this half-open episode
    trips           \* history: trips since the circuit was last closed

breakerVars == <<state, failureCount, age, halfOpenCalls, recovery>>
callVars    == <<place, attempt>>
historyVars == <<probes, trips>>
forwarderVars == <<breakerVars, callVars, historyVars>>

States == {"closed", "open", "half_open"}

NotOpened == -1

\* age stops here: it is only ever compared with recovery, which is no larger.
AgeCap == IF BaseRecovery < MaxRecovery THEN MaxRecovery ELSE BaseRecovery

\* trips stops here: past it, it tells no two behaviours apart.
TripCap == MaxRecovery + 1

UpTo(cap, n) == IF n < cap THEN n ELSE cap

-----------------------------------------------------------------------------
ForwarderInit ==
    /\ state = "closed"
    /\ failureCount = 0
    /\ age = NotOpened
    /\ halfOpenCalls = 0
    /\ recovery = BaseRecovery
    /\ place = [r \in Requests |-> "idle"]
    /\ attempt = [r \in Requests |-> 0]
    /\ probes = {}
    /\ trips = 0

(***************************************************************************)
(* The breaker.  allow() answers TRUE in every state but an open circuit   *)
(* still cooling down and a half-open one whose probes are all handed out. *)
(***************************************************************************)
CooledDown == age >= recovery

\* Mutant: the transition to half-open does not count the call it lets through.
FirstProbe_Uncounted(r) ==
    /\ state = "open"
    /\ CooledDown
    /\ state' = "half_open"
    /\ age' = NotOpened
    /\ halfOpenCalls' = 0
    /\ probes' = {r}
    /\ UNCHANGED <<failureCount, recovery, trips>>

\* Mutant: the backoff is reset when the circuit half-opens, not when it closes.
FirstProbe_ResetsBackoff(r) ==
    /\ state = "open"
    /\ CooledDown
    /\ state' = "half_open"
    /\ age' = NotOpened
    /\ halfOpenCalls' = 1
    /\ recovery' = BaseRecovery
    /\ probes' = {r}
    /\ UNCHANGED <<failureCount, trips>>

FirstProbe(r) ==
    /\ state = "open"
    /\ CooledDown
    /\ state' = "half_open"
    /\ age' = NotOpened
    /\ halfOpenCalls' = 1
    /\ probes' = {r}
    /\ UNCHANGED <<failureCount, recovery, trips>>

TakeProbe(r) ==
    /\ state = "half_open"
    /\ halfOpenCalls' = halfOpenCalls + 1
    /\ probes' = probes \cup {r}
    /\ UNCHANGED <<state, failureCount, age, recovery, trips>>

\* Mutants: the quota off by one, one way and the other.
NextProbe_OneTooMany(r) == halfOpenCalls <= HalfOpenMax /\ TakeProbe(r)
NextProbe_OneTooFew(r) == halfOpenCalls + 1 < HalfOpenMax /\ TakeProbe(r)

NextProbe(r) == halfOpenCalls < HalfOpenMax /\ TakeProbe(r)

AllowClosed ==
    /\ state = "closed"
    /\ UNCHANGED <<breakerVars, historyVars>>

Allow(r) == AllowClosed \/ FirstProbe(r) \/ NextProbe(r)

\* Mutant: the opening time survives the transition.
CloseCircuit_KeepsStamp ==
    /\ state' = "closed"
    /\ failureCount' = 0
    /\ halfOpenCalls' = 0
    /\ recovery' = BaseRecovery
    /\ probes' = {}
    /\ trips' = 0
    /\ UNCHANGED age

\* Mutant: the backoff survives the transition.
CloseCircuit_KeepsBackoff ==
    /\ state' = "closed"
    /\ failureCount' = 0
    /\ age' = NotOpened
    /\ halfOpenCalls' = 0
    /\ probes' = {}
    /\ trips' = 0
    /\ UNCHANGED recovery

\* _transition(CLOSED) with the two resets that record_success and reset share.
CloseCircuit ==
    /\ state' = "closed"
    /\ failureCount' = 0
    /\ age' = NotOpened
    /\ halfOpenCalls' = 0
    /\ recovery' = BaseRecovery
    /\ probes' = {}
    /\ trips' = 0

\* Mutant: the doubled recovery is not capped.
Backoff_Uncapped == UpTo(AgeCap + 1, 2 * recovery)

Backoff == UpTo(MaxRecovery, 2 * recovery)

\* _trip(): open, stamp the time, double the recovery up to its maximum.
Trip ==
    /\ state' = "open"
    /\ age' = 0
    /\ halfOpenCalls' = 0
    /\ recovery' = Backoff
    /\ probes' = {}
    /\ trips' = UpTo(TripCap, trips + 1)

\* A call that leaves the forwarder is no probe in flight any more.
Settle(r, done) == probes' = IF done THEN probes \ {r} ELSE probes

RecordSuccess(r) ==
    \/ /\ state = "half_open"
       /\ halfOpenCalls >= HalfOpenMax
       /\ CloseCircuit
    \/ /\ state = "half_open"
       /\ halfOpenCalls < HalfOpenMax
       /\ Settle(r, TRUE)
       /\ UNCHANGED <<breakerVars, trips>>
    \/ /\ state = "closed"
       /\ failureCount' = 0
       /\ UNCHANGED <<state, age, halfOpenCalls, recovery, historyVars>>
    \/ /\ state = "open"
       /\ UNCHANGED <<breakerVars, historyVars>>

RecordFailure(r, done) ==
    /\ failureCount' = UpTo(Threshold, failureCount + 1)
    /\ \/ /\ \/ state = "half_open"
             \/ state = "closed" /\ failureCount' >= Threshold
          /\ Trip
       \/ /\ \/ state = "open"
             \/ state = "closed" /\ failureCount' < Threshold
          /\ Settle(r, done)
          /\ UNCHANGED <<state, age, halfOpenCalls, recovery, trips>>

-----------------------------------------------------------------------------
(***************************************************************************)
(* forward().  A refused request raises CircuitOpenError and changes       *)
(* nothing, so it has no action of its own.                                *)
(***************************************************************************)
Arrive(r) ==
    /\ place[r] = "idle"
    /\ Allow(r)
    /\ place' = [place EXCEPT ![r] = "sending"]
    /\ attempt' = [attempt EXCEPT ![r] = 0]

\* A response below 500, a 4xx included, is a success.
AnswerOk(r) ==
    /\ place[r] = "sending"
    /\ RecordSuccess(r)
    /\ place' = [place EXCEPT ![r] = "idle"]
    /\ UNCHANGED attempt

\* A 5xx, a timeout or a transport error.  The loop tries again without asking
\* the breaker; the last try hands the 5xx, or an error, to the client.
AnswerFailure(r) ==
    /\ place[r] = "sending"
    /\ RecordFailure(r, attempt[r] >= MaxRetries)
    /\ \/ /\ attempt[r] < MaxRetries
          /\ attempt' = [attempt EXCEPT ![r] = @ + 1]
          /\ UNCHANGED place
       \/ /\ attempt[r] >= MaxRetries
          /\ place' = [place EXCEPT ![r] = "idle"]
          /\ UNCHANGED attempt

\* The task is cancelled, or the client library raises something that is not
\* an httpx.HTTPError (InvalidURL, a closed client): nothing is recorded.
Escape(r) ==
    /\ Escapes
    /\ place[r] = "sending"
    /\ place' = [place EXCEPT ![r] = "idle"]
    /\ Settle(r, TRUE)
    /\ UNCHANGED <<breakerVars, attempt, trips>>

\* POST /circuits/{service}/reset
AdminReset ==
    /\ CloseCircuit
    /\ UNCHANGED callVars

\* The clock matters only while the circuit is open.
Tick ==
    /\ state = "open"
    /\ age < AgeCap
    /\ age' = age + 1
    /\ UNCHANGED <<state, failureCount, halfOpenCalls, recovery, callVars, historyVars>>

ForwarderNext ==
    \/ \E r \in Requests :
          Arrive(r) \/ AnswerOk(r) \/ AnswerFailure(r) \/ Escape(r)
    \/ AdminReset
    \/ Tick

ForwarderSpec == ForwarderInit /\ [][ForwarderNext]_forwarderVars

\* The event loop runs every task, clients keep calling, the upstream answers
\* or times out (the httpx timeout bounds every try), and time passes.  Nobody
\* has to reset a circuit and no try has to escape.
Fairness ==
    /\ WF_forwarderVars(Tick)
    /\ \A r \in Requests :
          WF_forwarderVars(Arrive(r)) /\ WF_forwarderVars(AnswerOk(r) \/ AnswerFailure(r))

FairSpec == ForwarderSpec /\ Fairness

-----------------------------------------------------------------------------
(* Types of the breaker's fields and of the calls in flight. *)
ForwarderTypeOK ==
    /\ state \in States
    /\ failureCount \in 0..Threshold
    /\ age \in NotOpened..AgeCap
    /\ halfOpenCalls \in 0..HalfOpenMax
    /\ recovery \in 0..AgeCap
    /\ place \in [Requests -> {"idle", "sending"}]
    /\ attempt \in [Requests -> 0..MaxRetries]
    /\ probes \in SUBSET Requests
    /\ trips \in 0..TripCap

(* allow() asserts that an open circuit has its opening time; a closed or  *)
(* half-open one must have dropped it, or the next outage is timed by it.  *)
OpenIffStamped == (state = "open") <=> (age # NotOpened)

(* A closed circuit carries nothing over from the last outage: its backoff *)
(* is the base one, and it has room for at least one more failure, however *)
(* many late results of calls admitted before the outage came in.          *)
ClosedIsFresh ==
    state = "closed" => recovery = BaseRecovery /\ failureCount < Threshold

(* What the fields of the breaker say of one another, always.              *)
Consistent == ForwarderTypeOK /\ OpenIffStamped /\ ClosedIsFresh

(* While half-open, the calls in flight that were admitted as probes never *)
(* exceed the probes handed out, nor those the quota allows.               *)
ProbeQuota ==
    /\ Cardinality(probes) <= halfOpenCalls
    /\ halfOpenCalls <= HalfOpenMax
    /\ \A r \in probes : place[r] = "sending"

\* The base time doubled k times, as if there were no maximum.
Doubled[k \in Nat] == IF k = 0 THEN BaseRecovery ELSE 2 * Doubled[k - 1]

(* "Each time a breaker opens, the recovery timeout is doubled (capped)":  *)
(* after k trips since it was last closed the circuit waits the base time  *)
(* doubled k times, or the maximum, and late failures do not double it.    *)
BackoffFollowsTrips ==
    trips > 0 => recovery = UpTo(MaxRecovery, Doubled[trips])

(* During an outage the wait never gets shorter (for a base no larger than *)
(* the maximum): only closing the circuit resets it.                       *)
OutageBackoff ==
    [][state' # "closed" => recovery' >= recovery]_forwarderVars

(* Every probe the quota allows was handed out, and none is in flight.     *)
Exhausted == halfOpenCalls = HalfOpenMax /\ probes = {}

(* An open circuit that has waited lets a call through, and a half-open    *)
(* one is decided by its probes alone, unless some of them ended without a *)
(* record and the quota ran out.                                           *)
RecoversOrExhausted ==
    /\ (state = "open") ~> (state # "open")
    /\ (state = "half_open") ~> (state # "half_open" \/ Exhausted)

(* "Circuit breaker with exponential-backoff auto recovery": an open       *)
(* circuit becomes closed or is tripped again, without an admin.           *)
AutoRecovery == (state = "half_open") ~> (state # "half_open")
=============================================================================
