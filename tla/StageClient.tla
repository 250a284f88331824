---------------------------- MODULE StageClient ----------------------------
(***************************************************************************)
(* One stage's client in http mode (hub/clients/base.py): call,            *)
(* _call_http_with_retries and the _StageCircuitBreaker that all calls of  *)
(* the stage share.  The breaker's methods hold a lock and return at once, *)
(* so each is part of the step that calls it; a call yields while it awaits*)
(* a response or sleeps between two tries.                                 *)
(*                                                                         *)
(* The breakers of the llm, report, decision and intent services have the  *)
(* same transitions.                                                       *)
(***************************************************************************)
EXTENDS Integers, FiniteSets

CONSTANTS
    Calls,          \* pipelines that call this stage, again and again
    Threshold,      \* failure_threshold
    Recovery,       \* recovery_seconds, in ticks
    MaxRetries      \* max_retries

ASSUME StageAssumption ==
    /\ IsFiniteSet(Calls)
    /\ Threshold \in Nat \ {0}
    /\ Recovery \in Nat \ {0}
    /\ MaxRetries \in Nat

VARIABLES
    state,      \* _state
    failures,   \* _failures, saturated at Threshold
    age,        \* ticks since _opened_at, saturated at Recovery; NotStamped if None
    pc,         \* pc[c]: where call c is, or how its last call ended
    attempt,    \* attempt[c]: index of its try
    sends       \* history: requests it has sent

breakerVars == <<state, failures, age>>
clientVars == <<breakerVars, pc, attempt, sends>>

NotStamped == -1

Running == {"sending", "sleeping"}
Ended == {"idle", "success", "failed", "cancelled"}

ClientInit ==
    /\ state = "closed"
    /\ failures = 0
    /\ age = NotStamped
    /\ pc = [c \in Calls |-> "idle"]
    /\ attempt = [c \in Calls |-> 0]
    /\ sends = [c \in Calls |-> 0]

-----------------------------------------------------------------------------
(* _StageCircuitBreaker *)

\* allow(): an open circuit half-opens once it has cooled down, and a half-open
\* one lets every call through, not one probe as its comment says.
Allowed == state # "open" \/ age >= Recovery

Admit ==
    /\ Allowed
    /\ state' = IF state = "open" THEN "half_open" ELSE state
    /\ UNCHANGED <<failures, age>>

\* Mutant: a success closes the circuit but leaves the count where it was.
RecordSuccess_KeepsCount ==
    /\ state' = "closed"
    /\ UNCHANGED <<failures, age>>

RecordSuccess ==
    /\ failures' = 0
    /\ state' = "closed"
    /\ UNCHANGED age

Counted == IF failures < Threshold THEN failures + 1 ELSE failures

\* A failure re-stamps a circuit that is already open.
RecordFailure ==
    /\ failures' = Counted
    /\ IF state = "half_open" \/ Counted >= Threshold
       THEN state' = "open" /\ age' = 0
       ELSE UNCHANGED <<state, age>>

-----------------------------------------------------------------------------
(* call and _call_http_with_retries *)

StartCall(c) ==
    /\ pc[c] \in Ended
    /\ Admit
    /\ pc' = [pc EXCEPT ![c] = "sending"]
    /\ attempt' = [attempt EXCEPT ![c] = 0]
    /\ sends' = [sends EXCEPT ![c] = 1]

\* Mutant: a call refused by the circuit is recorded as one more failure.
Refuse_Recorded(c) ==
    /\ pc[c] \in Ended
    /\ ~Allowed
    /\ pc' = [pc EXCEPT ![c] = "failed"]
    /\ sends' = [sends EXCEPT ![c] = 0]
    /\ RecordFailure
    /\ UNCHANGED attempt

\* UpstreamUnavailableError: a failed result, and nothing recorded.
Refuse(c) ==
    /\ pc[c] \in Ended
    /\ ~Allowed
    /\ pc' = [pc EXCEPT ![c] = "failed"]
    /\ sends' = [sends EXCEPT ![c] = 0]
    /\ UNCHANGED <<breakerVars, attempt>>

End(c, result) ==
    /\ pc' = [pc EXCEPT ![c] = result]
    /\ UNCHANGED <<attempt, sends>>

AnswerOk(c) ==
    /\ pc[c] = "sending"
    /\ RecordSuccess
    /\ End(c, "success")

\* A 4xx is recorded as a failure and ends the call.
AnswerRejected(c) ==
    /\ pc[c] = "sending"
    /\ RecordFailure
    /\ End(c, "failed")

\* Mutant: range(max_retries + 2).
LastTry_OffByOne(c) == attempt[c] > MaxRetries

LastTry(c) == attempt[c] >= MaxRetries

\* A timeout, a 5xx, a transport error or a body that is not JSON: recorded,
\* then tried again after a pause, or raised when it was the last try.
AnswerFailure(c) ==
    /\ pc[c] = "sending"
    /\ RecordFailure
    /\ \/ LastTry(c) /\ End(c, "failed")
       \/ /\ ~LastTry(c)
          /\ pc' = [pc EXCEPT ![c] = "sleeping"]
          /\ UNCHANGED <<attempt, sends>>

\* Mutant: a retry waits until the circuit lets it through.
Retry_AsksCircuit(c) ==
    /\ pc[c] = "sleeping"
    /\ Allowed
    /\ pc' = [pc EXCEPT ![c] = "sending"]
    /\ attempt' = [attempt EXCEPT ![c] = @ + 1]
    /\ sends' = [sends EXCEPT ![c] = @ + 1]
    /\ UNCHANGED breakerVars

\* The retry does not ask the circuit again.
Retry(c) ==
    /\ pc[c] = "sleeping"
    /\ pc' = [pc EXCEPT ![c] = "sending"]
    /\ attempt' = [attempt EXCEPT ![c] = @ + 1]
    /\ sends' = [sends EXCEPT ![c] = @ + 1]
    /\ UNCHANGED breakerVars

\* Any other exception becomes an INTERNAL_ERROR result that is not recorded.
Unhandled(c) ==
    /\ pc[c] = "sending"
    /\ End(c, "failed")
    /\ UNCHANGED breakerVars

\* The pipeline's deadline cancels the task in the middle of its await.
Cancel(c) ==
    /\ pc[c] \in Running
    /\ End(c, "cancelled")
    /\ UNCHANGED breakerVars

Tick ==
    /\ state = "open"
    /\ age < Recovery
    /\ age' = age + 1
    /\ UNCHANGED <<state, failures, pc, attempt, sends>>

ClientNext ==
    \/ \E c \in Calls :
          \/ StartCall(c) \/ Refuse(c)
          \/ AnswerOk(c) \/ AnswerRejected(c) \/ AnswerFailure(c)
          \/ Retry(c) \/ Unhandled(c) \/ Cancel(c)
    \/ Tick

ClientSpec == ClientInit /\ [][ClientNext]_clientVars

\* Pipelines keep calling, every try is answered or times out, a pause ends, and
\* time passes.  Cancellation is never owed to anyone.
ClientFairness ==
    /\ WF_clientVars(Tick)
    /\ \A c \in Calls :
          /\ WF_clientVars(StartCall(c))
          /\ WF_clientVars(AnswerOk(c) \/ AnswerRejected(c) \/ AnswerFailure(c))
          /\ WF_clientVars(Retry(c))

ClientFairSpec == ClientSpec /\ ClientFairness

-----------------------------------------------------------------------------
(* Types of the breaker's fields and of the calls. *)
ClientTypeOK ==
    /\ state \in {"closed", "open", "half_open"}
    /\ failures \in 0..Threshold
    /\ age \in NotStamped..Recovery
    /\ pc \in [Calls -> Running \cup Ended]
    /\ attempt \in [Calls -> 0..MaxRetries]
    /\ sends \in [Calls -> 0..(MaxRetries + 1)]

(* The state and the count, changed by late results of calls admitted in   *)
(* any earlier state, always agree: the circuit is closed exactly while it *)
(* has counted fewer failures in a row than the threshold.                 *)
StateAgreesWithCount == (state = "closed") <=> (failures < Threshold)

(* allow() asserts that an open circuit knows when it opened.              *)
OpenIsStamped == state = "open" => age # NotStamped

(* What the fields of the breaker say of one another, always.              *)
ClientConsistent == ClientTypeOK /\ StateAgreesWithCount /\ OpenIsStamped

(* However the late failures of retries re-stamp an open circuit, and      *)
(* however often it is asked in the meantime, it half-opens in the end.    *)
OpenIsTemporary == (state = "open") ~> (state # "open")

(* The client is one of the calls the pipeline was promised.               *)
SC == INSTANCE StageCall WITH
        MaxSends <- MaxRetries + 1,
        status <- [c \in Calls |-> IF pc[c] \in Running THEN "running" ELSE pc[c]]

ImplementsStageCall == SC!Spec

(* ... and every call it starts ends.                                      *)
EveryCallEnds == SC!Fairness
=============================================================================
