----------------------------- MODULE StageCall -----------------------------
(***************************************************************************)
(* What BaseStageClient.call (hub/clients/base.py) promises the pipeline,  *)
(* whatever its mode: a call that starts either is cancelled by its caller *)
(* or returns exactly one result, success or failure; a success has reached*)
(* the downstream; and no call sends more than MaxSends requests.          *)
(***************************************************************************)
EXTENDS Integers

CONSTANTS
    Calls,      \* callers of the stage, each with at most one call at a time
    MaxSends    \* most requests one call may send

VARIABLES
    status,     \* status[c]: what became of the last call of c
    sends       \* sends[c]: requests it has sent

vars == <<status, sends>>

Results == {"success", "failed"}
Statuses == {"idle", "running", "cancelled"} \cup Results

Init ==
    /\ status = [c \in Calls |-> "idle"]
    /\ sends = [c \in Calls |-> 0]

\* A call may fail at once (open circuit), start by sending, or just start.
Begin(c) ==
    /\ status[c] # "running"
    /\ \E s \in {"running", "failed"} : status' = [status EXCEPT ![c] = s]
    /\ \E n \in {0, 1} : sends' = [sends EXCEPT ![c] = n]

Resend(c) ==
    /\ status[c] = "running"
    /\ sends[c] < MaxSends
    /\ sends' = [sends EXCEPT ![c] = @ + 1]
    /\ UNCHANGED status

Return(c) ==
    /\ status[c] = "running"
    /\ \E s \in Results : /\ s = "success" => sends[c] > 0
                          /\ status' = [status EXCEPT ![c] = s]
    /\ UNCHANGED sends

Cancel(c) ==
    /\ status[c] = "running"
    /\ status' = [status EXCEPT ![c] = "cancelled"]
    /\ UNCHANGED sends

Next == \E c \in Calls : Begin(c) \/ Resend(c) \/ Return(c) \/ Cancel(c)

Spec == Init /\ [][Next]_vars

\* A call that runs ends: nobody waits on a stage for ever.
Fairness == \A c \in Calls : WF_vars(Return(c) \/ Cancel(c))

FairSpec == Spec /\ Fairness
=============================================================================
