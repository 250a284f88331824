----------------------------- MODULE ModelGuard -----------------------------
(***************************************************************************)
(* What the intent and the decision service share, line for line: the      *)
(* circuit breaker around their model (intent/circuit_breaker.py,          *)
(* decision/circuit_breaker.py) and the cache of their answers             *)
(* (intent/cache.py, decision/cache.py).  Both are used by worker threads. *)
(* Every method of the breaker holds its lock and is part of one step.     *)
(*                                                                         *)
(* The two tiers of the cache are one table here: an entry may be missed   *)
(* at any time (pushed out of memory, expired or unreadable in Redis) and  *)
(* found again at any other.                                               *)
(***************************************************************************)
EXTENDS Sequences, FiniteSets, Integers

CONSTANTS
    Threads,        \* threads of the server's pool
    Threshold       \* failure_threshold

ASSUME GuardAssumption == Threshold \in Nat \ {0}

VARIABLES
    circuit,        \* _state
    failures,       \* _failures, saturated at Threshold
    cooled,         \* recovery_seconds have passed since _opened_at
    cached          \* the last answer put under each key

breaker == <<circuit, failures, cooled>>
guard == <<breaker, cached>>

Missing == [by |-> "nobody"]

GuardInit(keys) ==
    /\ circuit = "closed"
    /\ failures = 0
    /\ cooled = FALSE
    /\ cached = [k \in keys |-> Missing]

\* allow() answers True, and half-opens an open circuit whose time has come.
Allow ==
    /\ circuit = "open" => cooled
    /\ circuit' = IF circuit = "open" THEN "half_open" ELSE circuit
    /\ UNCHANGED <<failures, cooled>>

\* ... or False.
Refuse == circuit = "open" /\ ~cooled /\ UNCHANGED breaker

\* Mutant: the count survives a success.
RecordSuccess_KeepsCount ==
    /\ circuit' = "closed"
    /\ cooled' = FALSE
    /\ UNCHANGED failures

RecordSuccess ==
    /\ circuit' = "closed"
    /\ failures' = 0
    /\ cooled' = FALSE

RecordFailure ==
    /\ failures' = IF failures < Threshold THEN failures + 1 ELSE failures
    /\ IF circuit = "half_open" \/ failures' = Threshold
       THEN circuit' = "open" /\ cooled' = FALSE
       ELSE UNCHANGED <<circuit, cooled>>

Cool ==
    /\ circuit = "open" /\ ~cooled
    /\ cooled' = TRUE
    /\ UNCHANGED <<circuit, failures, cached>>

Put(key, answer) == cached' = [cached EXCEPT ![key] = answer]

(* The circuit is closed exactly while there is room for another failure.  *)
GuardTypeOK ==
    /\ circuit \in {"closed", "open", "half_open"}
    /\ failures \in 0..Threshold
    /\ circuit = "closed" <=> failures < Threshold
    /\ cooled \in BOOLEAN
=============================================================================
