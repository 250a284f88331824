----------------------------- MODULE InputGates -----------------------------
(***************************************************************************)
(* The two gates of the input path (managers/input_manager.py): the rate   *)
(* limiter of one user, and the circuit breaker of one processor.  Neither *)
(* awaits while it holds its lock, so that each call of them is a step; its *)
(* time is a choice, no earlier than that of the call before.              *)
(***************************************************************************)
EXTENDS Sequences, Integers, FiniteSets

CONSTANTS
    MaxRequests,        \* rate_limit_per_minute; none if it is 0
    Window,             \* window_seconds
    FailureThreshold,
    Recovery,           \* recovery_seconds
    MaxTime, MaxCalls   \* bounds of the model: the clock, and calls

VARIABLES
    bucket,             \* _buckets: the times of the user's requests
    breaker,
    log                 \* history: what was answered or recorded, and when

gates == <<bucket, breaker, log>>

ASSUME GatesAssumption ==
    /\ {MaxRequests, MaxTime, MaxCalls} \subseteq Nat
    /\ {Window, FailureThreshold, Recovery} \subseteq Nat \ {0}

NotOpened == -1
NewBreaker == [failures |-> 0, openedAt |-> NotOpened]

GatesInit ==
    /\ bucket = <<>>
    /\ breaker = NewBreaker
    /\ log = <<>>

Write(what, now) == log' = Append(log, [what |-> what, at |-> now])

-----------------------------------------------------------------------------
\* [t for t in bucket if t > cutoff]: the bucket is in order of time, so that it
\* begins with those which are too old.
Kept(now) ==
    LET old == {k \in DOMAIN bucket : bucket[k] <= now - Window}
    IN  SubSeq(bucket, Cardinality(old) + 1, Len(bucket))

\* Mutant: a request that is refused counts as well.
Allow_CountsAll(now) ==
    /\ bucket' = Append(Kept(now), now)
    /\ Write(IF Len(Kept(now)) < MaxRequests THEN "allowed" ELSE "refused", now)
    /\ UNCHANGED breaker

\* AsyncRateLimiter.allow
Allow(now) ==
    /\ \/ /\ MaxRequests = 0
          /\ UNCHANGED bucket /\ Write("allowed", now)
       \/ /\ Len(Kept(now)) < MaxRequests
          /\ bucket' = Append(Kept(now), now) /\ Write("allowed", now)
       \/ /\ MaxRequests # 0 /\ Len(Kept(now)) >= MaxRequests
          /\ bucket' = Kept(now) /\ Write("refused", now)
    /\ UNCHANGED breaker

-----------------------------------------------------------------------------
\* CircuitBreaker.allow: once the recovery is over everybody is let through,
\* until a success.
LetsThrough(now) == breaker.openedAt = NotOpened \/ now - breaker.openedAt >= Recovery

\* A result comes whenever its call ends: others may have come since it was let in.
RecordSuccess(now) ==
    /\ breaker' = NewBreaker
    /\ Write("success", now)
    /\ UNCHANGED bucket

\* Mutant: every failure of an open circuit starts its recovery anew.
RecordFailure_Restamps(now) ==
    /\ breaker' = [failures |-> breaker.failures + 1,
                   openedAt |-> IF breaker.failures + 1 >= FailureThreshold
                                THEN now ELSE breaker.openedAt]
    /\ Write("failure", now)
    /\ UNCHANGED bucket

RecordFailure(now) ==
    /\ breaker' = [failures |-> breaker.failures + 1,
                   openedAt |-> IF /\ breaker.failures + 1 >= FailureThreshold
                                   /\ breaker.openedAt = NotOpened
                                THEN now ELSE breaker.openedAt]
    /\ Write("failure", now)
    /\ UNCHANGED bucket

GatesNext ==
    /\ Len(log) < MaxCalls
    /\ \E now \in 0..MaxTime :
          /\ log # <<>> => now >= log[Len(log)].at
          /\ Allow(now) \/ RecordSuccess(now) \/ RecordFailure(now)

GatesSpec == GatesInit /\ [][GatesNext]_gates

-----------------------------------------------------------------------------
(* A request is refused exactly if MaxRequests others have been allowed in *)
(* the window before it: refused ones do not count, and no window, however *)
(* it lies, has more.                                                      *)
LimiterIsExact ==
    \A n \in DOMAIN log :
        LET before == {m \in 1..(n - 1) : log[m].what = "allowed" /\ log[m].at > log[n].at - Window}
            room == MaxRequests = 0 \/ Cardinality(before) < MaxRequests
        IN  /\ log[n].what = "allowed" => room
            /\ log[n].what = "refused" => ~room

(* The circuit refuses exactly during the recovery that begins with the    *)
(* failure that was one too many since the last success, whatever other    *)
(* calls that were let in before or after it report meanwhile.             *)
BreakerIsExact ==
    LET inARow == {k \in DOMAIN log :
                      /\ log[k].what = "failure"
                      /\ \A j \in k..Len(log) : log[j].what # "success"}
        opener(k) == Cardinality({j \in inARow : j <= k}) = FailureThreshold
    IN  \A now \in 0..(MaxTime + Recovery) :
            (\A k \in DOMAIN log : log[k].at <= now)
            => (~LetsThrough(now) <=> \E k \in inARow : opener(k) /\ now - log[k].at < Recovery)

(* The limiter and the breaker refuse whom they should and nobody else.    *)
GatesAreExact == LimiterIsExact /\ BreakerIsExact
=============================================================================
