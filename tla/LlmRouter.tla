----------------------------- MODULE LlmRouter -----------------------------
(***************************************************************************)
(* The completion router (llm/router.py): concurrent requests that share   *)
(* one circuit breaker (llm/circuit_breaker.py) and one token bucket       *)
(* (llm/rate_limiter.py) per provider.                                     *)
(*                                                                         *)
(* A target stands for the model of one provider.  An attempt yields only  *)
(* while it awaits the provider, so from there to its entry in attempts is *)
(* one step.  A fallback loop that skips a target goes on without yielding;*)
(* here other requests may step in between, which the code's threading     *)
(* locks are there for.                                                    *)
(***************************************************************************)
EXTENDS FiniteSetsExt, Sequences

CONSTANTS
    Requests,       \* requests, each run once
    Providers,
    Configured,     \* the providers that have credentials
    Strategies,     \* the strategies requests may ask for
    TargetLists,    \* the target lists that _resolve_targets may return
    Fanout,         \* parallel_fanout
    Threshold,      \* cb_failure_threshold
    Limited,        \* rate_limit_per_minute > 0
    Burst,          \* rate_limit_burst
    Answers         \* what providers answer: [content, confidence], in hundredths

ASSUME RouterAssumption ==
    /\ Configured \subseteq Providers
    /\ Strategies \subseteq {"single", "fallback", "any", "vote", "confidence"}
    /\ TargetLists \subseteq Seq(Providers) \ {<<>>}
    /\ Fanout \in Nat \ {0}
    /\ Threshold \in Nat \ {0}
    /\ Limited \in BOOLEAN
    /\ Burst \in Nat
    /\ \A a \in Answers : a.confidence \in 0..100

VARIABLES
    circuit,    \* circuit[p]: _state of p's breaker
    failures,   \* failures[p]: _failures, saturated at Threshold
    cooled,     \* cooled[p]: recovery_seconds have passed since _opened_at
    tokens,     \* tokens[p]: whole tokens in p's bucket
    strategy,   \* strategy[q]
    targets,    \* targets[q]: the targets q may try
    pc,         \* pc[q]: where q is, or how it ended
    task,       \* task[q][i]: what became of q's attempt on target i
    answer,     \* answer[q][i]: what target i answered
    attempts,   \* attempts[q]: targets and statuses, in the order they were entered
    winner,     \* winner[q]: the target q answers with, 0 for none
    refills     \* history: tokens added to p's bucket

shared == <<circuit, failures, cooled, tokens, refills>>
vars == <<shared, strategy, targets, pc, task, answer, attempts, winner>>

NoAnswer == [content |-> "", confidence |-> 0]

Busy == {"running", "settling", "cancelling"}
Errors == {"unavailable", "provider_failed"}

Init ==
    /\ circuit = [p \in Providers |-> "closed"]
    /\ failures = [p \in Providers |-> 0]
    /\ cooled = [p \in Providers |-> FALSE]
    /\ tokens = [p \in Providers |-> Burst]
    /\ strategy = [q \in Requests |-> "none"]
    /\ targets = [q \in Requests |-> <<>>]
    /\ pc = [q \in Requests |-> "idle"]
    /\ task = [q \in Requests |-> <<>>]
    /\ answer = [q \in Requests |-> <<>>]
    /\ attempts = [q \in Requests |-> <<>>]
    /\ winner = [q \in Requests |-> 0]
    /\ refills = [p \in Providers |-> 0]

-----------------------------------------------------------------------------
(* A provider's circuit breaker.                                           *)

Allowed(p) == circuit[p] # "open" \/ cooled[p]

EnsureAllowed(p) ==
    /\ Allowed(p)
    /\ circuit' = [circuit EXCEPT ![p] = IF @ = "open" THEN "half_open" ELSE @]
    /\ UNCHANGED <<failures, cooled>>

RecordSuccess(p) ==
    /\ failures' = [failures EXCEPT ![p] = 0]
    /\ circuit' = [circuit EXCEPT ![p] = "closed"]
    /\ UNCHANGED cooled

RecordFailure(p) ==
    LET count == IF failures[p] < Threshold THEN failures[p] + 1 ELSE Threshold
        trips == circuit[p] = "half_open" \/ count >= Threshold
    IN  /\ failures' = [failures EXCEPT ![p] = count]
        /\ circuit' = [circuit EXCEPT ![p] = IF trips THEN "open" ELSE @]
        /\ cooled' = [cooled EXCEPT ![p] = IF trips THEN FALSE ELSE @]

(* A provider's token bucket.                                              *)

\* Mutant: a token too many.
HasToken_OffByOne(p) == ~Limited \/ tokens[p] >= 0

HasToken(p) == ~Limited \/ tokens[p] > 0

Acquire(p) ==
    /\ HasToken(p)
    /\ tokens' = [tokens EXCEPT ![p] = IF Limited THEN @ - 1 ELSE @]
    /\ UNCHANGED refills

-----------------------------------------------------------------------------
(* One attempt.                                                            *)

Sequential(q) == strategy[q] \in {"single", "fallback"}

\* Mutant: the last entry decides.
ErrorKind_ByLast(entries) ==
    IF entries[Len(entries)].status = "failure" THEN "provider_failed" ELSE "unavailable"

\* _attempts_to_error over the attempts entries.
ErrorKind(entries) ==
    IF \E k \in DOMAIN entries : entries[k].status = "failure"
    THEN "provider_failed" ELSE "unavailable"

Entry(i, status) == [target |-> i, status |-> status]

Statuses == [skipped |-> "skipped", failed |-> "failure", won |-> "success"]

\* Mutant: a skipped target is not entered.
Enter_OnlyCalls(q, i, how) ==
    /\ task' = [task EXCEPT ![q][i] = how]
    /\ attempts' = [attempts EXCEPT ![q] =
           IF how = "skipped" THEN @ ELSE Append(@, Entry(i, Statuses[how]))]

Enter(q, i, how) ==
    /\ task' = [task EXCEPT ![q][i] = how]
    /\ attempts' = [attempts EXCEPT ![q] = Append(@, Entry(i, Statuses[how]))]

\* The target is skipped, or its provider failed.  A sequential strategy
\* that has no target left raises.
Lose(q, i, how) ==
    /\ Enter(q, i, how)
    /\ pc' = [pc EXCEPT ![q] =
           IF Sequential(q) /\ i = Len(targets[q]) THEN ErrorKind(attempts'[q]) ELSE @]
    /\ UNCHANGED <<strategy, targets, answer, winner>>

\* A sequential strategy returns the first candidate it gets.
Win(q, i, a) ==
    /\ Enter(q, i, "won")
    /\ answer' = [answer EXCEPT ![q][i] = a]
    /\ pc' = [pc EXCEPT ![q] = IF Sequential(q) THEN "returned" ELSE @]
    /\ winner' = [winner EXCEPT ![q] = IF Sequential(q) THEN i ELSE @]
    /\ UNCHANGED <<strategy, targets>>

\* Target i is the next to try: one after the other has failed, or all at once.
Turn(q, i) ==
    /\ pc[q] = "running"
    /\ task[q][i] = "waiting"
    /\ \A j \in 1..(i - 1) :
          task[q][j] \in (IF Sequential(q) THEN {"skipped", "failed"}
                          ELSE {"calling", "skipped", "failed", "won"})

SkipUnconfigured(q, i) ==
    /\ Turn(q, i)
    /\ targets[q][i] \notin Configured
    /\ Lose(q, i, "skipped")
    /\ UNCHANGED shared

SkipOpen(q, i) ==
    /\ Turn(q, i)
    /\ targets[q][i] \in Configured
    /\ ~Allowed(targets[q][i])
    /\ Lose(q, i, "skipped")
    /\ UNCHANGED shared

\* The breaker has let the attempt through when the bucket refuses it.
SkipLimited(q, i) ==
    /\ Turn(q, i)
    /\ targets[q][i] \in Configured
    /\ EnsureAllowed(targets[q][i])
    /\ ~HasToken(targets[q][i])
    /\ Lose(q, i, "skipped")
    /\ UNCHANGED <<tokens, refills>>

\* Mutant: the token is not taken when the call is the probe of a circuit.
Call_FreeProbe(q, i) ==
    /\ Turn(q, i)
    /\ targets[q][i] \in Configured
    /\ EnsureAllowed(targets[q][i])
    /\ HasToken(targets[q][i])
    /\ IF circuit[targets[q][i]] = "open" THEN UNCHANGED <<tokens, refills>>
       ELSE Acquire(targets[q][i])
    /\ task' = [task EXCEPT ![q][i] = "calling"]
    /\ UNCHANGED <<strategy, targets, pc, answer, attempts, winner>>

Call(q, i) ==
    /\ Turn(q, i)
    /\ targets[q][i] \in Configured
    /\ EnsureAllowed(targets[q][i])
    /\ Acquire(targets[q][i])
    /\ task' = [task EXCEPT ![q][i] = "calling"]
    /\ UNCHANGED <<strategy, targets, pc, answer, attempts, winner>>

\* The provider answers; a cost above the cap is known only now, and only logged.
AnswerOk(q, i) ==
    /\ task[q][i] = "calling"
    /\ RecordSuccess(targets[q][i])
    /\ \E a \in Answers : Win(q, i, a)
    /\ UNCHANGED <<tokens, refills>>

\* A timeout, a provider error or any other exception.
AnswerError(q, i) ==
    /\ task[q][i] = "calling"
    /\ RecordFailure(targets[q][i])
    /\ Lose(q, i, "failed")
    /\ UNCHANGED <<tokens, refills>>

-----------------------------------------------------------------------------
(* The strategies.                                                         *)

\* run: the parallel strategies try the first Fanout targets at once.
Run(q, s, list) ==
    LET most == CASE s = "single"   -> 1
                  [] s = "fallback" -> Len(list)
                  [] OTHER          -> Fanout
        use  == SubSeq(list, 1, Min({most, Len(list)}))
    IN  /\ pc[q] = "idle"
        /\ strategy' = [strategy EXCEPT ![q] = s]
        /\ targets' = [targets EXCEPT ![q] = use]
        /\ task' = [task EXCEPT ![q] = [i \in DOMAIN use |-> "waiting"]]
        /\ answer' = [answer EXCEPT ![q] = [i \in DOMAIN use |-> NoAnswer]]
        /\ pc' = [pc EXCEPT ![q] = "running"]
        /\ UNCHANGED <<shared, attempts, winner>>

Begin(q) == \E s \in Strategies, list \in TargetLists : Run(q, s, list)

\* _guard_prompt_size: the prompt is too long.
Reject(q) ==
    /\ pc[q] = "idle"
    /\ pc' = [pc EXCEPT ![q] = "rejected"]
    /\ UNCHANGED <<shared, strategy, targets, task, answer, attempts, winner>>

Won(q) == {i \in DOMAIN task[q] : task[q][i] = "won"}

Over(q) == \A i \in DOMAIN task[q] : task[q][i] \in {"skipped", "failed", "won"}

Votes(q, i) == Cardinality({j \in Won(q) : answer[q][j].content = answer[q][i].content})

Peak(q, i) ==
    Max({answer[q][j].confidence :
            j \in {j \in Won(q) : answer[q][j].content = answer[q][i].content}})

\* Mutant: the vote goes to the most confident candidate of all.
VoteWinner_Confidence(q) ==
    Min({i \in Won(q) : \A j \in Won(q) : answer[q][j].confidence <= answer[q][i].confidence})

\* The content with the most votes, then with the highest peak, then the first;
\* of its candidates the most confident, then the first.
VoteWinner(q) ==
    LET best == {i \in Won(q) : \A j \in Won(q) :
                    \/ Votes(q, j) < Votes(q, i)
                    \/ Votes(q, j) = Votes(q, i) /\ Peak(q, j) <= Peak(q, i)}
        top  == answer[q][Min(best)].content
    IN  Min({i \in best : /\ answer[q][i].content = top
                          /\ answer[q][i].confidence = Peak(q, i)})

ConfidenceWinner(q) ==
    Min({i \in Won(q) : \A j \in Won(q) : answer[q][j].confidence <= answer[q][i].confidence})

\* _run_all has gathered every attempt: vote and confidence choose.
Collect(q) ==
    /\ pc[q] = "running"
    /\ strategy[q] \in {"vote", "confidence"}
    /\ Over(q)
    /\ IF Won(q) = {}
       THEN /\ pc' = [pc EXCEPT ![q] = ErrorKind(attempts[q])]
            /\ UNCHANGED winner
       ELSE /\ pc' = [pc EXCEPT ![q] = "returned"]
            /\ winner' = [winner EXCEPT ![q] = IF strategy[q] = "vote" THEN VoteWinner(q)
                                               ELSE ConfidenceWinner(q)]
    /\ UNCHANGED <<shared, strategy, targets, task, answer, attempts>>

\* task.cancel() on every task of q that is not done; one that has not begun
\* never does.
CancelTasks(q) ==
    task' = [task EXCEPT ![q] = [i \in DOMAIN @ |->
                CASE @[i] = "calling" -> "cancelling"
                  [] @[i] = "waiting" -> "dropped"
                  [] OTHER            -> @[i]]]

FirstSuccess(q) ==
    LET successes == {k \in DOMAIN attempts[q] : attempts[q][k].status = "success"}
    IN  IF successes = {} THEN 0 ELSE attempts[q][Min(successes)].target

\* Mutant: parallel_any waits for a candidate, but not for the last failure.
Settled_ByWinner(q) == Won(q) # {}

Settled(q) == Won(q) # {} \/ Over(q)

\* parallel_any takes the first candidate as_completed yields, and cancels the
\* rest.  Every task took its first step before the request could wake.
Settle(q) ==
    /\ pc[q] = "running"
    /\ strategy[q] = "any"
    /\ Settled(q)
    /\ \A i \in DOMAIN task[q] : task[q][i] # "waiting"
    /\ winner' = [winner EXCEPT ![q] = FirstSuccess(q)]
    /\ pc' = [pc EXCEPT ![q] = "settling"]
    /\ CancelTasks(q)
    /\ UNCHANGED <<shared, strategy, targets, answer, attempts>>

\* A cancelled attempt enters nothing and tells the breaker nothing.
Drain(q, i) ==
    /\ task[q][i] = "cancelling"
    /\ task' = [task EXCEPT ![q][i] = "cancelled"]
    /\ UNCHANGED <<shared, strategy, targets, pc, answer, attempts, winner>>

\* Mutant: the request does not await the tasks it has cancelled.
Drained_NotAwaited(q) == TRUE

Drained(q) == \A i \in DOMAIN task[q] : task[q][i] # "cancelling"

\* gather has awaited the cancelled tasks.
Return(q) ==
    /\ pc[q] = "settling"
    /\ Drained(q)
    /\ pc' = [pc EXCEPT ![q] = IF winner[q] # 0 THEN "returned" ELSE ErrorKind(attempts[q])]
    /\ UNCHANGED <<shared, strategy, targets, task, answer, attempts, winner>>

\* The caller cancels the request; gather cancels its tasks and awaits them.
Cancel(q) ==
    /\ pc[q] \in {"running", "settling"}
    /\ pc' = [pc EXCEPT ![q] = "cancelling"]
    /\ CancelTasks(q)
    /\ winner' = [winner EXCEPT ![q] = 0]
    /\ UNCHANGED <<shared, strategy, targets, answer, attempts>>

Abort(q) ==
    /\ pc[q] = "cancelling"
    /\ Drained(q)
    /\ pc' = [pc EXCEPT ![q] = "cancelled"]
    /\ UNCHANGED <<shared, strategy, targets, task, answer, attempts, winner>>

-----------------------------------------------------------------------------
(* Time. *)

Cool(p) ==
    /\ circuit[p] = "open"
    /\ ~cooled[p]
    /\ cooled' = [cooled EXCEPT ![p] = TRUE]
    /\ UNCHANGED <<circuit, failures, tokens, refills>>
    /\ UNCHANGED <<strategy, targets, pc, task, answer, attempts, winner>>

Refill(p) ==
    /\ Limited
    /\ tokens[p] < Burst
    /\ tokens' = [tokens EXCEPT ![p] = @ + 1]
    /\ refills' = [refills EXCEPT ![p] = @ + 1]
    /\ UNCHANGED <<circuit, failures, cooled>>
    /\ UNCHANGED <<strategy, targets, pc, task, answer, attempts, winner>>

Try(q, i) == SkipUnconfigured(q, i) \/ SkipOpen(q, i) \/ SkipLimited(q, i) \/ Call(q, i)

Proceed ==
    \/ \E q \in Requests :
          \/ Collect(q) \/ Settle(q) \/ Return(q) \/ Cancel(q) \/ Abort(q)
          \/ \E i \in DOMAIN task[q] :
                Try(q, i) \/ AnswerOk(q, i) \/ AnswerError(q, i) \/ Drain(q, i)
    \/ \E p \in Providers : Cool(p) \/ Refill(p)

Next == Proceed \/ \E q \in Requests : Begin(q) \/ Reject(q)

Spec == Init /\ [][Next]_vars

MaxTargets == Max({Len(list) : list \in TargetLists})

\* Every request begins, its tasks run, every provider call is answered or times
\* out (timeout_seconds), and a cancelled task unwinds.  Nobody owes a
\* cancellation, a cooled circuit or a token.
Fairness ==
    \A q \in Requests :
        /\ WF_vars(Begin(q) \/ Reject(q)) /\ WF_vars(Collect(q)) /\ WF_vars(Settle(q))
        /\ WF_vars(Return(q)) /\ WF_vars(Abort(q))
        /\ \A i \in 1..MaxTargets :
              LET on == i \in DOMAIN task[q]
              IN  /\ WF_vars(on /\ Try(q, i))
                  /\ WF_vars(on /\ (AnswerOk(q, i) \/ AnswerError(q, i)))
                  /\ WF_vars(on /\ Drain(q, i))

FairSpec == Spec /\ Fairness

-----------------------------------------------------------------------------
(* Types. *)
TypeOK ==
    /\ circuit \in [Providers -> {"closed", "open", "half_open"}]
    /\ failures \in [Providers -> 0..Threshold]
    /\ cooled \in [Providers -> BOOLEAN]
    /\ tokens \in [Providers -> 0..Burst]
    /\ strategy \in [Requests -> Strategies \cup {"none"}]
    /\ targets \in [Requests -> Seq(Providers)]
    /\ pc \in [Requests -> Busy \cup Errors \cup {"idle", "returned", "cancelled", "rejected"}]
    /\ \A q \in Requests :
          /\ winner[q] \in {0} \cup DOMAIN task[q]
          /\ task[q] \in Seq({"waiting", "calling", "skipped", "failed", "won",
                              "cancelling", "cancelled", "dropped"})
          /\ answer[q] \in Seq(Answers \cup {NoAnswer})
          /\ attempts[q] \in Seq([target : DOMAIN task[q],
                                  status : {"skipped", "failure", "success"}])

(* When a request has ended, however it ended, no provider is still working*)
(* for it, and a sequential strategy never has two at work.                *)
NoCallOutlivesItsRequest ==
    \A q \in Requests :
        LET inFlight == {i \in DOMAIN task[q] : task[q][i] \in {"calling", "cancelling"}}
        IN  /\ pc[q] \notin Busy => inFlight = {}
            /\ Cardinality(inFlight) <= (IF Sequential(q) THEN 1 ELSE Fanout)

(* The attempts of a response account for every target that was tried to   *)
(* its end, once, whatever order the answers came in: a target that won    *)
(* with a success, and no other target with one.                           *)
AttemptsAccount ==
    \A q \in Requests :
        LET entered == attempts[q]
            ended   == {i \in DOMAIN task[q] : task[q][i] \in {"skipped", "failed", "won"}}
        IN  /\ {entered[k].target : k \in DOMAIN entered} = ended
            /\ Len(entered) = Cardinality(ended)
            /\ \A k \in DOMAIN entered :
                  entered[k].status = "success" <=> task[q][entered[k].target] = "won"

\* What the strategy of q promises of its winner.
Promised(q) ==
    LET w == winner[q] IN
    /\ w \in Won(q)
    /\ Sequential(q) => \A i \in 1..(w - 1) : task[q][i] \in {"skipped", "failed"}
    /\ strategy[q] = "any" =>
          \E k \in DOMAIN attempts[q] :
              /\ attempts[q][k].target = w
              /\ \A m \in 1..(k - 1) : attempts[q][m].status # "success"
    /\ strategy[q] = "vote" => \A i \in Won(q) : Votes(q, i) <= Votes(q, w)
    /\ strategy[q] = "confidence" =>
          \A i \in Won(q) : answer[q][i].confidence <= answer[q][w].confidence

(* What is returned is what the strategy promises, late answers or not:    *)
(* the first target in order that could answer (fallback), the first to    *)
(* answer (any), an answer nobody outvotes (vote), the most confident one. *)
WinnerByStrategy == \A q \in Requests : pc[q] = "returned" => Promised(q)

(* An error tells what happened: 503 when no provider was asked at all, a  *)
(* provider failure when one was; and neither drops a candidate.           *)
ErrorsAreHonest ==
    \A q \in Requests :
        /\ pc[q] \in Errors => Won(q) = {}
        /\ pc[q] = "unavailable" => \A i \in DOMAIN task[q] : task[q][i] = "skipped"
        /\ pc[q] = "provider_failed" => \E i \in DOMAIN task[q] : task[q][i] = "failed"

(* Every provider call is paid for with one token, probes, losers and      *)
(* cancelled calls included, and a skipped target costs none.              *)
CallsTo(p) ==
    UNION {{<<q, i>> : i \in {j \in DOMAIN task[q] :
                /\ targets[q][j] = p
                /\ task[q][j] \in {"calling", "failed", "won", "cancelling", "cancelled"}}}
           : q \in Requests}

OneTokenPerCall ==
    Limited => \A p \in Providers :
        tokens[p] + Cardinality(CallsTo(p)) = Burst + refills[p]

(* What is in flight, what was entered and what was paid for agree.        *)
Consistent == TypeOK /\ NoCallOutlivesItsRequest /\ AttemptsAccount /\ OneTokenPerCall

(* Every request ends: with a response, an error or its own cancellation.  *)
EveryRequestEnds == \A q \in Requests : <>(pc[q] \notin Busy \cup {"idle"})
=============================================================================
