---------------------------- MODULE HubPipeline ----------------------------
(***************************************************************************)
(* The decision hub: PipelineOrchestrator.run (hub/pipeline.py) for every  *)
(* item of one batch, under HubService.run_pipeline and run_batch          *)
(* (hub/service.py).  A pipeline yields only while it awaits a stage, so   *)
(* everything it does from one stage's answer to the next stage's call is  *)
(* one step.  A stage answers as StageCall promises: with a result, which  *)
(* may be empty, or with a failure.                                        *)
(***************************************************************************)
EXTENDS Sequences, Integers

CONSTANTS Items     \* the requests of the batch; a single request is a batch of one.  A batch
                    \* of more than max_batch_size is refused before any of it is started

ASSUME BatchAssumption == Items # {}    \* BatchPipelineRequest._non_empty

VARIABLES
    options,    \* options[p]: include_llm, include_report, a supported language?
    at,         \* at[p]: the stage p awaits, or how p stands
    outcome,    \* outcome[p][s]: the outcome of stage s in p's response
    fed,        \* fed[p][s]: stages whose results went into the payload for s
    sequence,   \* sequence[p]: stage_sequence
    warnings,   \* warnings[p]: stages that p's response warns about
    overall,    \* overall[p]: overall_status
    batch       \* how run_batch stands

vars == <<options, at, outcome, fed, sequence, warnings, overall, batch>>

Stages == {"intent", "decision", "llm", "report"}
Outcomes == {"none", "success", "empty", "failed", "skipped"}

Init ==
    /\ options \in [Items -> [llm : BOOLEAN, report : BOOLEAN, language : BOOLEAN]]
    /\ at = [p \in Items |-> "waiting"]
    /\ outcome = [p \in Items |-> [s \in Stages |-> "none"]]
    /\ fed = [p \in Items |-> [s \in Stages |-> {}]]
    /\ sequence = [p \in Items |-> <<>>]
    /\ warnings = [p \in Items |-> {}]
    /\ overall = [p \in Items |-> "none"]
    /\ batch = "running"

-----------------------------------------------------------------------------
(* _compute_overall_status over the outcomes o that are not None.  A stage *)
(* that succeeded with an empty result counts as a success here.           *)
Succeeded == {"success", "empty"}

\* Mutant: a skipped stage is overlooked.
OverallStatus_OverlooksSkipped(o) ==
    LET ran == {s \in Stages : o[s] \notin {"none", "skipped"}}
    IN  IF ran = {} THEN "failed"
        ELSE IF \A s \in ran : o[s] \in Succeeded THEN "success"
        ELSE IF \E s \in ran : o[s] \in Succeeded THEN "partial"
        ELSE "failed"

OverallStatus(o) ==
    LET ran == {s \in Stages : o[s] # "none"}
    IN  IF ran = {} THEN "failed"
        ELSE IF \A s \in ran : o[s] \in Succeeded THEN "success"
        ELSE IF \E s \in ran : o[s] \in Succeeded THEN "partial"
        ELSE "failed"

\* Mutant: a failed stage's body is passed on.
Usable_FailedToo(o) == {s \in Stages : o[s] \in {"success", "failed"}}

\* The results the payload builders put in: those of successful stages, unless
\* they are empty ("if intent:", "if decision:", "if llm:").
Usable(o) == {s \in Stages : o[s] = "success"}

\* Mutant: a decision that was skipped is entered in the sequence all the same.
Await_SequencesSkipped(p, s, o) ==
    /\ at' = [at EXCEPT ![p] = s]
    /\ fed' = [fed EXCEPT ![p][s] = Usable(o)]
    /\ sequence' = [sequence EXCEPT ![p] =
           @ \o (IF o["decision"] = "skipped" THEN <<"decision", s>> ELSE <<s>>)]
    /\ UNCHANGED <<overall, batch>>

Await(p, s, o) ==
    /\ at' = [at EXCEPT ![p] = s]
    /\ fed' = [fed EXCEPT ![p][s] = Usable(o)]
    /\ sequence' = [sequence EXCEPT ![p] = Append(@, s)]
    /\ UNCHANGED <<overall, batch>>

\* Mutant: the batch returns when no other item is in the middle of a stage.
Respond_NotWaiting(p, o) ==
    /\ at' = [at EXCEPT ![p] = "responded"]
    /\ overall' = [overall EXCEPT ![p] = OverallStatus(o)]
    /\ batch' = IF batch = "running" /\ \A q \in Items \ {p} : at[q] \notin Stages
                THEN "ok" ELSE batch
    /\ UNCHANGED <<fed, sequence>>

\* The response is built; gather returns with the last of the responses.
Respond(p, o) ==
    /\ at' = [at EXCEPT ![p] = "responded"]
    /\ overall' = [overall EXCEPT ![p] = OverallStatus(o)]
    /\ batch' = IF batch = "running" /\ \A q \in Items \ {p} : at[q] = "responded"
                THEN "ok" ELSE batch
    /\ UNCHANGED <<fed, sequence>>

\* Mutant: an item that raised is left out and the batch waits for the others.
Fail_Swallowed(p, how) ==
    /\ at' = [at EXCEPT ![p] = how]
    /\ UNCHANGED <<options, outcome, fed, sequence, warnings, overall, batch>>

\* Mutant: the reason is written down as a stage outcome of no known status.
Fail_AsOutcome(p, how) ==
    /\ at' = [at EXCEPT ![p] = how]
    /\ outcome' = [outcome EXCEPT ![p]["intent"] = how]
    /\ batch' = IF batch = "running" THEN "error" ELSE batch
    /\ UNCHANGED <<options, fed, sequence, warnings, overall>>

\* gather(return_exceptions=False): the first exception is the batch's answer,
\* and the other items run on.
Fail(p, how) ==
    /\ at' = [at EXCEPT ![p] = how]
    /\ batch' = IF batch = "running" THEN "error" ELSE batch
    /\ UNCHANGED <<options, outcome, fed, sequence, warnings, overall>>

-----------------------------------------------------------------------------
\* What run does when the outcomes are o and stage s is behind it.
AfterDecision(p, o) ==
    IF options[p].llm THEN Await(p, "llm", o)
    ELSE IF options[p].report THEN Await(p, "report", o)
    ELSE Respond(p, o)

AfterLLM(p, o) ==
    IF options[p].report THEN Await(p, "report", o) ELSE Respond(p, o)

\* Mutant: the skipped decision is not warned about.
Skipped_Silently(o) == {}

\* The decision stage is skipped, with a warning, unless there is an intent.
Skipped(o) == IF o["intent"] = "success" THEN {} ELSE {"decision"}

Start(p) ==
    /\ at[p] = "waiting"
    /\ options[p].language
    /\ Await(p, "intent", outcome[p])
    /\ UNCHANGED <<options, outcome, warnings>>

\* _validate_language raises before the pipeline starts.
Reject(p) ==
    /\ at[p] = "waiting"
    /\ ~options[p].language
    /\ Fail(p, "rejected")

Warned(s, o) == {t \in {s} : o[t] = "failed"}

Answer(p) ==
    /\ at[p] \in Stages
    /\ \E answer \in {"success", "empty", "failed"} :
          LET s    == at[p]
              seen == [outcome[p] EXCEPT ![s] = answer]
              skip == IF s = "intent" THEN Skipped(seen) ELSE {}
              o    == [t \in Stages |-> IF s = "intent" /\ t = "decision" /\ answer # "success"
                                        THEN "skipped" ELSE seen[t]]
          IN  /\ outcome' = [outcome EXCEPT ![p] = o]
              /\ warnings' = [warnings EXCEPT ![p] = @ \cup Warned(s, o) \cup skip]
              /\ CASE s = "intent" /\ answer = "success" -> Await(p, "decision", o)
                   [] s = "intent" /\ answer # "success" -> AfterDecision(p, o)
                   [] s = "decision"                     -> AfterDecision(p, o)
                   [] s = "llm"                          -> AfterLLM(p, o)
                   [] s = "report"                       -> Respond(p, o)
    /\ UNCHANGED options

\* asyncio.wait_for cancels the pipeline and raises TimeoutError.
Deadline(p) ==
    /\ at[p] \in Stages
    /\ Fail(p, "expired")

\* All tasks have ended: the batch stays as it is.
Finished ==
    /\ \A p \in Items : at[p] \in {"responded", "rejected", "expired"}
    /\ UNCHANGED vars

Next ==
    \/ \E p \in Items : Start(p) \/ Reject(p) \/ Answer(p) \/ Deadline(p)
    \/ Finished

Spec == Init /\ [][Next]_vars

\* The event loop starts every task, and every deadline comes if the pipeline is
\* still there; no stage owes anyone an answer.
Fairness ==
    \A p \in Items : WF_vars(Start(p) \/ Reject(p)) /\ WF_vars(Deadline(p))

FairSpec == Spec /\ Fairness
-----------------------------------------------------------------------------
(* Types. *)
TypeOK ==
    /\ options \in [Items -> [llm : BOOLEAN, report : BOOLEAN, language : BOOLEAN]]
    /\ at \in [Items -> Stages \cup {"waiting", "responded", "rejected", "expired"}]
    /\ outcome \in [Items -> [Stages -> Outcomes]]
    /\ fed \in [Items -> [Stages -> SUBSET Stages]]
    /\ sequence \in [Items -> Seq(Stages)]
    /\ warnings \in [Items -> SUBSET Stages]
    /\ overall \in [Items -> {"none", "success", "partial", "failed"}]
    /\ batch \in {"running", "ok", "error"}

Responded == {p \in Items : at[p] = "responded"}

Requested(p) ==
    {"intent", "decision"} \cup (IF options[p].llm THEN {"llm"} ELSE {})
                           \cup (IF options[p].report THEN {"report"} ELSE {})

(* The overall status and the warnings, computed apart, tell one story: a  *)
(* response is a success exactly when every requested stage ran and        *)
(* succeeded, and when it is not it says why.                              *)
HonestStatus ==
    \A p \in Responded :
        /\ overall[p] = "success" <=> \A s \in Requested(p) : outcome[p][s] \in Succeeded
        /\ overall[p] = "failed" <=> \A s \in Requested(p) : outcome[p][s] \notin Succeeded

(* A response that is not a success carries a warning for every stage that *)
(* failed or was skipped, and a success may only be warned of nothing.     *)
DegradationIsWarned ==
    \A p \in Responded :
        /\ overall[p] # "success" => warnings[p] # {}
        /\ \A s \in Stages : outcome[p][s] \in {"failed", "skipped"} => s \in warnings[p]

(* A response tells the truth about its stages, in its status and in its   *)
(* warnings.                                                               *)
HonestResponse == HonestStatus /\ DegradationIsWarned

(* What is fed to a stage comes from stages before it that succeeded; the  *)
(* decision is asked only with an intent.                                  *)
Before(s) == CASE s = "intent"   -> {}
               [] s = "decision" -> {"intent"}
               [] s = "llm"      -> {"intent", "decision"}
               [] s = "report"   -> {"intent", "decision", "llm"}

OnlyResultsFlow ==
    \A p \in Items : \A s \in Stages :
        /\ fed[p][s] \subseteq {t \in Before(s) : outcome[p][t] = "success"}
        /\ outcome[p]["decision"] \in {"success", "empty", "failed"}
              => fed[p]["decision"] = {"intent"}

\* The stages that were called: those with an answer and the one p awaits.
Called(p) ==
    {s \in Stages : outcome[p][s] \in {"success", "empty", "failed"} \/ at[p] = s}

(* stage_sequence names the stages that were called, each once, in order:  *)
(* every one after those that it may be fed from.                          *)
SequenceIsCallOrder ==
    \A p \in Items :
        at[p] \notin {"rejected", "expired"} =>
            /\ {sequence[p][k] : k \in DOMAIN sequence[p]} = Called(p)
            /\ \A j, k \in DOMAIN sequence[p] :
                  j < k => sequence[p][j] \in Before(sequence[p][k])

(* What a pipeline has recorded of its stages, at any moment.              *)
Consistent == TypeOK /\ SequenceIsCallOrder

(* run_batch answers for all items or for none: with every response, or    *)
(* with an error that one of the items raised.                             *)
BatchAllOrNothing ==
    /\ batch = "ok" <=> Responded = Items
    /\ batch = "error" <=> \E p \in Items : at[p] \in {"rejected", "expired"}

(* Whatever the downstream services do, a batch returns: the deadline of   *)
(* each pipeline bounds it even if no stage ever answers.                  *)
BatchReturns == batch = "running" ~> batch # "running"
=============================================================================
