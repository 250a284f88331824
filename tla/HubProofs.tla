----------------------------- MODULE HubProofs -----------------------------
(***************************************************************************)
(* Proofs about the decision hub.  Of its pipeline, for any batch of       *)
(* requests: only results flow from stage to stage, responses are honest   *)
(* about their stages, and a batch is answered as a whole.  Of the client  *)
(* of a stage, for any number of calls and any threshold, recovery time    *)
(* and number of retries: that it keeps its contract.                      *)
(***************************************************************************)
EXTENDS HubPipeline, StageClient, SequenceTheorems, TLAPS

Terminal == {"responded", "rejected", "expired"}

\* The stages of p that have an outcome are those that were due so far.
ItemInv(p) ==
    /\ at[p] = "waiting" => \A s \in Stages : outcome[p][s] = "none"
    /\ at[p] \in Stages =>
          /\ at[p] \in Requested(p)
          /\ \A s \in Stages : outcome[p][s] # "none" <=> s \in Requested(p) \cap Before(at[p])
    /\ at[p] = "decision" => fed[p]["decision"] = {"intent"}
    /\ at[p] = "responded" =>
          /\ overall[p] = OverallStatus(outcome[p])
          /\ \A s \in Stages : outcome[p][s] # "none" <=> s \in Requested(p)
    /\ warnings[p] = {s \in Stages : outcome[p][s] \in {"failed", "skipped"}}
    /\ \A s \in Stages : fed[p][s] \subseteq {t \in Before(s) : outcome[p][t] = "success"}
    /\ outcome[p]["decision"] \in {"success", "empty", "failed"} => fed[p]["decision"] = {"intent"}

\* The sequence of p is that of its calls.
SequenceInv(p) ==
    at[p] \notin {"rejected", "expired"} =>
        /\ {sequence[p][k] : k \in DOMAIN sequence[p]} = Called(p)
        /\ \A j, k \in DOMAIN sequence[p] : j < k => sequence[p][j] \in Before(sequence[p][k])

PipelineInv ==
    TypeOK /\ BatchAllOrNothing /\ \A p \in Items : ItemInv(p) /\ SequenceInv(p)

\* The stages that have answered, by the outcomes o.
Answered(o) == {s \in Stages : o[s] \in {"success", "empty", "failed"}}

-----------------------------------------------------------------------------
LEMMA StatusHasType ==
    ASSUME NEW o
    PROVE  OverallStatus(o) \in {"success", "partial", "failed"}
BY DEF OverallStatus

\* What is left to show of a step of item p.
LEMMA ItemStep ==
    ASSUME NEW p \in Items, PipelineInv, TypeOK', BatchAllOrNothing', ItemInv(p)', SequenceInv(p)',
           options' = options,
           \A q \in Items \ {p} :
               /\ sequence'[q] = sequence[q]
               /\ at'[q] = at[q] /\ outcome'[q] = outcome[q] /\ fed'[q] = fed[q]
               /\ warnings'[q] = warnings[q] /\ overall'[q] = overall[q]
    PROVE  PipelineInv'
<1>1. ASSUME NEW q \in Items \ {p}
      PROVE  ItemInv(q)' /\ SequenceInv(q)'
  BY <1>1 DEF PipelineInv, ItemInv, SequenceInv, Called, Requested
<1> QED
  BY <1>1 DEF PipelineInv

\* An item that goes on leaves the batch as it is.
LEMMA AwaitKeeps ==
    ASSUME NEW p \in Items, PipelineInv, at[p] \notin Terminal,
           NEW s \in Stages, s \in Requested(p), NEW o \in [Stages -> Outcomes],
           Await(p, s, o), options' = options, outcome' = [outcome EXCEPT ![p] = o],
           warnings' = [warnings EXCEPT ![p] = {t \in Stages : o[t] \in {"failed", "skipped"}}],
           \A t \in Stages : o[t] # "none" <=> t \in Requested(p) \cap Before(s),
           \A t \in Stages : outcome[p][t] = "success" => o[t] = "success",
           s # "decision" \/ o["intent"] = "success", Answered(o) = Called(p),
           o["decision"] \in {"success", "empty", "failed"} => fed[p]["decision"] = {"intent"}
    PROVE  PipelineInv'
<1>1. /\ at' = [at EXCEPT ![p] = s] /\ fed' = [fed EXCEPT ![p][s] = Usable(o)]
      /\ sequence' = [sequence EXCEPT ![p] = Append(@, s)]
      /\ UNCHANGED <<overall, batch>>
  BY DEF Await
<1>2. Usable(o) \in SUBSET Stages /\ Usable(o) = {t \in Before(s) : o[t] = "success"}
  BY DEF Usable, Before, Stages
<1>3. TypeOK'
  BY <1>1, <1>2 DEF PipelineInv, TypeOK
<1>4. BatchAllOrNothing'
  BY <1>1 DEF PipelineInv, TypeOK, BatchAllOrNothing, Responded, Terminal, Stages
<1>5. /\ at'[p] = s /\ outcome'[p] = o /\ fed'[p] = [fed[p] EXCEPT ![s] = Usable(o)]
      /\ Requested(p)' = Requested(p)
      /\ warnings'[p] = {t \in Stages : o[t] \in {"failed", "skipped"}}
  BY <1>1 DEF PipelineInv, TypeOK, Requested
<1>6. ItemInv(p)
  BY DEF PipelineInv
<1>7. \A t \in Stages : fed'[p][t] \subseteq {u \in Before(t) : o[u] = "success"}
  <2>1. \A t \in Stages : Before(t) \subseteq Stages
    BY DEF Before, Stages
  <2> QED
    BY <1>2, <1>5, <1>6, <2>1 DEF PipelineInv, TypeOK, ItemInv
<1>8. s = "decision" => fed'[p]["decision"] = {"intent"}
  BY <1>2, <1>5 DEF PipelineInv, TypeOK, Before
<1>9. o["decision"] \in {"success", "empty", "failed"} => s # "decision"
  BY DEF Before, Stages
<1>10. ItemInv(p)'
  BY <1>5, <1>7, <1>8, <1>9 DEF ItemInv, Stages, PipelineInv, TypeOK
<1>11. SequenceInv(p)'
  <2> PICK old \in Seq(Stages) : old = sequence[p]
    BY DEF PipelineInv, TypeOK
  <2> PICK new : new = Append(old, s)
    OBVIOUS
  <2>1. sequence'[p] = new
    BY <1>1 DEF PipelineInv, TypeOK
  <2>2. /\ DOMAIN old = 1..Len(old) /\ Len(old) \in Nat /\ DOMAIN new = 1..(Len(old) + 1)
        /\ \A k \in 1..Len(old) : new[k] = old[k]
        /\ new[Len(old) + 1] = s
    BY AppendProperties, LenProperties
  <2>3. /\ {old[k] : k \in DOMAIN old} = Called(p)
        /\ \A j, k \in DOMAIN old : j < k => old[j] \in Before(old[k])
    BY DEF PipelineInv, SequenceInv, Terminal
  <2>4. Called(p)' = Called(p) \cup {s}
    BY <1>5, <1>9 DEF Called, Answered, Stages
  <2>5. Called(p) \subseteq Before(s)
    BY DEF Answered
  <2>6. \A k \in DOMAIN new : (k \in DOMAIN old /\ new[k] = old[k]) \/ (k = Len(old) + 1 /\ new[k] = s)
    BY <2>2
  <2>7. DOMAIN old \subseteq DOMAIN new /\ Len(old) + 1 \in DOMAIN new
    BY <2>2
  <2>8. {new[k] : k \in DOMAIN new} = Called(p) \cup {s}
    BY <2>2, <2>3, <2>6, <2>7
  <2>9. ASSUME NEW j \in DOMAIN new, NEW k \in DOMAIN new, j < k
        PROVE  new[j] \in Before(new[k])
    <3>1. j \in DOMAIN old /\ new[j] = old[j]
      BY <2>2, <2>9
    <3>2. CASE k \in DOMAIN old /\ new[k] = old[k]
      BY <2>3, <2>9, <3>1, <3>2
    <3>3. CASE new[k] = s
      BY <2>3, <2>5, <3>1, <3>3
    <3> QED
      BY <2>6, <3>2, <3>3
  <2> QED
    BY <2>1, <2>4, <2>8, <2>9 DEF SequenceInv
<1> QED
  BY <1>1, <1>3, <1>4, <1>10, <1>11, ItemStep DEF PipelineInv, TypeOK

\* The last response of a batch ends it.
LEMMA RespondKeeps ==
    ASSUME NEW p \in Items, PipelineInv, at[p] \in Stages, NEW o \in [Stages -> Outcomes],
           Respond(p, o), options' = options, outcome' = [outcome EXCEPT ![p] = o],
           warnings' = [warnings EXCEPT ![p] = {t \in Stages : o[t] \in {"failed", "skipped"}}],
           \A t \in Stages : o[t] # "none" <=> t \in Requested(p),
           \A t \in Stages : outcome[p][t] = "success" => o[t] = "success", Answered(o) = Called(p),
           o["decision"] \in {"success", "empty", "failed"} => fed[p]["decision"] = {"intent"}
    PROVE  PipelineInv'
<1>1. /\ at' = [at EXCEPT ![p] = "responded"]
      /\ overall' = [overall EXCEPT ![p] = OverallStatus(o)]
      /\ batch' = IF batch = "running" /\ \A q \in Items \ {p} : at[q] = "responded"
                  THEN "ok" ELSE batch
      /\ UNCHANGED <<fed, sequence>>
  BY DEF Respond
<1>2. TypeOK'
  BY <1>1, StatusHasType DEF PipelineInv, TypeOK
<1>3. BatchAllOrNothing'
  BY <1>1 DEF PipelineInv, TypeOK, BatchAllOrNothing, Responded, Stages
<1>4. /\ at'[p] = "responded" /\ outcome'[p] = o /\ fed'[p] = fed[p]
      /\ Requested(p)' = Requested(p) /\ overall'[p] = OverallStatus(o)
      /\ warnings'[p] = {t \in Stages : o[t] \in {"failed", "skipped"}}
  BY <1>1 DEF PipelineInv, TypeOK, Requested
<1>5. \A t \in Stages : fed'[p][t] \subseteq {u \in Before(t) : o[u] = "success"}
  <2>1. \A t \in Stages : Before(t) \subseteq Stages
    BY DEF Before, Stages
  <2> QED
    BY <1>4, <2>1 DEF PipelineInv, ItemInv
<1>6. ItemInv(p)'
  BY <1>4, <1>5 DEF ItemInv, Stages
<1>7. SequenceInv(p)'
  <2>1. Called(p)' = Called(p) /\ sequence'[p] = sequence[p]
    BY <1>1, <1>4 DEF Called, Answered, Stages
  <2> QED
    BY <2>1 DEF PipelineInv, SequenceInv, Stages
<1> QED
  BY <1>1, <1>2, <1>3, <1>6, <1>7, ItemStep DEF PipelineInv, TypeOK

LEMMA FailKeeps ==
    ASSUME NEW p \in Items, PipelineInv, at[p] \notin Terminal,
           NEW how \in {"rejected", "expired"}, Fail(p, how)
    PROVE  PipelineInv'
<1>1. TypeOK'
  BY DEF Fail, PipelineInv, TypeOK
<1>2. BatchAllOrNothing'
  BY DEF Fail, PipelineInv, TypeOK, BatchAllOrNothing, Responded, Terminal
<1>3. ItemInv(p)'
  BY DEF Fail, PipelineInv, TypeOK, ItemInv, Requested, Stages
<1>4. SequenceInv(p)'
  BY DEF Fail, PipelineInv, TypeOK, SequenceInv
<1> QED
  BY <1>1, <1>2, <1>3, <1>4, ItemStep DEF Fail, PipelineInv, TypeOK

-----------------------------------------------------------------------------
LEMMA StartKeeps ==
    ASSUME NEW p \in Items, PipelineInv, Start(p)
    PROVE  PipelineInv'
<1>1. /\ at[p] = "waiting" /\ Await(p, "intent", outcome[p])
      /\ UNCHANGED <<options, outcome, warnings>>
  BY DEF Start
<1>2. /\ outcome[p] \in [Stages -> Outcomes] /\ \A s \in Stages : outcome[p][s] = "none"
      /\ warnings[p] = {s \in Stages : outcome[p][s] \in {"failed", "skipped"}}
  BY <1>1 DEF PipelineInv, TypeOK, ItemInv
<1>3. /\ outcome' = [outcome EXCEPT ![p] = outcome[p]]
      /\ warnings' = [warnings EXCEPT ![p] =
             {s \in Stages : outcome[p][s] \in {"failed", "skipped"}}]
  BY <1>1, <1>2 DEF PipelineInv, TypeOK
<1>4. /\ "intent" \in Stages /\ "intent" \in Requested(p) /\ Before("intent") = {}
      /\ "decision" \in Stages /\ ("intent" # "decision" \/ outcome[p]["intent"] = "success")
  BY DEF Requested, Before, Stages
<1>5. Answered(outcome[p]) = Called(p)
  BY <1>1 DEF Answered, Called, Stages
<1> QED
  BY <1>1, <1>2, <1>3, <1>4, <1>5, AwaitKeeps DEF Terminal, Stages

LEMMA AnswerKeeps ==
    ASSUME NEW p \in Items, PipelineInv, Answer(p)
    PROVE  PipelineInv'
<1> DEFINE s == at[p]
           seen(answer) == [outcome[p] EXCEPT ![s] = answer]
           skip(answer) == IF s = "intent" THEN Skipped(seen(answer)) ELSE {}
           all(answer) == [t \in Stages |-> IF s = "intent" /\ t = "decision" /\ answer # "success"
                                            THEN "skipped" ELSE seen(answer)[t]]
<1>1. PICK answer \in {"success", "empty", "failed"} :
          /\ outcome' = [outcome EXCEPT ![p] = all(answer)]
          /\ warnings' = [warnings EXCEPT ![p] = @ \cup Warned(s, all(answer)) \cup skip(answer)]
          /\ CASE s = "intent" /\ answer = "success" -> Await(p, "decision", all(answer))
               [] s = "intent" /\ answer # "success" -> AfterDecision(p, all(answer))
               [] s = "decision"                     -> AfterDecision(p, all(answer))
               [] s = "llm"                          -> AfterLLM(p, all(answer))
               [] s = "report"                       -> Respond(p, all(answer))
  BY DEF Answer
<1> DEFINE o == all(answer)
<1>2. /\ s \in Stages /\ s \notin Terminal /\ options' = options /\ ItemInv(p)
      /\ outcome[p] \in [Stages -> Outcomes] /\ s \in Requested(p)
      /\ \A t \in Stages : outcome[p][t] # "none" <=> t \in Requested(p) \cap Before(s)
  BY DEF Answer, PipelineInv, TypeOK, ItemInv, Stages, Terminal
<1>3. /\ o \in [Stages -> Outcomes] /\ o[s] = answer
      /\ \A t \in Stages \ {s} :
            o[t] = IF s = "intent" /\ t = "decision" /\ answer # "success" THEN "skipped"
                   ELSE outcome[p][t]
  BY <1>2 DEF Outcomes
<1>4. warnings' = [warnings EXCEPT ![p] = {t \in Stages : o[t] \in {"failed", "skipped"}}]
  <2>1. warnings[p] = {t \in Stages : outcome[p][t] \in {"failed", "skipped"}}
    BY <1>2 DEF ItemInv
  <2>2. outcome[p][s] = "none" /\ (s = "intent" => outcome[p]["decision"] = "none")
    BY <1>2 DEF Before, Stages
  <2>3. skip(answer) = IF s = "intent" /\ answer # "success" THEN {"decision"} ELSE {}
    BY <1>2 DEF Skipped
  <2>4. Warned(s, o) = IF answer = "failed" THEN {s} ELSE {}
    BY <1>3 DEF Warned
  <2> HIDE DEF o, skip
  <2>5. warnings[p] \cup Warned(s, o) \cup skip(answer) = {t \in Stages : o[t] \in {"failed", "skipped"}}
    BY <1>2, <1>3, <2>1, <2>2, <2>3, <2>4 DEF Stages
  <2> QED
    BY <1>1, <2>5 DEF o
<1>5. (\A t \in Stages : outcome[p][t] = "success" => o[t] = "success") /\ Answered(o) = Called(p)
  <2> HIDE DEF o
  <2> QED
    BY <1>2, <1>3 DEF Before, Stages, Answered, Called
<1>6. o["decision"] \in {"success", "empty", "failed"} => fed[p]["decision"] = {"intent"}
  <2> HIDE DEF o
  <2> QED
    BY <1>2, <1>3 DEF ItemInv, Stages
<1>7. /\ s = "intent" /\ answer = "success" => Await(p, "decision", o)
      /\ s = "intent" /\ answer # "success" => AfterDecision(p, o)
      /\ s = "decision" => AfterDecision(p, o)
      /\ s = "llm" => AfterLLM(p, o)
      /\ s = "report" => Respond(p, o)
  BY <1>1
<1>8. outcome' = [outcome EXCEPT ![p] = o]
  BY <1>1
<1>9. {"llm", "report"} \cap Requested(p) =
          (IF options[p].llm THEN {"llm"} ELSE {}) \cup (IF options[p].report THEN {"report"} ELSE {})
      /\ {"intent", "decision"} \subseteq Requested(p) /\ Requested(p) \subseteq Stages
  BY DEF Requested, Stages
<1> HIDE DEF o, all, seen, skip
<1>10. ASSUME NEW next \in Stages, next \in Requested(p), Await(p, next, o),
              next # "decision" \/ o["intent"] = "success",
              \A t \in Stages : o[t] # "none" <=> t \in Requested(p) \cap Before(next)
       PROVE  PipelineInv'
  BY <1>2, <1>3, <1>4, <1>5, <1>6, <1>8, <1>10, AwaitKeeps DEF Terminal, Stages
<1>11. CASE s = "intent" /\ answer = "success"
  <2>1. Await(p, "decision", o) /\ o["intent"] = "success"
    BY <1>3, <1>7, <1>11
  <2>2. \A t \in Stages : o[t] # "none" <=> t \in Requested(p) \cap Before("decision")
    BY <1>2, <1>3, <1>9, <1>11 DEF Before, Stages
  <2> QED
    BY <1>9, <1>10, <2>1, <2>2 DEF Stages
<1>12. CASE (s = "intent" /\ answer # "success") \/ s = "decision"
  <2>1. AfterDecision(p, o)
    BY <1>7, <1>12
  <2>2. \A t \in Stages : o[t] # "none" <=> t \in {"intent", "decision"}
    BY <1>2, <1>3, <1>9, <1>12 DEF Before, Stages
  <2>3. CASE options[p].llm
    <3>1. /\ Await(p, "llm", o) /\ "llm" \in Requested(p) /\ "llm" \in Stages
          /\ "llm" # "decision" \/ o["intent"] = "success"
      BY <1>9, <2>1, <2>3 DEF AfterDecision, Stages
    <3>2. \A t \in Stages : o[t] # "none" <=> t \in Requested(p) \cap Before("llm")
      BY <1>9, <2>2 DEF Before
    <3> QED
      BY <1>10, <3>1, <3>2
  <2>4. CASE ~options[p].llm /\ options[p].report
    <3>1. /\ Await(p, "report", o) /\ "report" \in Requested(p) /\ "report" \in Stages
          /\ "report" # "decision" \/ o["intent"] = "success"
      BY <1>9, <2>1, <2>4 DEF AfterDecision, Stages
    <3>2. \A t \in Stages : o[t] # "none" <=> t \in Requested(p) \cap Before("report")
      BY <1>9, <2>2, <2>4 DEF Before
    <3> QED
      BY <1>10, <3>1, <3>2
  <2>5. CASE ~options[p].llm /\ ~options[p].report
    <3>1. Respond(p, o)
      BY <2>1, <2>5 DEF AfterDecision
    <3>2. \A t \in Stages : o[t] # "none" <=> t \in Requested(p)
      BY <1>9, <2>2, <2>5 DEF Requested
    <3> QED
      BY <1>2, <1>3, <1>4, <1>5, <1>6, <1>8, <3>1, <3>2, RespondKeeps
  <2> QED
    BY <2>3, <2>4, <2>5
<1>13. CASE s = "llm"
  <2>1. AfterLLM(p, o) /\ options[p].llm
    BY <1>2, <1>7, <1>9, <1>13
  <2>2. \A t \in Stages : o[t] # "none" <=> t \in {"intent", "decision", "llm"}
    BY <1>2, <1>3, <1>9, <1>13 DEF Before, Stages
  <2>3. CASE options[p].report
    <3>1. /\ Await(p, "report", o) /\ "report" \in Requested(p) /\ "report" \in Stages
          /\ "report" # "decision" \/ o["intent"] = "success"
      BY <1>9, <2>1, <2>3 DEF AfterLLM, Stages
    <3>2. \A t \in Stages : o[t] # "none" <=> t \in Requested(p) \cap Before("report")
      BY <1>9, <2>1, <2>2 DEF Before
    <3> QED
      BY <1>10, <3>1, <3>2
  <2>4. CASE ~options[p].report
    <3>1. Respond(p, o)
      BY <2>1, <2>4 DEF AfterLLM
    <3>2. \A t \in Stages : o[t] # "none" <=> t \in Requested(p)
      BY <2>1, <2>2, <2>4 DEF Requested
    <3> QED
      BY <1>2, <1>3, <1>4, <1>5, <1>6, <1>8, <3>1, <3>2, RespondKeeps
  <2> QED
    BY <2>3, <2>4
<1>14. CASE s = "report"
  <2>1. Respond(p, o)
    BY <1>7, <1>14
  <2>2. \A t \in Stages : o[t] # "none" <=> t \in Requested(p)
    BY <1>2, <1>3, <1>9, <1>14 DEF Before, Stages
  <2> QED
    BY <1>2, <1>3, <1>4, <1>5, <1>6, <1>8, <2>1, <2>2, RespondKeeps
<1> QED
  BY <1>2, <1>11, <1>12, <1>13, <1>14 DEF Stages

-----------------------------------------------------------------------------
LEMMA PipelineInit == Init => PipelineInv
<1> SUFFICES ASSUME Init
             PROVE  PipelineInv
  OBVIOUS
<1>1. TypeOK
  BY DEF Init, TypeOK, Outcomes
<1>2. BatchAllOrNothing
  BY BatchAssumption DEF Init, BatchAllOrNothing, Responded
<1>3. \A p \in Items : ItemInv(p)
  BY DEF Init, ItemInv, Stages
<1>4. \A p \in Items : SequenceInv(p)
  <2>1. \A k : k \notin DOMAIN <<>>
    OBVIOUS
  <2>2. \A p \in Items : sequence[p] = <<>> /\ Called(p) = {}
    BY DEF Init, Called, Stages
  <2> QED
    BY <2>1, <2>2 DEF SequenceInv
<1> QED
  BY <1>1, <1>2, <1>3, <1>4 DEF PipelineInv

LEMMA PipelineStep == PipelineInv /\ [Next]_vars => PipelineInv'
<1> SUFFICES ASSUME PipelineInv, [Next]_vars
             PROVE  PipelineInv'
  OBVIOUS
<1>1. CASE UNCHANGED vars
  BY <1>1 DEF vars, PipelineInv, TypeOK, BatchAllOrNothing, Responded, ItemInv, SequenceInv, Called,
                 Requested
<1>2. CASE Finished
  BY <1>1, <1>2 DEF Finished
<1>3. ASSUME NEW p \in Items, Start(p) \/ Answer(p)
      PROVE  PipelineInv'
  BY <1>3, StartKeeps, AnswerKeeps
<1>4. ASSUME NEW p \in Items, Reject(p) \/ Deadline(p)
      PROVE  PipelineInv'
  BY <1>4, FailKeeps DEF Reject, Deadline, Terminal, Stages
<1> QED
  BY <1>1, <1>2, <1>3, <1>4 DEF Next

LEMMA InvIsInvariant == Spec => []PipelineInv
BY PipelineInit, PipelineStep, PTL DEF Spec

(* What is fed to a stage comes from stages before it that succeeded, and  *)
(* the decision is asked only with an intent.                              *)
THEOREM OnlyResultsAlwaysFlow == Spec => []OnlyResultsFlow
<1>1. PipelineInv => OnlyResultsFlow
  BY DEF PipelineInv, ItemInv, OnlyResultsFlow
<1> QED
  BY <1>1, InvIsInvariant, PTL

(* What a pipeline has recorded of its stages has its types, and its       *)
(* stage_sequence names the stages that were called, each once, in order.  *)
THEOREM SequencesAreCallOrders == Spec => []Consistent
<1>1. PipelineInv => Consistent
  BY DEF PipelineInv, SequenceInv, Consistent, SequenceIsCallOrder
<1> QED
  BY <1>1, InvIsInvariant, PTL

(* run_batch answers for all of its items or for none.                     *)
THEOREM BatchIsWhole == Spec => []BatchAllOrNothing
<1>1. PipelineInv => BatchAllOrNothing
  BY DEF PipelineInv
<1> QED
  BY <1>1, InvIsInvariant, PTL

(* A response tells the truth about its stages, in its status and in its   *)
(* warnings.                                                               *)
THEOREM ResponsesAreHonest == Spec => []HonestResponse
<1>1. ASSUME PipelineInv, NEW p \in Responded
      PROVE  /\ overall[p] = "success" <=> \A s \in Requested(p) : outcome[p][s] \in Succeeded
             /\ overall[p] = "failed" <=> \A s \in Requested(p) : outcome[p][s] \notin Succeeded
             /\ overall[p] # "success" => warnings[p] # {}
             /\ \A s \in Stages : outcome[p][s] \in {"failed", "skipped"} => s \in warnings[p]
  <2>1. /\ p \in Items /\ overall[p] = OverallStatus(outcome[p])
        /\ \A s \in Stages : outcome[p][s] # "none" <=> s \in Requested(p)
        /\ warnings[p] = {s \in Stages : outcome[p][s] \in {"failed", "skipped"}}
        /\ outcome[p] \in [Stages -> Outcomes]
    BY <1>1 DEF Responded, PipelineInv, ItemInv, TypeOK
  <2>2. Requested(p) \subseteq Stages /\ "intent" \in Requested(p)
    BY DEF Requested, Stages
  <2>3. {s \in Stages : outcome[p][s] # "none"} = Requested(p)
    BY <2>1, <2>2
  <2>4. /\ overall[p] = "success" <=> \A s \in Requested(p) : outcome[p][s] \in Succeeded
        /\ overall[p] = "failed" <=> \A s \in Requested(p) : outcome[p][s] \notin Succeeded
    BY <2>1, <2>2, <2>3 DEF OverallStatus
  <2>5. \A s \in Requested(p) : outcome[p][s] \notin Succeeded => s \in warnings[p]
    BY <2>1, <2>2 DEF Outcomes, Succeeded
  <2> QED
    BY <2>1, <2>4, <2>5
<1>2. PipelineInv => HonestResponse
  BY <1>1 DEF HonestResponse, HonestStatus, DegradationIsWarned
<1> QED
  BY <1>2, InvIsInvariant, PTL

-----------------------------------------------------------------------------
(* The stage clients.                                                     *)

(* A call that is running has sent one request per try, and one that sleeps*)
(* has a try left.  Without it a retry could not be told to stay within    *)
(* MaxRetries, nor a success to have reached the downstream.               *)
CallsInOrder ==
    \A c \in Calls :
        /\ pc[c] \in Running => sends[c] = attempt[c] + 1
        /\ pc[c] = "sleeping" => attempt[c] < MaxRetries

ClientInv ==
    /\ ClientTypeOK
    /\ StateAgreesWithCount
    /\ OpenIsStamped
    /\ CallsInOrder

BreakerInv ==
    /\ state \in {"closed", "open", "half_open"}
    /\ failures \in 0..Threshold
    /\ age \in NotStamped..Recovery
    /\ StateAgreesWithCount
    /\ OpenIsStamped

CallsInv ==
    /\ pc \in [Calls -> Running \cup Ended]
    /\ attempt \in [Calls -> 0..MaxRetries]
    /\ sends \in [Calls -> 0..(MaxRetries + 1)]
    /\ CallsInOrder

LEMMA ClientParts == ClientInv <=> BreakerInv /\ CallsInv
BY DEF ClientInv, ClientTypeOK, BreakerInv, CallsInv

-----------------------------------------------------------------------------
(* The breaker's operations.                                               *)

LEMMA AdmitInv ==
    ASSUME BreakerInv, Admit
    PROVE  BreakerInv'
BY DEF Admit, Allowed, BreakerInv, StateAgreesWithCount, OpenIsStamped

LEMMA RecordSuccessInv ==
    ASSUME BreakerInv, RecordSuccess
    PROVE  BreakerInv'
BY StageAssumption DEF RecordSuccess, BreakerInv, StateAgreesWithCount, OpenIsStamped

LEMMA RecordFailureInv ==
    ASSUME BreakerInv, RecordFailure
    PROVE  BreakerInv'
BY StageAssumption
   DEF RecordFailure, Counted, BreakerInv, StateAgreesWithCount, OpenIsStamped, NotStamped

LEMMA SameBreakerInv ==
    ASSUME BreakerInv, UNCHANGED breakerVars
    PROVE  BreakerInv'
BY DEF breakerVars, BreakerInv, StateAgreesWithCount, OpenIsStamped

(* A call that ends leaves the others as they are.                         *)
LEMMA EndKeeps ==
    ASSUME NEW c \in Calls, NEW result \in Ended, CallsInv,
           End(c, result)
    PROVE  CallsInv'
BY DEF End, CallsInv, CallsInOrder, Running, Ended

LEMMA ClientStep == ClientInv /\ [ClientNext]_clientVars => ClientInv'
<1> SUFFICES ASSUME ClientInv, [ClientNext]_clientVars
             PROVE  ClientInv'
  OBVIOUS
<1>1. BreakerInv /\ CallsInv
  BY ClientParts
<1>2. BreakerInv' /\ CallsInv' => ClientInv'
  BY DEF ClientInv, ClientTypeOK, BreakerInv, CallsInv
<1>3. ASSUME NEW c \in Calls, StartCall(c)
      PROVE  ClientInv'
  <2>1. BreakerInv'
    BY <1>1, <1>3, AdmitInv DEF StartCall
  <2>2. CallsInv'
    BY <1>1, <1>3, StageAssumption DEF StartCall, CallsInv, CallsInOrder, Running, Ended
  <2> QED
    BY <1>2, <2>1, <2>2
<1>4. ASSUME NEW c \in Calls, Refuse(c)
      PROVE  ClientInv'
  <2>1. BreakerInv'
    BY <1>1, <1>4, SameBreakerInv DEF Refuse, breakerVars
  <2>2. CallsInv'
    BY <1>1, <1>4, StageAssumption DEF Refuse, CallsInv, CallsInOrder, Running, Ended
  <2> QED
    BY <1>1, <1>2, <1>4, <2>1, <2>2 DEF Refuse
<1>5. ASSUME NEW c \in Calls, AnswerOk(c)
      PROVE  ClientInv'
  BY <1>1, <1>2, <1>5, RecordSuccessInv, EndKeeps DEF AnswerOk, Ended
<1>6. ASSUME NEW c \in Calls, AnswerRejected(c)
      PROVE  ClientInv'
  BY <1>1, <1>2, <1>6, RecordFailureInv, EndKeeps DEF AnswerRejected, Ended
<1>7. ASSUME NEW c \in Calls, AnswerFailure(c)
      PROVE  ClientInv'
  <2>1. BreakerInv'
    BY <1>1, <1>7, RecordFailureInv DEF AnswerFailure
  <2>2. CASE LastTry(c)
    <3>1. End(c, "failed") /\ "failed" \in Ended
      BY <1>7, <2>2 DEF AnswerFailure, Ended
    <3> QED
      BY <1>1, <1>2, <2>1, <3>1, EndKeeps
  <2>3. CASE ~LastTry(c)
    <3>1. CallsInv'
      BY <1>1, <1>7, <2>3, StageAssumption
         DEF AnswerFailure, LastTry, CallsInv, CallsInOrder, Running, Ended
    <3> QED
      BY <1>1, <1>2, <1>7, <2>1, <2>3, <3>1 DEF AnswerFailure
  <2> QED
    BY <2>2, <2>3
<1>8. ASSUME NEW c \in Calls, Retry(c)
      PROVE  ClientInv'
  <2>1. BreakerInv'
    BY <1>1, <1>8, SameBreakerInv DEF Retry, breakerVars
  <2>2. CallsInv'
    BY <1>1, <1>8, StageAssumption DEF Retry, CallsInv, CallsInOrder, Running, Ended
  <2> QED
    BY <1>1, <1>2, <1>8, <2>1, <2>2 DEF Retry
<1>9. ASSUME NEW c \in Calls, Unhandled(c)
      PROVE  ClientInv'
  BY <1>1, <1>2, <1>9, SameBreakerInv, EndKeeps DEF Unhandled, Ended
<1>10. ASSUME NEW c \in Calls, Cancel(c)
       PROVE  ClientInv'
  BY <1>1, <1>2, <1>10, SameBreakerInv, EndKeeps DEF Cancel, Ended
<1>11. CASE Tick
  <2>1. BreakerInv'
    BY <1>1, <1>11, StageAssumption
       DEF Tick, BreakerInv, StateAgreesWithCount, OpenIsStamped, NotStamped
  <2> QED
    BY <1>1, <1>2, <1>11, <2>1 DEF Tick, CallsInv, CallsInOrder
<1>12. CASE UNCHANGED clientVars
  BY <1>1, <1>2, <1>12, SameBreakerInv DEF clientVars, CallsInv, CallsInOrder
<1> QED
  BY <1>3, <1>4, <1>5, <1>6, <1>7, <1>8, <1>9, <1>10, <1>11, <1>12 DEF ClientNext

(* Whatever results come in late, ClientInv holds; the next three theorems read *)
(* its parts off.                                                          *)
THEOREM ClientInvHolds == ClientSpec => []ClientInv
<1>1. ClientInit => ClientInv
  BY StageAssumption
     DEF ClientInit, ClientInv, ClientTypeOK, StateAgreesWithCount, OpenIsStamped, CallsInOrder,
         NotStamped, Running, Ended
<1> QED
  BY <1>1, ClientStep, PTL DEF ClientSpec

(* No call makes more tries, nor the breaker counts further, than it may;  *)
(* the circuit is closed exactly while it has counted fewer failures in a  *)
(* row than the threshold; and allow()'s assertion that an open circuit    *)
(* has its opening time holds.                                             *)
THEOREM ClientIsConsistent == ClientSpec => []ClientConsistent
<1>1. ClientInv => ClientConsistent
  BY DEF ClientInv, ClientConsistent
<1> QED
  BY <1>1, ClientInvHolds, PTL

-----------------------------------------------------------------------------
(* The refinement.                                                         *)

Status == [c \in Calls |-> IF pc[c] \in Running THEN "running" ELSE pc[c]]

(* Two ways a step of the client can look from outside.                    *)
LEMMA SameStatus ==
    ASSUME NEW c \in Calls, CallsInv, pc[c] \in Running,
           \E s \in Running : pc' = [pc EXCEPT ![c] = s]
    PROVE  Status' = Status
BY DEF Status, CallsInv

LEMMA NewStatus ==
    ASSUME NEW c \in Calls, NEW s \in Ended, CallsInv, pc' = [pc EXCEPT ![c] = s]
    PROVE  Status' = [Status EXCEPT ![c] = s]
BY DEF Status, CallsInv, Running, Ended

LEMMA EndImplements ==
    ASSUME NEW c \in Calls, NEW s \in {"success", "failed", "cancelled"},
           CallsInv, pc[c] \in Running, End(c, s)
    PROVE  SC!Next
<1>1. Status' = [Status EXCEPT ![c] = s] /\ Status[c] = "running"
  <2>1. s \in Ended /\ pc' = [pc EXCEPT ![c] = s]
    BY DEF End, Ended
  <2>2. Status' = [Status EXCEPT ![c] = s]
    BY <2>1, NewStatus
  <2> QED
    BY <2>2 DEF Status
<1>2. sends[c] > 0 /\ sends' = sends
  BY StageAssumption DEF CallsInv, CallsInOrder, End
<1>3. CASE s = "cancelled"
  BY <1>1, <1>2, <1>3 DEF SC!Next, SC!Cancel, Status
<1>4. CASE s \in {"success", "failed"}
  BY <1>1, <1>2, <1>4 DEF SC!Next, SC!Return, SC!Results, Status
<1> QED
  BY <1>3, <1>4

LEMMA StepImplements == ClientInv /\ [ClientNext]_clientVars => [SC!Next]_(SC!vars)
<1> SUFFICES ASSUME ClientInv, [ClientNext]_clientVars
             PROVE  [SC!Next]_(SC!vars)
  OBVIOUS
<1>1. CallsInv
  BY ClientParts
<1>2. SC!vars = <<Status, sends>>
  BY DEF SC!vars, Status
<1>3. UNCHANGED <<Status, sends>> => UNCHANGED SC!vars
  BY DEF SC!vars, Status
<1>4. ASSUME NEW c \in Calls, StartCall(c)
      PROVE  SC!Next
  <2>1. Status' = [Status EXCEPT ![c] = "running"] /\ Status[c] # "running"
    BY <1>1, <1>4 DEF StartCall, Status, CallsInv, Running, Ended
  <2>2. sends' = [sends EXCEPT ![c] = 1]
    BY <1>4 DEF StartCall
  <2> QED
    BY <2>1, <2>2 DEF SC!Next, SC!Begin, Status
<1>5. ASSUME NEW c \in Calls, Refuse(c)
      PROVE  SC!Next
  <2>1. Status' = [Status EXCEPT ![c] = "failed"] /\ Status[c] # "running"
    BY <1>1, <1>5 DEF Refuse, Status, CallsInv, Running, Ended
  <2>2. sends' = [sends EXCEPT ![c] = 0]
    BY <1>5 DEF Refuse
  <2> QED
    BY <2>1, <2>2 DEF SC!Next, SC!Begin, Status
<1>6. ASSUME NEW c \in Calls, AnswerOk(c) \/ AnswerRejected(c) \/ Unhandled(c) \/ Cancel(c)
      PROVE  SC!Next
  BY <1>1, <1>6, EndImplements DEF AnswerOk, AnswerRejected, Unhandled, Cancel, Running
<1>7. ASSUME NEW c \in Calls, AnswerFailure(c)
      PROVE  [SC!Next]_(SC!vars)
  <2>1. CASE LastTry(c)
    BY <1>1, <1>7, <2>1, EndImplements DEF AnswerFailure, Running
  <2>2. CASE ~LastTry(c)
    BY <1>1, <1>3, <1>7, <2>2, SameStatus DEF AnswerFailure, Running
  <2> QED
    BY <2>1, <2>2
<1>8. ASSUME NEW c \in Calls, Retry(c)
      PROVE  SC!Next
  <2>1. Status' = Status /\ Status[c] = "running"
    BY <1>1, <1>8, SameStatus DEF Retry, Running, Status
  <2>2. sends[c] < MaxRetries + 1 /\ sends' = [sends EXCEPT ![c] = @ + 1]
    BY <1>1, <1>8, StageAssumption DEF Retry, CallsInv, CallsInOrder, Running
  <2> QED
    BY <2>1, <2>2 DEF SC!Next, SC!Resend, Status
<1>9. CASE Tick \/ UNCHANGED clientVars
  BY <1>3, <1>9 DEF Tick, clientVars, Status
<1> QED
  BY <1>4, <1>5, <1>6, <1>7, <1>8, <1>9 DEF ClientNext

(* A stage client is a StageCall: every call returns at most one result, a *)
(* success only after a request was sent, and sends MaxRetries + 1 at most.*)
THEOREM ClientImplements == ClientSpec => ImplementsStageCall
<1>1. ClientInit => SC!Init
  BY DEF ClientInit, SC!Init, Running
<1> QED
  BY <1>1, ClientInvHolds, StepImplements, PTL DEF ClientSpec, ImplementsStageCall, SC!Spec
=============================================================================
