-------------------------- MODULE LlmServiceProofs --------------------------
(***************************************************************************)
(* Proofs about the completion router and service, for any number of       *)
(* requests, providers and targets: calls, entries and tokens agree, what  *)
(* is returned is what its strategy promises, errors are honest, and a     *)
(* cached response belongs to the request that it is given to.             *)
(***************************************************************************)
EXTENDS LlmService, FiniteSetTheorems, SequenceTheorems, WellFoundedInduction, TLAPS

PCs == Busy \cup Errors \cup {"idle", "returned", "cancelled", "rejected"}
Lost == {"skipped", "failed"}
Ended == Lost \cup {"won"}
Flying == {"calling", "cancelling"}
Paid == {"calling", "failed", "won", "cancelling", "cancelled"}
TaskStates == Ended \cup Flying \cup {"waiting", "cancelled", "dropped"}

Positions(q) == 1..Len(targets[q])
EndedOf(q) == {i \in Positions(q) : task[q][i] \in Ended}

Entries(q) == [target : Positions(q), status : {"skipped", "failure", "success"}]

RequestTypes(q) ==
    /\ strategy[q] \in Strategies \cup {"none"}
    /\ targets[q] \in Seq(Providers)
    /\ task[q] \in [Positions(q) -> TaskStates]
    /\ answer[q] \in [Positions(q) -> Answers \cup {NoAnswer}]
    /\ winner[q] \in {0} \cup Positions(q)
    /\ attempts[q] \in Seq(Entries(q))

\* Which calls are there, and which tasks, when the request is where it is.
Phase(q) ==
    /\ pc[q] \in {"idle", "rejected"} => targets[q] = <<>>
    /\ pc[q] \in Busy => targets[q] # <<>>
    /\ pc[q] = "running" =>
          \A i \in Positions(q) : task[q][i] \notin {"cancelling", "cancelled", "dropped"}
    /\ pc[q] \in {"settling", "cancelling"} =>
          \A i \in Positions(q) : task[q][i] \notin {"waiting", "calling"}
    /\ pc[q] \notin Busy => \A i \in Positions(q) : task[q][i] \notin Flying

\* One target after the other, or no more at once than the fanout.
Paced(q) ==
    IF Sequential(q)
    THEN \A j \in Positions(q) : task[q][j] \notin {"waiting", "dropped"} =>
            \A i \in 1..(j - 1) : task[q][i] \in Lost
    ELSE Len(targets[q]) <= Fanout

\* The entries are those of the tasks that have ended, one of each.
Accounts(q) ==
    /\ \A k \in DOMAIN attempts[q] :
          LET i == attempts[q][k].target
          IN  task[q][i] \in Ended /\ attempts[q][k].status = Statuses[task[q][i]]
    /\ \A i \in EndedOf(q) : \E k \in DOMAIN attempts[q] : attempts[q][k].target = i
    /\ IsFiniteSet(EndedOf(q)) /\ Len(attempts[q]) = Cardinality(EndedOf(q))

\* What the request is about to end with, or has ended with.
Result(q) ==
    /\ pc[q] = "settling" =>
          /\ strategy[q] = "any" /\ winner[q] = FirstSuccess(q)
          /\ Won(q) = {} => Over(q)
    /\ pc[q] \in Errors => Over(q) /\ Won(q) = {} /\ pc[q] = ErrorKind(attempts[q])
    /\ pc[q] = "returned" => targets[q] = <<>> \/ Promised(q)

RequestInv(q) == RequestTypes(q) /\ Phase(q) /\ Paced(q) /\ Accounts(q) /\ Result(q)

ProvidersInv ==
    /\ circuit \in [Providers -> {"closed", "open", "half_open"}]
    /\ failures \in [Providers -> 0..Threshold]
    /\ cooled \in [Providers -> BOOLEAN]
    /\ tokens \in [Providers -> 0..Burst]
    /\ refills \in [Providers -> Nat]

TablesInv ==
    /\ pc \in [Requests -> PCs]
    /\ strategy \in [Requests -> Strategies \cup {"none"}]
    /\ targets \in [Requests -> Seq(Providers)]
    /\ DOMAIN task = Requests /\ DOMAIN answer = Requests
    /\ DOMAIN attempts = Requests /\ DOMAIN winner = Requests

TokensInv ==
    \A p \in Providers :
        /\ IsFiniteSet(CallsTo(p))
        /\ Limited => tokens[p] + Cardinality(CallsTo(p)) = Burst + refills[p]

RouterInv == ProvidersInv /\ TablesInv /\ TokensInv /\ \A q \in Requests : RequestInv(q)

\* Request s has a response of its own.
Original(s) == s \in Requests /\ pc[s] = "returned" /\ source[s] = s /\ winner[s] \in Won(s)

ServiceInv ==
    /\ DOMAIN asked = Requests /\ DOMAIN source = Requests
    /\ DOMAIN cache = {Key(a) : a \in Asks}
    /\ \A k \in DOMAIN cache : cache[k] # Nobody => Original(cache[k]) /\ Key(asked[cache[k]]) = k
    /\ \A q \in Requests :
          /\ asked[q] = NoAsk \/ asked[q] \in Asks
          /\ pc[q] \in Busy \cup {"returned"} => asked[q] \in Asks
          /\ pc[q] = "returned" => Original(source[q]) /\ Key(asked[source[q]]) = Key(asked[q])

\* The step leaves request r as it is.
Stays(r) ==
    /\ pc'[r] = pc[r] /\ strategy'[r] = strategy[r] /\ targets'[r] = targets[r]
    /\ task'[r] = task[r] /\ answer'[r] = answer[r]
    /\ attempts'[r] = attempts[r] /\ winner'[r] = winner[r]

\* The step is one of request q alone.
Alone(q) == \A r \in Requests \ {q} : Stays(r)

-----------------------------------------------------------------------------
(* Least and greatest numbers                                              *)

LEMMA LeastExists ==
    ASSUME NEW S \in SUBSET Nat, S # {}
    PROVE  \E m \in S : \A k \in S : m <= k
<1> DEFINE R == OpToRel(<, Nat)
<1>1. R = {p \in Nat \X Nat : p[1] < p[2]}
  BY DEF OpToRel
<1>2. IsWellFoundedOn(R, Nat)
  BY NatLessThanWellFounded
<1>3. \E m \in S : \A k \in S : <<k, m>> \notin R
  <2> HIDE DEF R
  <2> QED
    BY <1>2, WFMin
<1>4. ASSUME NEW m \in S, NEW k \in S, <<k, m>> \notin R
      PROVE  m <= k
  <2>1. <<k, m>> \in Nat \X Nat /\ <<k, m>>[1] = k /\ <<k, m>>[2] = m
    OBVIOUS
  <2>2. ~(k < m)
    BY <1>1, <1>4, <2>1
  <2> QED
    BY <2>2
<1> QED
  BY <1>3, <1>4

LEMMA MinIsLeast ==
    ASSUME NEW S \in SUBSET Nat, S # {}
    PROVE  Min(S) \in S /\ \A k \in S : Min(S) <= k
BY LeastExists DEF Min

LEMMA MaxIsGreatest ==
    ASSUME NEW b \in Nat, NEW S \in SUBSET (0..b), S # {}
    PROVE  Max(S) \in S /\ \A k \in S : k <= Max(S)
<1> DEFINE T == {k \in 0..b : b - k \in S}
<1>1. T \in SUBSET Nat /\ T # {}
  <2>1. PICK k \in S : TRUE
    OBVIOUS
  <2>2. b - k \in 0..b /\ b - (b - k) = k
    OBVIOUS
  <2> QED
    BY <2>1, <2>2
<1>2. PICK m \in T : \A k \in T : m <= k
  <2> HIDE DEF T
  <2> QED
    BY <1>1, LeastExists
<1>3. b - m \in S /\ m \in 0..b
  BY <1>2
<1>4. ASSUME NEW k \in S
      PROVE  k <= b - m
  <2>1. b - k \in 0..b /\ b - (b - k) = k
    OBVIOUS
  <2>2. b - k \in T
    BY <2>1
  <2>3. m <= b - k
    BY <1>2, <2>2
  <2> QED
    BY <1>3, <2>1, <2>3
<1>5. \E x \in S : \A y \in S : x >= y
  BY <1>3, <1>4
<1> QED
  BY <1>5 DEF Max

-----------------------------------------------------------------------------
(* Steps of one request                                                    *)

LEMMA StaysKeeps ==
    ASSUME NEW r, RequestInv(r), Stays(r)
    PROVE  RequestInv(r)' /\ Won(r)' = Won(r)
<1>1. /\ pc'[r] = pc[r] /\ strategy'[r] = strategy[r] /\ targets'[r] = targets[r]
      /\ task'[r] = task[r] /\ answer'[r] = answer[r]
      /\ attempts'[r] = attempts[r] /\ winner'[r] = winner[r]
  BY DEF Stays
<1>2. /\ Positions(r)' = Positions(r) /\ Sequential(r)' = Sequential(r) /\ Won(r)' = Won(r)
      /\ Over(r)' = Over(r) /\ FirstSuccess(r)' = FirstSuccess(r)
  BY <1>1 DEF Positions, Sequential, Won, Over, FirstSuccess
<1>3. EndedOf(r)' = EndedOf(r)
  BY <1>1, <1>2 DEF EndedOf
<1>4. \A i : Votes(r, i)' = Votes(r, i)
  BY <1>1, <1>2 DEF Votes
<1>5. Promised(r)' <=> Promised(r)
  BY <1>1, <1>2, <1>4 DEF Promised
<1>6. RequestTypes(r)' /\ Phase(r)' /\ Paced(r)'
  BY <1>1, <1>2 DEF RequestInv, RequestTypes, Entries, Phase, Paced
<1>7. Accounts(r)' /\ Result(r)'
  BY <1>1, <1>2, <1>3, <1>5 DEF RequestInv, Accounts, Result
<1> QED
  BY <1>2, <1>6, <1>7 DEF RequestInv

\* What is left to show of a step of request q.
LEMMA StepKeeps ==
    ASSUME NEW q \in Requests, RouterInv, Alone(q), TablesInv',
           ProvidersInv', TokensInv', RequestInv(q)'
    PROVE  RouterInv'
<1>1. ASSUME NEW r \in Requests \ {q}
      PROVE  RequestInv(r)'
  BY StaysKeeps DEF Alone, RouterInv
<1> QED
  BY <1>1 DEF RouterInv

\* A step that neither makes nor forgets a call.
LEMMA CallsStay ==
    ASSUME NEW q \in Requests, Alone(q),
           NEW p, \A j : /\ j \in DOMAIN task'[q]
                         /\ targets'[q][j] = p /\ task'[q][j] \in Paid
                     <=> /\ j \in DOMAIN task[q]
                         /\ targets[q][j] = p /\ task[q][j] \in Paid
    PROVE  CallsTo(p)' = CallsTo(p)
<1> DEFINE Of(r) == {j \in DOMAIN task[r] : targets[r][j] = p /\ task[r][j] \in Paid}
<1>1. CallsTo(p) = UNION {{<<r, i>> : i \in Of(r)} : r \in Requests}
  BY DEF CallsTo, Paid
<1>2. CallsTo(p)' = UNION {{<<r, i>> : i \in Of(r)'} : r \in Requests}
  BY DEF CallsTo, Paid
<1>3. Of(q)' = Of(q)
  OBVIOUS
<1>4. \A r \in Requests \ {q} : Of(r)' = Of(r)
  BY DEF Alone, Stays
<1> HIDE DEF Of
<1> QED
  BY <1>1, <1>2, <1>3, <1>4

\* An entry is of one of the request's targets.
LEMMA TargetOfEntry ==
    ASSUME NEW q, RequestTypes(q), NEW k \in DOMAIN attempts[q]
    PROVE  attempts[q][k].target \in Positions(q)
<1>1. attempts[q] \in Seq(Entries(q))
  BY DEF RequestTypes
<1>2. attempts[q][k] \in Entries(q)
  BY <1>1, LenProperties, ElementOfSeq
<1> QED
  BY <1>2 DEF Entries

\* Task i of q ends, which is written down once.
LEMMA EnterKeeps ==
    ASSUME NEW q \in Requests, TablesInv, RequestTypes(q), Accounts(q),
           NEW i \in Positions(q), task[q][i] \in {"waiting", "calling"},
           NEW how \in Ended, Enter(q, i, how), UNCHANGED targets
    PROVE  /\ task'[q] = [task[q] EXCEPT ![i] = how]
           /\ attempts'[q] = Append(attempts[q], Entry(i, Statuses[how]))
           /\ \A r \in Requests \ {q} : task'[r] = task[r] /\ attempts'[r] = attempts[r]
           /\ DOMAIN task' = Requests /\ DOMAIN attempts' = Requests
           /\ Positions(q)' = Positions(q)
           /\ task'[q] \in [Positions(q) -> TaskStates]
           /\ attempts'[q] \in Seq(Entries(q))
           /\ Accounts(q)'
<1> DEFINE e == Entry(i, Statuses[how])
<1>1. /\ task' = [task EXCEPT ![q][i] = how]
      /\ attempts' = [attempts EXCEPT ![q] = Append(@, e)]
  BY DEF Enter
<1>2. /\ task'[q] = [task[q] EXCEPT ![i] = how] /\ attempts'[q] = Append(attempts[q], e)
      /\ \A r \in Requests \ {q} : task'[r] = task[r] /\ attempts'[r] = attempts[r]
      /\ DOMAIN task' = Requests /\ DOMAIN attempts' = Requests
      /\ Positions(q)' = Positions(q)
  BY <1>1 DEF TablesInv, Positions
<1>3. e \in Entries(q) /\ e.target = i /\ e.status = Statuses[how]
  BY DEF Entry, Entries, Statuses, Ended, Lost
<1>4. attempts[q] \in Seq(Entries(q)) /\ task[q] \in [Positions(q) -> TaskStates]
  BY DEF RequestTypes
<1>5. task'[q] \in [Positions(q) -> TaskStates] /\ task'[q][i] = how
      /\ \A j \in Positions(q) \ {i} : task'[q][j] = task[q][j]
  BY <1>2, <1>4 DEF TaskStates
<1> HIDE DEF e
<1>6. /\ attempts'[q] \in Seq(Entries(q)) /\ Len(attempts'[q]) = Len(attempts[q]) + 1
      /\ Len(attempts[q]) \in Nat
      /\ DOMAIN attempts[q] = 1..Len(attempts[q]) /\ DOMAIN attempts'[q] = 1..Len(attempts[q]) + 1
      /\ \A k \in DOMAIN attempts[q] : attempts'[q][k] = attempts[q][k]
      /\ attempts'[q][Len(attempts[q]) + 1] = e
  BY <1>2, <1>3, <1>4, AppendProperties, LenProperties
<1>7. EndedOf(q)' = EndedOf(q) \cup {i} /\ i \notin EndedOf(q)
  BY <1>2, <1>4, <1>5 DEF EndedOf, Ended, Lost
<1>8. IsFiniteSet(EndedOf(q))' /\ Cardinality(EndedOf(q))' = Cardinality(EndedOf(q)) + 1
  BY <1>7, FS_AddElement DEF Accounts
<1>9. \A k \in DOMAIN attempts[q] : attempts[q][k].target \in EndedOf(q)
  BY TargetOfEntry DEF Accounts, EndedOf
<1>10. \A k \in DOMAIN attempts'[q] :
          /\ task'[q][attempts'[q][k].target] \in Ended
          /\ attempts'[q][k].status = Statuses[task'[q][attempts'[q][k].target]]
  <2>1. ASSUME NEW k \in DOMAIN attempts[q]
        PROVE  /\ task'[q][attempts'[q][k].target] \in Ended
               /\ attempts'[q][k].status = Statuses[task'[q][attempts'[q][k].target]]
    <3>1. attempts'[q][k] = attempts[q][k] /\ attempts[q][k].target \in EndedOf(q)
      BY <1>6, <1>9, <2>1
    <3>2. task'[q][attempts[q][k].target] = task[q][attempts[q][k].target]
      BY <1>5, <1>7, <3>1 DEF EndedOf
    <3>3. /\ task[q][attempts[q][k].target] \in Ended
          /\ attempts[q][k].status = Statuses[task[q][attempts[q][k].target]]
      BY <2>1 DEF Accounts
    <3> QED
      BY <3>1, <3>2, <3>3
  <2>2. attempts'[q][Len(attempts[q]) + 1].target = i
        /\ attempts'[q][Len(attempts[q]) + 1].status = Statuses[how]
    BY <1>3, <1>6
  <2>3. \A k \in DOMAIN attempts'[q] : k \in DOMAIN attempts[q] \/ k = Len(attempts[q]) + 1
    BY <1>6
  <2> QED
    BY <1>5, <2>1, <2>2, <2>3
<1>11. \A j \in EndedOf(q)' : \E k \in DOMAIN attempts'[q] : attempts'[q][k].target = j
  <2>1. DOMAIN attempts[q] \subseteq DOMAIN attempts'[q]
        /\ Len(attempts[q]) + 1 \in DOMAIN attempts'[q]
    BY <1>6
  <2>2. \A j \in EndedOf(q) : \E k \in DOMAIN attempts[q] : attempts'[q][k].target = j
    BY <1>6 DEF Accounts
  <2>3. attempts'[q][Len(attempts[q]) + 1].target = i
    BY <1>3, <1>6
  <2> QED
    BY <1>7, <2>1, <2>2, <2>3
<1>12. Accounts(q)'
  BY <1>6, <1>8, <1>10, <1>11 DEF Accounts
<1> QED
  BY <1>2, <1>5, <1>6, <1>12 DEF e

LEMMA LoseKeeps ==
    ASSUME NEW q \in Requests, RouterInv, pc[q] = "running",
           NEW i \in Positions(q), task[q][i] \in {"waiting", "calling"},
           Sequential(q) => \A j \in 1..(i - 1) : task[q][j] \in Lost,
           NEW how \in Lost, Lose(q, i, how)
    PROVE  /\ Alone(q) /\ TablesInv' /\ RequestInv(q)'
           /\ targets' = targets /\ task'[q] = [task[q] EXCEPT ![i] = how]
<1>1. /\ RequestTypes(q) /\ Phase(q) /\ Paced(q) /\ Accounts(q) /\ TablesInv
  BY DEF RouterInv, RequestInv
<1>2. /\ Enter(q, i, how) /\ how \in Ended
      /\ pc' = [pc EXCEPT ![q] =
             IF Sequential(q) /\ i = Len(targets[q]) THEN ErrorKind(attempts'[q]) ELSE @]
      /\ UNCHANGED <<strategy, answer, winner>> /\ UNCHANGED targets
  BY DEF Lose, Ended
<1>3. /\ task'[q] = [task[q] EXCEPT ![i] = how]
      /\ \A r \in Requests \ {q} : task'[r] = task[r] /\ attempts'[r] = attempts[r]
      /\ DOMAIN task' = Requests /\ DOMAIN attempts' = Requests
      /\ Positions(q)' = Positions(q)
      /\ task'[q] \in [Positions(q) -> TaskStates]
      /\ attempts'[q] \in Seq(Entries(q))
      /\ Accounts(q)'
  BY <1>1, <1>2, EnterKeeps
<1>4. ErrorKind(attempts'[q]) \in Errors
  BY DEF ErrorKind, Errors
<1>5. Alone(q) /\ TablesInv'
  BY <1>1, <1>2, <1>3, <1>4 DEF Alone, Stays, TablesInv, PCs, Errors
<1>6. RequestTypes(q)' /\ Sequential(q)' = Sequential(q)
  BY <1>1, <1>2, <1>3 DEF RequestTypes, Entries, Sequential
<1>7. task'[q][i] \in Lost /\ \A j \in Positions(q) \ {i} : task'[q][j] = task[q][j]
  BY <1>1, <1>3 DEF RequestTypes
<1>8. Len(targets[q]) \in Nat /\ Positions(q) = 1..Len(targets[q])
      /\ 1..(i - 1) \subseteq Positions(q) \ {i}
  BY <1>1, LenProperties DEF RequestTypes, Positions
<1>9. Paced(q)'
  <2>1. CASE Sequential(q)
    <3>1. ASSUME NEW j \in Positions(q), task'[q][j] \notin {"waiting", "dropped"},
                 NEW k \in 1..(j - 1)
          PROVE  task'[q][k] \in Lost
      <4>1. k \in Positions(q)
        BY <1>8
      <4>2. j # i => task[q][k] \in Lost
        BY <1>1, <1>7, <2>1, <3>1 DEF Paced
      <4>3. j = i => k # i /\ task[q][k] \in Lost
        BY <2>1, <1>8
      <4> QED
        BY <1>7, <4>1, <4>2, <4>3
    <3> QED
      BY <1>3, <1>6, <2>1, <3>1 DEF Paced
  <2>2. CASE ~Sequential(q)
    BY <1>1, <1>2, <1>6, <2>2 DEF Paced
  <2> QED
    BY <2>1, <2>2
<1>10. CASE Sequential(q) /\ i = Len(targets[q])
  <2>1. pc'[q] = ErrorKind(attempts'[q])
    BY <1>1, <1>2, <1>10 DEF TablesInv
  <2>2. \A j \in Positions(q) : j = i \/ j \in 1..(i - 1)
    BY <1>8, <1>10
  <2>3. \A j \in Positions(q) : task'[q][j] \in Lost
    BY <1>7, <1>8, <1>10, <2>2
  <2>4. Phase(q)'
    BY <1>3, <1>4, <2>1, <2>3 DEF Phase, Errors, Busy, Lost, Flying
  <2>5. DOMAIN task'[q] = Positions(q)
    BY <1>3
  <2>6. Over(q)' /\ Won(q)' = {}
    BY <2>3, <2>5 DEF Over, Won, Lost
  <2>7. Result(q)'
    BY <1>4, <2>1, <2>6 DEF Result, Errors
  <2> QED
    BY <1>2, <1>3, <1>5, <1>6, <1>9, <2>4, <2>7 DEF RequestInv
<1>11. CASE ~(Sequential(q) /\ i = Len(targets[q]))
  <2>1. pc'[q] = "running"
    BY <1>1, <1>2, <1>11 DEF TablesInv
  <2>2. Phase(q)'
    BY <1>1, <1>2, <1>3, <1>7, <2>1 DEF Phase, Busy, Lost
  <2>3. Result(q)'
    BY <2>1 DEF Result, Errors
  <2> QED
    BY <1>2, <1>3, <1>5, <1>6, <1>9, <2>2, <2>3 DEF RequestInv
<1> QED
  BY <1>10, <1>11

LEMMA WinKeeps ==
    ASSUME NEW q \in Requests, RouterInv, pc[q] = "running",
           NEW i \in Positions(q), task[q][i] = "calling", NEW a \in Answers, Win(q, i, a)
    PROVE  /\ Alone(q) /\ TablesInv' /\ RequestInv(q)'
           /\ targets' = targets /\ task'[q] = [task[q] EXCEPT ![i] = "won"]
<1>1. /\ RequestTypes(q) /\ Phase(q) /\ Paced(q) /\ Accounts(q) /\ TablesInv
  BY DEF RouterInv, RequestInv
<1>2. /\ Enter(q, i, "won") /\ "won" \in Ended
      /\ answer' = [answer EXCEPT ![q][i] = a]
      /\ pc' = [pc EXCEPT ![q] = IF Sequential(q) THEN "returned" ELSE @]
      /\ winner' = [winner EXCEPT ![q] = IF Sequential(q) THEN i ELSE @]
      /\ UNCHANGED strategy /\ UNCHANGED targets
  BY DEF Win, Ended
<1>3. /\ task'[q] = [task[q] EXCEPT ![i] = "won"]
      /\ \A r \in Requests \ {q} : task'[r] = task[r] /\ attempts'[r] = attempts[r]
      /\ DOMAIN task' = Requests /\ DOMAIN attempts' = Requests
      /\ Positions(q)' = Positions(q)
      /\ task'[q] \in [Positions(q) -> TaskStates]
      /\ attempts'[q] \in Seq(Entries(q))
      /\ Accounts(q)'
  BY <1>1, <1>2, EnterKeeps
<1>4. Alone(q) /\ TablesInv'
  BY <1>1, <1>2, <1>3 DEF Alone, Stays, TablesInv, PCs
<1>5. answer'[q] \in [Positions(q) -> Answers \cup {NoAnswer}]
  BY <1>1, <1>2 DEF RequestTypes, TablesInv
<1>6. RequestTypes(q)' /\ Sequential(q)' = Sequential(q)
  BY <1>1, <1>2, <1>3, <1>5 DEF RequestTypes, Entries, Sequential, TablesInv
<1>7. task'[q][i] = "won" /\ \A j \in Positions(q) \ {i} : task'[q][j] = task[q][j]
  BY <1>1, <1>3 DEF RequestTypes
<1>8. Len(targets[q]) \in Nat /\ Positions(q) = 1..Len(targets[q])
      /\ 1..(i - 1) \subseteq Positions(q) \ {i}
  BY <1>1, LenProperties DEF RequestTypes, Positions
<1>9. CASE Sequential(q)
  <2>1. /\ pc'[q] = "returned" /\ winner'[q] = i
        /\ strategy'[q] = strategy[q] /\ strategy[q] \notin {"any", "vote", "confidence"}
    BY <1>1, <1>2, <1>9 DEF TablesInv, Sequential
  <2>2. \A j \in 1..(i - 1) : task'[q][j] \in Lost
    BY <1>1, <1>7, <1>8, <1>9 DEF Paced
  <2>3. \A j \in Positions(q) : task[q][j] \notin {"waiting", "dropped"} => ~(i < j)
    <3>1. ASSUME NEW j \in Positions(q), task[q][j] \notin {"waiting", "dropped"}, i < j
          PROVE  FALSE
      <4>1. i \in 1..(j - 1)
        BY <1>8, <3>1
      <4> QED
        BY <1>1, <1>9, <3>1, <4>1 DEF Paced, Lost
    <3> QED
      BY <3>1
  <2>4. \A j \in Positions(q) : j \in 1..(i - 1) \/ j = i \/ (j # i /\ i < j)
    BY <1>8
  <2>5. \A j \in Positions(q) : task'[q][j] \in Lost \cup {"won", "waiting", "dropped"}
    BY <1>7, <2>2, <2>3, <2>4
  <2>6. Phase(q)'
    BY <1>3, <2>1, <2>5 DEF Phase, Busy, Lost, Flying
  <2>7. Paced(q)'
    <3>1. ASSUME NEW j \in Positions(q), task'[q][j] \notin {"waiting", "dropped"},
                 NEW k \in 1..(j - 1)
          PROVE  task'[q][k] \in Lost
      <4>1. j = i \/ j \in 1..(i - 1)
        BY <1>7, <2>3, <2>4, <3>1
      <4>2. k \in 1..(i - 1)
        BY <1>8, <4>1
      <4> QED
        BY <2>2, <4>2
    <3> QED
      BY <1>3, <1>6, <1>9, <3>1 DEF Paced
  <2>8. Promised(q)'
    <3>1. DOMAIN task'[q] = Positions(q)
      BY <1>3
    <3>2. i \in Won(q)'
      BY <1>7, <3>1 DEF Won
    <3> QED
      BY <2>1, <2>2, <3>2 DEF Promised, Lost
  <2>9. Result(q)'
    BY <2>1, <2>8 DEF Result, Errors
  <2> QED
    BY <1>2, <1>3, <1>4, <1>6, <2>6, <2>7, <2>9 DEF RequestInv
<1>10. CASE ~Sequential(q)
  <2>1. pc'[q] = "running"
    BY <1>1, <1>2, <1>10 DEF TablesInv
  <2>2. Phase(q)'
    BY <1>1, <1>2, <1>3, <1>7, <2>1 DEF Phase, Busy
  <2>3. Paced(q)'
    BY <1>1, <1>2, <1>6, <1>10 DEF Paced
  <2>4. Result(q)'
    BY <2>1 DEF Result, Errors
  <2> QED
    BY <1>2, <1>3, <1>4, <1>6, <2>2, <2>3, <2>4 DEF RequestInv
<1> QED
  BY <1>9, <1>10

\* The first success that was entered is of a target that won, if any has.
LEMMA FirstSuccessWon ==
    ASSUME NEW q, RequestTypes(q), Accounts(q)
    PROVE  \/ FirstSuccess(q) = 0 /\ Won(q) = {}
           \/ /\ FirstSuccess(q) \in Won(q) /\ FirstSuccess(q) # 0
              /\ \E k \in DOMAIN attempts[q] :
                    /\ attempts[q][k].target = FirstSuccess(q)
                    /\ \A m \in 1..(k - 1) : attempts[q][m].status # "success"
<1> DEFINE S == {k \in DOMAIN attempts[q] : attempts[q][k].status = "success"}
<1>1. DOMAIN attempts[q] = 1..Len(attempts[q]) /\ Len(attempts[q]) \in Nat
  BY LenProperties DEF RequestTypes
<1>2. \A k \in DOMAIN attempts[q] : attempts[q][k].target \in Positions(q)
  BY TargetOfEntry
<1>3. DOMAIN task[q] = Positions(q)
  BY DEF RequestTypes
<1>4. \A k \in S : attempts[q][k].target \in Won(q)
  BY <1>2, <1>3 DEF Accounts, Won, Statuses, Ended, Lost
<1>5. \A i \in Won(q) : \E k \in S : attempts[q][k].target = i
  BY <1>3 DEF Accounts, Won, EndedOf, Statuses, Ended
<1>6. CASE S = {}
  BY <1>5, <1>6 DEF FirstSuccess
<1>7. CASE S # {}
  <2>1. S \in SUBSET Nat
    BY <1>1
  <2>2. Min(S) \in S /\ \A k \in S : Min(S) <= k
    BY <1>7, <2>1, MinIsLeast
  <2>3. FirstSuccess(q) = attempts[q][Min(S)].target
    BY <1>7 DEF FirstSuccess
  <2>4. Min(S) \in DOMAIN attempts[q] /\ Min(S) \in Nat
    BY <2>1, <2>2
  <2>5. \A m \in 1..(Min(S) - 1) : m \in DOMAIN attempts[q] /\ ~(Min(S) <= m)
    BY <1>1, <2>4
  <2>6. \A m \in 1..(Min(S) - 1) : attempts[q][m].status # "success"
    BY <2>2, <2>5
  <2>7. FirstSuccess(q) \in Won(q) /\ FirstSuccess(q) # 0
    <3>1. FirstSuccess(q) \in Won(q)
      BY <1>4, <2>2, <2>3
    <3>2. FirstSuccess(q) \in Positions(q)
      BY <1>2, <2>3, <2>4
    <3>3. Len(targets[q]) \in Nat
      BY LenProperties DEF RequestTypes
    <3> QED
      BY <3>1, <3>2, <3>3 DEF Positions
  <2> HIDE DEF S
  <2> QED
    BY <2>3, <2>4, <2>6, <2>7
<1> QED
  BY <1>6, <1>7

\* A step that moves no task and writes nothing down.
LEMMA OnlyEnds ==
    ASSUME NEW q \in Requests, RouterInv, NEW how \in PCs, pc' = [pc EXCEPT ![q] = how],
           NEW w \in {0} \cup Positions(q), winner'[q] = w,
           \A r \in Requests \ {q} : winner'[r] = winner[r], DOMAIN winner' = Requests,
           UNCHANGED <<strategy, targets, task, answer, attempts>>
    PROVE  /\ Alone(q) /\ TablesInv' /\ pc'[q] = how /\ winner'[q] = w
           /\ RequestTypes(q)' /\ Paced(q)' /\ Accounts(q)'
           /\ Positions(q)' = Positions(q) /\ Won(q)' = Won(q) /\ Over(q)' = Over(q)
           /\ \A p : CallsTo(p)' = CallsTo(p)
<1>1. RequestTypes(q) /\ Paced(q) /\ Accounts(q) /\ TablesInv
  BY DEF RouterInv, RequestInv
<1>2. /\ strategy' = strategy /\ targets' = targets /\ task' = task
      /\ answer' = answer /\ attempts' = attempts
  OBVIOUS
<1>3. Alone(q) /\ TablesInv' /\ pc'[q] = how /\ winner'[q] = w
  BY <1>1, <1>2 DEF Alone, Stays, TablesInv
<1>4. /\ Positions(q)' = Positions(q) /\ Won(q)' = Won(q) /\ Over(q)' = Over(q)
      /\ Entries(q)' = Entries(q) /\ EndedOf(q)' = EndedOf(q) /\ Sequential(q)' = Sequential(q)
  BY <1>2 DEF Positions, Won, Over, Entries, EndedOf, Sequential
<1>5. RequestTypes(q)' /\ Paced(q)' /\ Accounts(q)'
  BY <1>1, <1>2, <1>3, <1>4 DEF RequestTypes, Paced, Accounts
<1>6. \A p : CallsTo(p)' = CallsTo(p)
  BY <1>2 DEF CallsTo
<1> QED
  BY <1>3, <1>4, <1>5, <1>6

\* Cancelled tasks come to no end of their own.
LEMMA CancelTasksKeeps ==
    ASSUME NEW q \in Requests, RouterInv, pc[q] \in {"running", "settling"}, CancelTasks(q),
           UNCHANGED <<strategy, targets, answer, attempts>>
    PROVE  /\ DOMAIN task' = Requests /\ \A r \in Requests \ {q} : task'[r] = task[r]
           /\ task'[q] \in [Positions(q) -> TaskStates]
           /\ \A i \in Positions(q) :
                 /\ task'[q][i] \notin {"waiting", "calling"}
                 /\ task[q][i] \in Ended \/ task'[q][i] \in Ended => task'[q][i] = task[q][i]
                 /\ task[q][i] \in Paid <=> task'[q][i] \in Paid
           /\ Positions(q)' = Positions(q) /\ Entries(q)' = Entries(q)
           /\ Paced(q)' /\ Accounts(q)' /\ Won(q)' = Won(q) /\ (Over(q) => Over(q)')
<1>1. RequestTypes(q) /\ Phase(q) /\ Paced(q) /\ Accounts(q) /\ TablesInv
  BY DEF RouterInv, RequestInv
<1> DEFINE new == [i \in Positions(q) |->
                      CASE task[q][i] = "calling" -> "cancelling"
                        [] task[q][i] = "waiting" -> "dropped"
                        [] OTHER                  -> task[q][i]]
<1>2. DOMAIN task[q] = Positions(q)
  BY <1>1 DEF RequestTypes
<1>3. task' = [task EXCEPT ![q] = new]
  BY <1>2 DEF CancelTasks
<1>4. task'[q] = new /\ DOMAIN task' = Requests /\ \A r \in Requests \ {q} : task'[r] = task[r]
  BY <1>1, <1>3 DEF TablesInv
<1>5. \A i \in Positions(q) :
          /\ task[q][i] \in TaskStates /\ new[i] \in TaskStates
          /\ new[i] \notin {"waiting", "calling"}
          /\ task[q][i] \in Ended \/ new[i] \in Ended => new[i] = task[q][i]
          /\ task[q][i] \in Paid <=> new[i] \in Paid
          /\ new[i] = "dropped" <=> task[q][i] \in {"waiting", "dropped"}
  BY <1>1 DEF RequestTypes, TaskStates, Ended, Lost, Flying, Paid
<1>6. new \in [Positions(q) -> TaskStates]
  BY <1>5
<1> HIDE DEF new
<1>7. /\ strategy' = strategy /\ targets' = targets /\ answer' = answer /\ attempts' = attempts
      /\ Positions(q)' = Positions(q) /\ Entries(q)' = Entries(q) /\ Sequential(q)' = Sequential(q)
  BY DEF Positions, Entries, Sequential
<1>8. DOMAIN task'[q] = Positions(q)
  BY <1>4, <1>6
<1>9. Won(q)' = Won(q) /\ EndedOf(q)' = EndedOf(q)
  BY <1>2, <1>4, <1>5, <1>7, <1>8 DEF Won, EndedOf, Ended
<1>10. Over(q) => Over(q)'
  BY <1>2, <1>4, <1>5, <1>8 DEF Over, Ended, Lost
<1>11. Paced(q)'
  <2>2. ASSUME NEW j \in Positions(q), NEW i \in 1..(j - 1)
        PROVE  i \in Positions(q)
    <3>1. Len(targets[q]) \in Nat
      BY <1>1, LenProperties DEF RequestTypes
    <3> QED
      BY <2>2, <3>1 DEF Positions
  <2>3. CASE Sequential(q)
    <3>1. ASSUME NEW j \in Positions(q), task'[q][j] \notin {"waiting", "dropped"},
                 NEW i \in 1..(j - 1)
          PROVE  task'[q][i] \in Lost
      <4>1. i \in Positions(q)
        BY <2>2, <3>1
      <4>2. task[q][j] \notin {"waiting", "dropped"}
        BY <1>4, <1>5, <3>1
      <4>3. task[q][i] \in Lost
        BY <1>1, <2>3, <3>1, <4>2 DEF Paced
      <4> QED
        BY <1>4, <1>5, <4>1, <4>3 DEF Ended
    <3> QED
      BY <1>7, <2>3, <3>1 DEF Paced
  <2>4. CASE ~Sequential(q)
    BY <1>1, <1>7, <2>4 DEF Paced
  <2> QED
    BY <2>3, <2>4
<1>12. Accounts(q)'
  <2>1. \A k \in DOMAIN attempts[q] : attempts[q][k].target \in Positions(q)
    BY <1>1, TargetOfEntry
  <2>2. \A k \in DOMAIN attempts[q] : task'[q][attempts[q][k].target] = task[q][attempts[q][k].target]
    BY <1>1, <1>4, <1>5, <2>1 DEF Accounts
  <2> QED
    BY <1>1, <1>7, <1>9, <2>2 DEF Accounts
<1> QED
  BY <1>4, <1>5, <1>6, <1>7, <1>9, <1>10, <1>11, <1>12

\* The request stops its tasks and waits for them, to answer with w or with nothing.
LEMMA StopKeeps ==
    ASSUME NEW q \in Requests, RouterInv, pc[q] \in {"running", "settling"}, CancelTasks(q),
           NEW how \in {"settling", "cancelling"}, pc' = [pc EXCEPT ![q] = how],
           NEW w \in {0} \cup Positions(q), winner' = [winner EXCEPT ![q] = w],
           UNCHANGED <<strategy, targets, answer, attempts>>
    PROVE  /\ Alone(q) /\ TablesInv' /\ pc'[q] = how /\ winner'[q] = w
           /\ RequestTypes(q)' /\ Phase(q)' /\ Paced(q)' /\ Accounts(q)'
           /\ Won(q)' = Won(q) /\ (Over(q) => Over(q)')
           /\ \A p : CallsTo(p)' = CallsTo(p)
<1>1. RequestTypes(q) /\ Phase(q) /\ TablesInv
  BY DEF RouterInv, RequestInv
<1>2. /\ DOMAIN task' = Requests /\ \A r \in Requests \ {q} : task'[r] = task[r]
      /\ task'[q] \in [Positions(q) -> TaskStates]
      /\ \A i \in Positions(q) :
            /\ task'[q][i] \notin {"waiting", "calling"}
            /\ task[q][i] \in Ended \/ task'[q][i] \in Ended => task'[q][i] = task[q][i]
            /\ task[q][i] \in Paid <=> task'[q][i] \in Paid
      /\ Positions(q)' = Positions(q) /\ Entries(q)' = Entries(q)
      /\ Paced(q)' /\ Accounts(q)' /\ Won(q)' = Won(q) /\ (Over(q) => Over(q)')
  BY CancelTasksKeeps
<1>3. strategy' = strategy /\ targets' = targets /\ answer' = answer /\ attempts' = attempts
  OBVIOUS
<1>4. Alone(q) /\ TablesInv' /\ pc'[q] = how /\ winner'[q] = w
  BY <1>1, <1>2, <1>3 DEF Alone, Stays, TablesInv, PCs, Busy
<1>5. RequestTypes(q)'
  BY <1>1, <1>2, <1>3, <1>4 DEF RequestTypes
<1>6. Phase(q)'
  BY <1>1, <1>2, <1>3, <1>4 DEF Phase, Busy
<1>7. ASSUME NEW p
      PROVE  CallsTo(p)' = CallsTo(p)
  <2>1. DOMAIN task[q] = Positions(q) /\ DOMAIN task'[q] = Positions(q)
    BY <1>1, <1>2 DEF RequestTypes
  <2>2. \A j : /\ j \in DOMAIN task'[q]
               /\ targets'[q][j] = p /\ task'[q][j] \in Paid
           <=> /\ j \in DOMAIN task[q]
               /\ targets[q][j] = p /\ task[q][j] \in Paid
    BY <1>2, <1>3, <2>1
  <2> QED
    BY <1>4, <2>2, CallsStay
<1> QED
  BY <1>2, <1>4, <1>5, <1>6, <1>7

LEMMA SettleKeeps ==
    ASSUME NEW q \in Requests, RouterInv, Settle(q)
    PROVE  Alone(q) /\ TablesInv' /\ RequestInv(q)' /\ \A p : CallsTo(p)' = CallsTo(p)
<1>1. RequestTypes(q) /\ Accounts(q)
  BY DEF RouterInv, RequestInv
<1>2. /\ pc[q] = "running" /\ strategy[q] = "any" /\ Settled(q) /\ CancelTasks(q)
      /\ winner' = [winner EXCEPT ![q] = FirstSuccess(q)]
      /\ pc' = [pc EXCEPT ![q] = "settling"]
      /\ strategy' = strategy /\ targets' = targets /\ answer' = answer /\ attempts' = attempts
  BY DEF Settle
<1>3. FirstSuccess(q) \in {0} \cup Positions(q)
  <2>1. DOMAIN task[q] = Positions(q)
    BY <1>1 DEF RequestTypes
  <2> QED
    BY <1>1, <2>1, FirstSuccessWon DEF Won
<1>4. /\ Alone(q) /\ TablesInv' /\ pc'[q] = "settling" /\ winner'[q] = FirstSuccess(q)
      /\ RequestTypes(q)' /\ Phase(q)' /\ Paced(q)' /\ Accounts(q)'
      /\ Won(q)' = Won(q) /\ (Over(q) => Over(q)')
      /\ \A p : CallsTo(p)' = CallsTo(p)
  BY <1>2, <1>3, StopKeeps
<1>5. FirstSuccess(q)' = FirstSuccess(q)
  BY <1>2 DEF FirstSuccess
<1>6. Result(q)'
  BY <1>2, <1>4, <1>5 DEF Result, Errors, Settled
<1> QED
  BY <1>4, <1>6 DEF RequestInv

LEMMA CancelKeeps ==
    ASSUME NEW q \in Requests, RouterInv, Cancel(q)
    PROVE  Alone(q) /\ TablesInv' /\ RequestInv(q)' /\ \A p : CallsTo(p)' = CallsTo(p)
<1>1. /\ pc[q] \in {"running", "settling"} /\ CancelTasks(q)
      /\ winner' = [winner EXCEPT ![q] = 0] /\ pc' = [pc EXCEPT ![q] = "cancelling"]
      /\ strategy' = strategy /\ targets' = targets /\ answer' = answer /\ attempts' = attempts
  BY DEF Cancel
<1>2. /\ Alone(q) /\ TablesInv' /\ pc'[q] = "cancelling"
      /\ RequestTypes(q)' /\ Phase(q)' /\ Paced(q)' /\ Accounts(q)'
      /\ \A p : CallsTo(p)' = CallsTo(p)
  BY <1>1, StopKeeps
<1>3. Result(q)'
  BY <1>2 DEF Result, Errors
<1> QED
  BY <1>2, <1>3 DEF RequestInv

LEMMA DrainKeeps ==
    ASSUME NEW q \in Requests, RouterInv, NEW i \in DOMAIN task[q], Drain(q, i)
    PROVE  Alone(q) /\ TablesInv' /\ RequestInv(q)' /\ \A p : CallsTo(p)' = CallsTo(p)
<1>1. RequestTypes(q) /\ Phase(q) /\ Paced(q) /\ Accounts(q) /\ Result(q) /\ TablesInv
  BY DEF RouterInv, RequestInv
<1>2. /\ i \in Positions(q) /\ DOMAIN task[q] = Positions(q)
      /\ task[q][i] = "cancelling" /\ task' = [task EXCEPT ![q][i] = "cancelled"]
      /\ strategy' = strategy /\ targets' = targets /\ pc' = pc /\ answer' = answer
      /\ attempts' = attempts /\ winner' = winner
  BY <1>1 DEF Drain, RequestTypes
<1>3. /\ task'[q] = [task[q] EXCEPT ![i] = "cancelled"]
      /\ DOMAIN task' = Requests /\ \A r \in Requests \ {q} : task'[r] = task[r]
  BY <1>1, <1>2 DEF TablesInv
<1>4. /\ task'[q] \in [Positions(q) -> TaskStates] /\ task'[q][i] = "cancelled"
      /\ \A j \in Positions(q) \ {i} : task'[q][j] = task[q][j]
  BY <1>1, <1>3 DEF RequestTypes, TaskStates
<1>5. Alone(q) /\ TablesInv'
  BY <1>1, <1>2, <1>3 DEF Alone, Stays, TablesInv
<1>6. /\ Positions(q)' = Positions(q) /\ Entries(q)' = Entries(q) /\ Sequential(q)' = Sequential(q)
      /\ FirstSuccess(q)' = FirstSuccess(q)
  BY <1>2 DEF Positions, Entries, Sequential, FirstSuccess
<1>7. DOMAIN task'[q] = Positions(q)
  BY <1>4
<1>8. EndedOf(q)' = EndedOf(q) /\ Won(q)' = Won(q) /\ (Over(q)' <=> Over(q))
  BY <1>2, <1>4, <1>6, <1>7 DEF EndedOf, Won, Over, Ended, Lost
<1>9. pc[q] \in {"settling", "cancelling"}
  BY <1>1, <1>2 DEF Phase, Flying, Busy
<1>10. RequestTypes(q)'
  BY <1>1, <1>2, <1>4, <1>6 DEF RequestTypes
<1>11. Phase(q)'
  BY <1>1, <1>2, <1>4, <1>6, <1>9 DEF Phase, Busy
<1>12. Paced(q)'
  <2>1. CASE Sequential(q)
    <3>1. ASSUME NEW j \in Positions(q), task'[q][j] \notin {"waiting", "dropped"},
                 NEW k \in 1..(j - 1)
          PROVE  task'[q][k] \in Lost
      <4>1. Len(targets[q]) \in Nat
        BY <1>1, LenProperties DEF RequestTypes
      <4>2. k \in Positions(q)
        BY <3>1, <4>1 DEF Positions
      <4>3. task[q][j] \notin {"waiting", "dropped"}
        BY <1>2, <1>4, <3>1
      <4>4. task[q][k] \in Lost
        BY <1>1, <2>1, <3>1, <4>3 DEF Paced
      <4>5. k # i
        BY <1>2, <4>4 DEF Lost
      <4> QED
        BY <1>4, <4>2, <4>4, <4>5
    <3> QED
      BY <1>6, <2>1, <3>1 DEF Paced
  <2>2. CASE ~Sequential(q)
    BY <1>1, <1>2, <1>6, <2>2 DEF Paced
  <2> QED
    BY <2>1, <2>2
<1>13. Accounts(q)'
  <2>1. \A k \in DOMAIN attempts[q] : attempts[q][k].target \in Positions(q) \ {i}
    BY <1>1, <1>2, TargetOfEntry DEF Accounts, Ended, Lost
  <2>2. \A k \in DOMAIN attempts[q] : task'[q][attempts[q][k].target] = task[q][attempts[q][k].target]
    BY <1>4, <2>1
  <2> QED
    BY <1>1, <1>2, <1>8, <2>2 DEF Accounts
<1>14. Result(q)'
  BY <1>1, <1>2, <1>6, <1>8, <1>9 DEF Result, Errors
<1>15. ASSUME NEW p
       PROVE  CallsTo(p)' = CallsTo(p)
  <2>1. \A j : /\ j \in DOMAIN task'[q]
               /\ targets'[q][j] = p /\ task'[q][j] \in Paid
           <=> /\ j \in DOMAIN task[q]
               /\ targets[q][j] = p /\ task[q][j] \in Paid
    BY <1>2, <1>4, <1>7 DEF Paid
  <2> QED
    BY <1>5, <2>1, CallsStay
<1> QED
  BY <1>5, <1>10, <1>11, <1>12, <1>13, <1>14, <1>15 DEF RequestInv

LEMMA ReturnKeeps ==
    ASSUME NEW q \in Requests, RouterInv, Return(q)
    PROVE  Alone(q) /\ TablesInv' /\ RequestInv(q)' /\ \A p : CallsTo(p)' = CallsTo(p)
<1> DEFINE how == IF winner[q] # 0 THEN "returned" ELSE ErrorKind(attempts[q])
<1>1. RequestTypes(q) /\ Phase(q) /\ Paced(q) /\ Accounts(q) /\ Result(q) /\ TablesInv
  BY DEF RouterInv, RequestInv
<1>2. /\ pc[q] = "settling" /\ Drained(q) /\ pc' = [pc EXCEPT ![q] = how]
      /\ strategy' = strategy /\ targets' = targets /\ task' = task
      /\ answer' = answer /\ attempts' = attempts /\ winner' = winner
  BY DEF Return
<1>3. ErrorKind(attempts[q]) \in Errors /\ ErrorKind(attempts'[q]) = ErrorKind(attempts[q])
  BY <1>2 DEF ErrorKind, Errors
<1>4. how \in PCs
  BY <1>3 DEF PCs
<1>5. winner[q] \in {0} \cup Positions(q) /\ DOMAIN winner = Requests
  BY <1>1 DEF RequestTypes, TablesInv
<1> HIDE DEF how
<1>6. /\ Alone(q) /\ TablesInv' /\ pc'[q] = how /\ winner'[q] = winner[q]
      /\ RequestTypes(q)' /\ Paced(q)' /\ Accounts(q)'
      /\ Positions(q)' = Positions(q) /\ Won(q)' = Won(q) /\ Over(q)' = Over(q)
      /\ \A p : CallsTo(p)' = CallsTo(p)
  BY <1>2, <1>4, <1>5, OnlyEnds
<1>7. \A i \in Positions(q) : task[q][i] \notin Flying \cup {"waiting"}
  BY <1>1, <1>2 DEF Phase, Drained, Flying, RequestTypes
<1>8. how \in Errors \cup {"returned"}
  BY <1>3 DEF how
<1>9. Phase(q)'
  BY <1>2, <1>6, <1>7, <1>8 DEF Phase, Errors, Busy
<1>10. strategy[q] = "any" /\ winner[q] = FirstSuccess(q) /\ (Won(q) = {} => Over(q))
  BY <1>1, <1>2 DEF Result
<1>11. CASE winner[q] = 0
  <2>1. Won(q) = {} /\ how = ErrorKind(attempts[q])
    <3>1. FirstSuccess(q) = 0
      BY <1>10, <1>11
    <3> QED
      BY <1>1, <1>11, <3>1, FirstSuccessWon DEF how
  <2>2. Result(q)'
    BY <1>3, <1>6, <1>10, <2>1 DEF Result, Errors
  <2> QED
    BY <1>6, <1>9, <2>2 DEF RequestInv
<1>12. CASE winner[q] # 0
  <2>1. /\ winner[q] \in Won(q) /\ how = "returned"
        /\ \E k \in DOMAIN attempts[q] :
              /\ attempts[q][k].target = winner[q]
              /\ \A m \in 1..(k - 1) : attempts[q][m].status # "success"
    BY <1>1, <1>10, <1>12, FirstSuccessWon DEF how
  <2>2. strategy'[q] = "any" /\ ~Sequential(q)' /\ attempts'[q] = attempts[q]
    BY <1>2, <1>10 DEF Sequential
  <2>3. Promised(q)'
    BY <1>6, <2>1, <2>2 DEF Promised
  <2>4. Result(q)'
    BY <1>6, <2>1, <2>3 DEF Result, Errors
  <2> QED
    BY <1>6, <1>9, <2>4 DEF RequestInv
<1> QED
  BY <1>11, <1>12

LEMMA AbortKeeps ==
    ASSUME NEW q \in Requests, RouterInv, Abort(q)
    PROVE  Alone(q) /\ TablesInv' /\ RequestInv(q)' /\ \A p : CallsTo(p)' = CallsTo(p)
<1>1. RequestTypes(q) /\ Phase(q) /\ TablesInv
  BY DEF RouterInv, RequestInv
<1>2. /\ pc[q] = "cancelling" /\ Drained(q) /\ pc' = [pc EXCEPT ![q] = "cancelled"]
      /\ strategy' = strategy /\ targets' = targets /\ task' = task
      /\ answer' = answer /\ attempts' = attempts /\ winner' = winner
  BY DEF Abort
<1>3. "cancelled" \in PCs /\ winner[q] \in {0} \cup Positions(q) /\ DOMAIN winner = Requests
  BY <1>1 DEF RequestTypes, TablesInv, PCs
<1>4. /\ Alone(q) /\ TablesInv' /\ pc'[q] = "cancelled"
      /\ RequestTypes(q)' /\ Paced(q)' /\ Accounts(q)' /\ Positions(q)' = Positions(q)
      /\ \A p : CallsTo(p)' = CallsTo(p)
  BY <1>2, <1>3, OnlyEnds
<1>5. \A i \in Positions(q) : task[q][i] \notin Flying
  BY <1>1, <1>2 DEF Phase, Drained, Flying, RequestTypes
<1>6. Phase(q)' /\ Result(q)'
  BY <1>2, <1>4, <1>5 DEF Phase, Result, Busy, Errors
<1> QED
  BY <1>4, <1>6 DEF RequestInv

-----------------------------------------------------------------------------
(* The choice among the candidates                                         *)

LEMMA Candidates ==
    ASSUME NEW q, RequestTypes(q)
    PROVE  /\ Won(q) \in SUBSET Nat /\ IsFiniteSet(Won(q)) /\ Cardinality(Won(q)) \in Nat
           /\ \A i \in Won(q) : answer[q][i].confidence \in 0..100
<1>1. Won(q) \subseteq 1..Len(targets[q]) /\ Len(targets[q]) \in Nat
  BY LenProperties DEF RequestTypes, Won, Positions
<1>2. IsFiniteSet(Won(q)) /\ Cardinality(Won(q)) \in Nat
  <2>1. IsFiniteSet(1..Len(targets[q]))
    BY <1>1, FS_Interval
  <2>2. IsFiniteSet(Won(q))
    BY <1>1, <2>1, FS_Subset
  <2> QED
    BY <2>2, FS_CardinalityType
<1>3. \A i \in Won(q) : answer[q][i] \in Answers \cup {NoAnswer}
  BY <1>1 DEF RequestTypes, Positions
<1>4. (\A a \in Answers : a.confidence \in 0..100) /\ NoAnswer.confidence \in 0..100
  BY RouterAssumption DEF NoAnswer
<1>5. \A i \in Won(q) : answer[q][i].confidence \in 0..100
  BY <1>3, <1>4
<1>6. Won(q) \in SUBSET Nat
  BY <1>1
<1> QED
  BY <1>2, <1>5, <1>6

LEMMA PeakIsReached ==
    ASSUME NEW q, RequestTypes(q), NEW i \in Won(q)
    PROVE  /\ Peak(q, i) \in 0..100
           /\ \E j \in Won(q) : /\ answer[q][j].content = answer[q][i].content
                                /\ answer[q][j].confidence = Peak(q, i)
<1> DEFINE Same == {j \in Won(q) : answer[q][j].content = answer[q][i].content}
           Sure == {answer[q][j].confidence : j \in Same}
<1>1. Same \subseteq Won(q) /\ i \in Same
  OBVIOUS
<1>2. Peak(q, i) = Max(Sure)
  BY DEF Peak
<1> HIDE DEF Same
<1>3. Sure \in SUBSET (0..100) /\ Sure # {}
  BY <1>1, Candidates
<1>4. Max(Sure) \in Sure
  BY <1>3, MaxIsGreatest
<1>5. PICK j \in Same : answer[q][j].confidence = Peak(q, i)
  BY <1>2, <1>4
<1> QED
  BY <1>1, <1>2, <1>3, <1>4, <1>5 DEF Same

LEMMA VotesAreCounted ==
    ASSUME NEW q, RequestTypes(q), NEW i
    PROVE  Votes(q, i) \in 0..Cardinality(Won(q))
<1> DEFINE Same == {j \in Won(q) : answer[q][j].content = answer[q][i].content}
<1>1. Same \subseteq Won(q)
  OBVIOUS
<1>2. Votes(q, i) = Cardinality(Same)
  BY DEF Votes
<1> HIDE DEF Same
<1>3. IsFiniteSet(Same) /\ Cardinality(Same) <= Cardinality(Won(q))
  BY <1>1, Candidates, FS_Subset
<1>4. Cardinality(Same) \in Nat
  BY <1>3, FS_CardinalityType
<1> QED
  BY <1>2, <1>3, <1>4, Candidates

\* Nobody has more votes than the winner of the vote.
LEMMA VoteIsWon ==
    ASSUME NEW q, RequestTypes(q), Won(q) # {}
    PROVE  /\ VoteWinner(q) \in Won(q)
           /\ \A i \in Won(q) : Votes(q, i) <= Votes(q, VoteWinner(q))
<1> DEFINE best == {i \in Won(q) : \A j \in Won(q) :
                       \/ Votes(q, j) < Votes(q, i)
                       \/ Votes(q, j) = Votes(q, i) /\ Peak(q, j) <= Peak(q, i)}
           first == Min(best)
           chosen == {i \in best : /\ answer[q][i].content = answer[q][first].content
                                   /\ answer[q][i].confidence = Peak(q, i)}
           counts == {Votes(q, i) : i \in Won(q)}
           most == Max(counts)
           leading == {i \in Won(q) : Votes(q, i) = most}
           peaks == {Peak(q, i) : i \in leading}
<1>1. VoteWinner(q) = Min(chosen)
  BY DEF VoteWinner
<1>2. \A i \in Won(q) : Votes(q, i) \in 0..Cardinality(Won(q)) /\ Peak(q, i) \in 0..100
  BY VotesAreCounted, PeakIsReached
<1>3. counts \in SUBSET (0..Cardinality(Won(q))) /\ counts # {}
  BY <1>2
<1>4. most \in counts /\ \A v \in counts : v <= most
  BY <1>3, Candidates, MaxIsGreatest
<1>5. \A i \in Won(q) : Votes(q, i) <= most
  BY <1>4
<1> HIDE DEF most
<1>6. leading # {}
  BY <1>4
<1>7. peaks \in SUBSET (0..100) /\ peaks # {}
  BY <1>2, <1>6
<1>8. Max(peaks) \in peaks /\ \A v \in peaks : v <= Max(peaks)
  <2> HIDE DEF peaks
  <2> QED
    BY <1>7, MaxIsGreatest
<1>9. PICK top \in leading : \A i \in leading : Peak(q, i) <= Peak(q, top)
  BY <1>8
<1>10. top \in best
  <2>1. ASSUME NEW j \in Won(q)
        PROVE  \/ Votes(q, j) < Votes(q, top)
               \/ Votes(q, j) = Votes(q, top) /\ Peak(q, j) <= Peak(q, top)
    <3>1. Votes(q, top) = most /\ Votes(q, j) <= most
      BY <1>5
    <3>2. Votes(q, j) \in Nat /\ Votes(q, top) \in Nat
      BY <1>2
    <3>3. CASE Votes(q, j) = most
      BY <1>9, <3>1, <3>3
    <3>4. CASE Votes(q, j) # most
      BY <3>1, <3>2, <3>4
    <3> QED
      BY <3>3, <3>4
  <2> QED
    BY <2>1
<1>11. best \in SUBSET Nat /\ best # {}
  BY <1>10, Candidates
<1>12. first \in best
  <2> HIDE DEF best
  <2> QED
    BY <1>11, MinIsLeast
<1> HIDE DEF first
<1>13. first \in Won(q)
  BY <1>12
<1>14. PICK i \in Won(q) : /\ answer[q][i].content = answer[q][first].content
                           /\ answer[q][i].confidence = Peak(q, first)
  BY <1>13, PeakIsReached
<1>15. Votes(q, i) = Votes(q, first) /\ Peak(q, i) = Peak(q, first)
  BY <1>14 DEF Votes, Peak
<1>16. i \in chosen
  BY <1>12, <1>14, <1>15
<1>17. chosen \in SUBSET Nat /\ chosen # {} /\ chosen \subseteq best
  BY <1>11, <1>16
<1>18. Min(chosen) \in chosen
  <2> HIDE DEF chosen
  <2> QED
    BY <1>17, MinIsLeast
<1>19. VoteWinner(q) \in best
  BY <1>1, <1>17, <1>18
<1> QED
  BY <1>2, <1>19

\* No candidate is more confident than the winner by confidence.
LEMMA ConfidenceIsWon ==
    ASSUME NEW q, RequestTypes(q), Won(q) # {}
    PROVE  /\ ConfidenceWinner(q) \in Won(q)
           /\ \A i \in Won(q) :
                 answer[q][i].confidence <= answer[q][ConfidenceWinner(q)].confidence
<1> DEFINE sure == {answer[q][i].confidence : i \in Won(q)}
           surest == {i \in Won(q) : \A j \in Won(q) :
                         answer[q][j].confidence <= answer[q][i].confidence}
<1>1. ConfidenceWinner(q) = Min(surest)
  BY DEF ConfidenceWinner
<1>2. sure \in SUBSET (0..100) /\ sure # {}
  BY Candidates
<1>3. Max(sure) \in sure /\ \A v \in sure : v <= Max(sure)
  <2> HIDE DEF sure
  <2> QED
    BY <1>2, MaxIsGreatest
<1>4. surest \in SUBSET Nat /\ surest # {}
  <2>1. PICK i \in Won(q) : answer[q][i].confidence = Max(sure)
    BY <1>3
  <2>2. i \in surest
    BY <1>3, <2>1
  <2> QED
    BY <2>2, Candidates
<1>5. Min(surest) \in surest
  <2> HIDE DEF surest
  <2> QED
    BY <1>4, MinIsLeast
<1> QED
  BY <1>1, <1>5

LEMMA CollectKeeps ==
    ASSUME NEW q \in Requests, RouterInv, Collect(q)
    PROVE  Alone(q) /\ TablesInv' /\ RequestInv(q)' /\ \A p : CallsTo(p)' = CallsTo(p)
<1>1. RequestTypes(q) /\ Phase(q) /\ TablesInv
  BY DEF RouterInv, RequestInv
<1>2. /\ pc[q] = "running" /\ strategy[q] \in {"vote", "confidence"} /\ Over(q)
      /\ strategy' = strategy /\ targets' = targets /\ task' = task
      /\ answer' = answer /\ attempts' = attempts
  BY DEF Collect
<1>3. \A i \in Positions(q) : task[q][i] \notin Flying
  BY <1>1, <1>2 DEF Over, Flying, RequestTypes
<1>4. CASE Won(q) = {}
  <2>1. pc' = [pc EXCEPT ![q] = ErrorKind(attempts[q])] /\ winner' = winner
    BY <1>4 DEF Collect
  <2>2. ErrorKind(attempts[q]) \in Errors /\ ErrorKind(attempts'[q]) = ErrorKind(attempts[q])
    BY <1>2 DEF ErrorKind, Errors
  <2>3. ErrorKind(attempts[q]) \in PCs /\ DOMAIN winner = Requests
        /\ winner[q] \in {0} \cup Positions(q)
    BY <1>1, <2>2 DEF PCs, RequestTypes, TablesInv
  <2>4. /\ Alone(q) /\ TablesInv' /\ pc'[q] = ErrorKind(attempts[q])
        /\ RequestTypes(q)' /\ Paced(q)' /\ Accounts(q)'
        /\ Positions(q)' = Positions(q) /\ Won(q)' = Won(q) /\ Over(q)' = Over(q)
        /\ \A p : CallsTo(p)' = CallsTo(p)
    BY <1>2, <2>1, <2>3, OnlyEnds
  <2>5. Phase(q)' /\ Result(q)'
    BY <1>2, <1>3, <1>4, <2>2, <2>4 DEF Phase, Result, Errors, Busy
  <2> QED
    BY <2>4, <2>5 DEF RequestInv
<1>5. CASE Won(q) # {}
  <2> DEFINE w == IF strategy[q] = "vote" THEN VoteWinner(q) ELSE ConfidenceWinner(q)
  <2>1. pc' = [pc EXCEPT ![q] = "returned"] /\ winner' = [winner EXCEPT ![q] = w]
    BY <1>5 DEF Collect
  <2>2. /\ w \in Won(q)
        /\ strategy[q] = "vote" => \A i \in Won(q) : Votes(q, i) <= Votes(q, w)
        /\ strategy[q] = "confidence" =>
              \A i \in Won(q) : answer[q][i].confidence <= answer[q][w].confidence
    BY <1>1, <1>5, VoteIsWon, ConfidenceIsWon
  <2> HIDE DEF w
  <2>3. "returned" \in PCs /\ w \in {0} \cup Positions(q)
    BY <1>1, <2>2 DEF PCs, Won, RequestTypes
  <2>4. /\ winner'[q] = w /\ \A r \in Requests \ {q} : winner'[r] = winner[r]
        /\ DOMAIN winner' = Requests
    BY <1>1, <2>1 DEF TablesInv
  <2>5. /\ Alone(q) /\ TablesInv' /\ pc'[q] = "returned"
        /\ RequestTypes(q)' /\ Paced(q)' /\ Accounts(q)'
        /\ Positions(q)' = Positions(q) /\ Won(q)' = Won(q)
        /\ \A p : CallsTo(p)' = CallsTo(p)
    BY <1>2, <2>1, <2>3, <2>4, OnlyEnds
  <2>6. \A i : Votes(q, i)' = Votes(q, i)
    BY <1>2, <2>5 DEF Votes
  <2>7. Promised(q)'
    BY <1>2, <2>2, <2>4, <2>5, <2>6 DEF Promised, Sequential
  <2>8. Phase(q)' /\ Result(q)'
    BY <1>2, <1>3, <2>5, <2>7 DEF Phase, Result, Errors, Busy
  <2> QED
    BY <2>5, <2>8 DEF RequestInv
<1> QED
  BY <1>4, <1>5

-----------------------------------------------------------------------------
(* The beginning of a request                                              *)

\* A request that has not begun has nothing to show.
LEMMA IdleIsEmpty ==
    ASSUME NEW q, RequestTypes(q), Accounts(q), targets[q] = <<>>
    PROVE  /\ Positions(q) = {} /\ DOMAIN task[q] = {}
           /\ winner[q] = 0 /\ attempts[q] = <<>>
<1>1. Positions(q) = {}
  BY EmptySeq DEF Positions
<1>2. DOMAIN task[q] = {} /\ winner[q] = 0
  BY <1>1 DEF RequestTypes
<1>3. EndedOf(q) = {}
  BY <1>1 DEF EndedOf
<1>4. Len(attempts[q]) = 0
  BY <1>3, FS_EmptySet DEF Accounts
<1>5. attempts[q] = <<>>
  BY <1>4, EmptySeq DEF RequestTypes
<1> QED
  BY <1>1, <1>2, <1>5

LEMMA RunKeeps ==
    ASSUME NEW q \in Requests, RouterInv, NEW s \in Strategies, NEW list \in TargetLists,
           Run(q, s, list)
    PROVE  /\ Alone(q) /\ TablesInv' /\ RequestInv(q)' /\ \A p : CallsTo(p)' = CallsTo(p)
           /\ pc'[q] = "running"
<1> DEFINE most == CASE s = "single"   -> 1
                     [] s = "fallback" -> Len(list)
                     [] OTHER          -> Fanout
           n    == Min({most, Len(list)})
           use  == SubSeq(list, 1, n)
<1>1. RequestTypes(q) /\ Phase(q) /\ Accounts(q) /\ TablesInv
  BY DEF RouterInv, RequestInv
<1>2. list \in Seq(Providers) /\ list # <<>> /\ Fanout \in Nat \ {0}
      /\ s \in {"single", "fallback", "any", "vote", "confidence"}
  BY RouterAssumption
<1>3. Len(list) \in Nat \ {0} /\ DOMAIN list = 1..Len(list) /\ \A i \in DOMAIN list : list[i] \in Providers
  BY <1>2, EmptySeq, LenProperties, ElementOfSeq
<1>4. most \in Nat \ {0}
  BY <1>2, <1>3
<1>5. n \in {most, Len(list)} /\ n <= most /\ n <= Len(list)
  <2> HIDE DEF most
  <2> QED
    BY <1>3, <1>4, MinIsLeast
<1> HIDE DEF n
<1>6. use \in Seq(Providers) /\ Len(use) = n /\ DOMAIN use = 1..n /\ n \in Nat \ {0}
  <2>1. n \in Nat \ {0} /\ \A i \in 1..n : list[i] \in Providers
    BY <1>3, <1>4, <1>5
  <2>2. use \in Seq(Providers) /\ Len(use) = n
    BY <2>1, SubSeqProperties
  <2> QED
    BY <2>1, <2>2, LenProperties
<1>7. /\ pc[q] = "idle"
      /\ strategy' = [strategy EXCEPT ![q] = s]
      /\ targets' = [targets EXCEPT ![q] = use]
      /\ task' = [task EXCEPT ![q] = [i \in DOMAIN use |-> "waiting"]]
      /\ answer' = [answer EXCEPT ![q] = [i \in DOMAIN use |-> NoAnswer]]
      /\ pc' = [pc EXCEPT ![q] = "running"]
      /\ attempts' = attempts /\ winner' = winner
  BY DEF Run, n, most
<1> HIDE DEF use
<1>8. s \notin {"single", "fallback"} => n <= Fanout
  BY <1>5
<1> HIDE DEF most
<1>9. /\ strategy'[q] = s /\ targets'[q] = use /\ task'[q] = [i \in 1..n |-> "waiting"]
      /\ answer'[q] = [i \in 1..n |-> NoAnswer] /\ pc'[q] = "running"
  BY <1>1, <1>6, <1>7 DEF TablesInv
<1>10. Alone(q) /\ TablesInv'
  BY <1>1, <1>6, <1>7 DEF Alone, Stays, TablesInv, PCs, Busy
<1>11. Positions(q) = {} /\ DOMAIN task[q] = {} /\ winner[q] = 0 /\ attempts[q] = <<>>
  BY <1>1, <1>7, IdleIsEmpty DEF Phase
<1>12. Positions(q)' = 1..n
  BY <1>6, <1>9 DEF Positions
<1>13. RequestTypes(q)'
  <2>1. attempts'[q] \in Seq(Entries(q)')
    BY <1>7, <1>11, EmptySeq
  <2>2. task'[q] \in [Positions(q)' -> TaskStates]
    BY <1>9, <1>12 DEF TaskStates
  <2>3. answer'[q] \in [Positions(q)' -> Answers \cup {NoAnswer}]
    BY <1>9, <1>12
  <2> QED
    BY <1>6, <1>7, <1>9, <1>11, <2>1, <2>2, <2>3 DEF RequestTypes
<1>14. Phase(q)'
  <2>1. targets'[q] # <<>>
    BY <1>6, <1>9, EmptySeq
  <2> QED
    BY <1>9, <1>12, <2>1 DEF Phase, Busy
<1>15. Paced(q)'
  BY <1>6, <1>8, <1>9, <1>12 DEF Paced, Sequential
<1>16. Accounts(q)'
  <2>1. EndedOf(q)' = {}
    BY <1>9, <1>12 DEF EndedOf, Ended, Lost
  <2>2. attempts'[q] = <<>> /\ DOMAIN attempts'[q] = {} /\ Len(attempts'[q]) = 0
    BY <1>7, <1>11, EmptySeq
  <2> QED
    BY <2>1, <2>2, FS_EmptySet DEF Accounts
<1>17. Result(q)'
  BY <1>9 DEF Result, Errors
<1>18. ASSUME NEW p
       PROVE  CallsTo(p)' = CallsTo(p)
  <2>1. \A j : /\ j \in DOMAIN task'[q]
               /\ targets'[q][j] = p /\ task'[q][j] \in Paid
           <=> /\ j \in DOMAIN task[q]
               /\ targets[q][j] = p /\ task[q][j] \in Paid
    BY <1>9, <1>11 DEF Paid
  <2> QED
    BY <1>10, <2>1, CallsStay
<1> QED
  BY <1>9, <1>10, <1>13, <1>14, <1>15, <1>16, <1>17, <1>18 DEF RequestInv

LEMMA RejectKeeps ==
    ASSUME NEW q \in Requests, RouterInv, Reject(q)
    PROVE  Alone(q) /\ TablesInv' /\ RequestInv(q)' /\ \A p : CallsTo(p)' = CallsTo(p)
<1>1. RequestTypes(q) /\ Phase(q) /\ Accounts(q) /\ TablesInv
  BY DEF RouterInv, RequestInv
<1>2. /\ pc[q] = "idle" /\ pc' = [pc EXCEPT ![q] = "rejected"]
      /\ strategy' = strategy /\ targets' = targets /\ task' = task
      /\ answer' = answer /\ attempts' = attempts /\ winner' = winner
  BY DEF Reject
<1>3. "rejected" \in PCs /\ winner[q] \in {0} \cup Positions(q) /\ DOMAIN winner = Requests
  BY <1>1 DEF PCs, RequestTypes, TablesInv
<1>4. /\ Alone(q) /\ TablesInv' /\ pc'[q] = "rejected"
      /\ RequestTypes(q)' /\ Paced(q)' /\ Accounts(q)' /\ Positions(q)' = Positions(q)
      /\ \A p : CallsTo(p)' = CallsTo(p)
  BY <1>2, <1>3, OnlyEnds
<1>5. targets[q] = <<>> /\ Positions(q) = {}
  BY <1>1, <1>2, IdleIsEmpty DEF Phase
<1>6. Phase(q)' /\ Result(q)'
  BY <1>2, <1>4, <1>5 DEF Phase, Result, Busy, Errors
<1> QED
  BY <1>4, <1>6 DEF RequestInv

-----------------------------------------------------------------------------
(* One attempt                                                             *)

\* A step that leaves the calls and the buckets alone.
LEMMA TokensStay ==
    ASSUME TokensInv, \A p : CallsTo(p)' = CallsTo(p), UNCHANGED tokens, UNCHANGED refills
    PROVE  TokensInv'
BY DEF TokensInv

LEMMA TaskCalls ==
    ASSUME NEW q \in Requests, RouterInv, Alone(q), NEW i \in Positions(q), NEW how,
           UNCHANGED targets, task'[q] = [task[q] EXCEPT ![i] = how],
           task[q][i] \in Paid <=> how \in Paid
    PROVE  \A p : CallsTo(p)' = CallsTo(p)
<1>1. task[q] \in [Positions(q) -> TaskStates]
  BY DEF RouterInv, RequestInv, RequestTypes
<1>2. /\ DOMAIN task[q] = Positions(q) /\ DOMAIN task'[q] = Positions(q) /\ task'[q][i] = how
      /\ \A j \in Positions(q) \ {i} : task'[q][j] = task[q][j]
  BY <1>1
<1>3. ASSUME NEW p
      PROVE  CallsTo(p)' = CallsTo(p)
  <2>1. \A j : /\ j \in DOMAIN task'[q]
               /\ targets'[q][j] = p /\ task'[q][j] \in Paid
           <=> /\ j \in DOMAIN task[q]
               /\ targets[q][j] = p /\ task[q][j] \in Paid
    BY <1>2
  <2> QED
    BY <2>1, CallsStay
<1> QED
  BY <1>3

LEMMA TurnIsNext ==
    ASSUME NEW q \in Requests, RouterInv, NEW i \in DOMAIN task[q], Turn(q, i)
    PROVE  /\ i \in Positions(q) /\ targets[q][i] \in Providers
           /\ pc[q] = "running" /\ task[q][i] = "waiting"
           /\ Sequential(q) => \A j \in 1..(i - 1) : task[q][j] \in Lost
<1>1. RequestTypes(q)
  BY DEF RouterInv, RequestInv
<1>2. i \in Positions(q)
  BY <1>1 DEF RequestTypes
<1>3. targets[q][i] \in Providers
  BY <1>1, <1>2, LenProperties, ElementOfSeq DEF RequestTypes, Positions
<1> QED
  BY <1>2, <1>3 DEF Turn, Lost

\* A provider is asked only for a request that runs.
LEMMA CallingIsRunning ==
    ASSUME NEW q \in Requests, RouterInv, NEW i \in DOMAIN task[q], task[q][i] = "calling"
    PROVE  /\ i \in Positions(q) /\ targets[q][i] \in Providers /\ pc[q] = "running"
           /\ Sequential(q) => \A j \in 1..(i - 1) : task[q][j] \in Lost
<1>1. RequestTypes(q) /\ Phase(q) /\ Paced(q)
  BY DEF RouterInv, RequestInv
<1>2. i \in Positions(q)
  BY <1>1 DEF RequestTypes
<1>3. targets[q][i] \in Providers
  BY <1>1, <1>2, LenProperties, ElementOfSeq DEF RequestTypes, Positions
<1>4. pc[q] = "running"
  BY <1>1, <1>2 DEF Phase, Flying, Busy
<1> QED
  BY <1>1, <1>2, <1>3, <1>4 DEF Paced

LEMMA SkipKeeps ==
    ASSUME NEW q \in Requests, RouterInv, NEW i \in DOMAIN task[q],
           SkipUnconfigured(q, i) \/ SkipOpen(q, i) \/ SkipLimited(q, i)
    PROVE  RouterInv' /\ Alone(q) /\ RequestInv(q)'
<1>1. Turn(q, i) /\ Lose(q, i, "skipped") /\ UNCHANGED tokens /\ UNCHANGED refills
      /\ UNCHANGED failures /\ UNCHANGED cooled
  BY DEF SkipUnconfigured, SkipOpen, SkipLimited, EnsureAllowed, shared
<1>2. circuit' = circuit \/ EnsureAllowed(targets[q][i])
  BY DEF SkipUnconfigured, SkipOpen, SkipLimited, shared
<1>3. /\ i \in Positions(q) /\ targets[q][i] \in Providers
      /\ pc[q] = "running" /\ task[q][i] = "waiting"
      /\ Sequential(q) => \A j \in 1..(i - 1) : task[q][j] \in Lost
  BY <1>1, TurnIsNext
<1>4. /\ Alone(q) /\ TablesInv' /\ RequestInv(q)'
      /\ targets' = targets /\ task'[q] = [task[q] EXCEPT ![i] = "skipped"]
  BY <1>1, <1>3, LoseKeeps DEF Lost
<1>5. \A p : CallsTo(p)' = CallsTo(p)
  BY <1>3, <1>4, TaskCalls DEF Paid
<1>6. TokensInv'
  BY <1>1, <1>5, TokensStay DEF RouterInv
<1>7. ProvidersInv'
  BY <1>1, <1>2, <1>3 DEF RouterInv, ProvidersInv, EnsureAllowed
<1> QED
  BY <1>4, <1>6, <1>7, StepKeeps

LEMMA CallKeeps ==
    ASSUME NEW q \in Requests, RouterInv, NEW i \in DOMAIN task[q], Call(q, i)
    PROVE  RouterInv' /\ Alone(q) /\ RequestInv(q)' /\ pc' = pc
<1>0. Turn(q, i)
  BY DEF Call
<1> PICK p \in Providers : p = targets[q][i]
  BY <1>0, TurnIsNext
<1>1. /\ Turn(q, i) /\ EnsureAllowed(p) /\ Acquire(p)
      /\ task' = [task EXCEPT ![q][i] = "calling"]
      /\ strategy' = strategy /\ targets' = targets /\ pc' = pc /\ answer' = answer
      /\ attempts' = attempts /\ winner' = winner
  BY DEF Call
<1>2. /\ i \in Positions(q) /\ pc[q] = "running" /\ task[q][i] = "waiting"
      /\ Sequential(q) => \A j \in 1..(i - 1) : task[q][j] \in Lost
  BY <1>1, TurnIsNext
<1>3. RequestTypes(q) /\ Phase(q) /\ Paced(q) /\ Accounts(q) /\ TablesInv /\ ProvidersInv /\ TokensInv
  BY DEF RouterInv, RequestInv
<1>4. /\ task'[q] = [task[q] EXCEPT ![i] = "calling"]
      /\ DOMAIN task' = Requests /\ \A r \in Requests \ {q} : task'[r] = task[r]
  BY <1>1, <1>3 DEF TablesInv
<1>5. /\ task'[q] \in [Positions(q) -> TaskStates] /\ task'[q][i] = "calling"
      /\ \A j \in Positions(q) \ {i} : task'[q][j] = task[q][j]
  BY <1>2, <1>3, <1>4 DEF RequestTypes, TaskStates, Flying
<1>6. Alone(q) /\ TablesInv'
  BY <1>1, <1>3, <1>4 DEF Alone, Stays, TablesInv
<1>7. Positions(q)' = Positions(q) /\ Entries(q)' = Entries(q) /\ Sequential(q)' = Sequential(q)
  BY <1>1 DEF Positions, Entries, Sequential
<1>8. EndedOf(q)' = EndedOf(q)
  BY <1>2, <1>5, <1>7 DEF EndedOf, Ended, Lost
<1>9. RequestTypes(q)'
  BY <1>1, <1>3, <1>5, <1>7 DEF RequestTypes
<1>10. Phase(q)'
  BY <1>1, <1>2, <1>3, <1>5, <1>7 DEF Phase, Busy
<1>11. Paced(q)'
  <2>1. CASE Sequential(q)
    <3>1. ASSUME NEW j \in Positions(q), task'[q][j] \notin {"waiting", "dropped"},
                 NEW k \in 1..(j - 1)
          PROVE  task'[q][k] \in Lost
      <4>1. Len(targets[q]) \in Nat
        BY <1>3, LenProperties DEF RequestTypes
      <4>2. k \in Positions(q)
        BY <3>1, <4>1 DEF Positions
      <4>3. task[q][k] \in Lost
        BY <1>2, <1>3, <1>5, <2>1, <3>1 DEF Paced
      <4> QED
        BY <1>2, <1>5, <4>2, <4>3 DEF Lost
    <3> QED
      BY <1>7, <2>1, <3>1 DEF Paced
  <2>2. CASE ~Sequential(q)
    BY <1>1, <1>3, <1>7, <2>2 DEF Paced
  <2> QED
    BY <2>1, <2>2
<1>12. Accounts(q)'
  <2>1. \A k \in DOMAIN attempts[q] : attempts[q][k].target \in Positions(q) \ {i}
    BY <1>2, <1>3, TargetOfEntry DEF Accounts, Ended, Lost
  <2>2. \A k \in DOMAIN attempts[q] : task'[q][attempts[q][k].target] = task[q][attempts[q][k].target]
    BY <1>5, <2>1
  <2> QED
    BY <1>1, <1>3, <1>8, <2>2 DEF Accounts
<1>13. Result(q)'
  BY <1>1, <1>2 DEF Result, Errors
<1>14. RequestInv(q)'
  BY <1>9, <1>10, <1>11, <1>12, <1>13 DEF RequestInv
<1>15. ProvidersInv'
  <2>1. tokens[p] \in 0..Burst /\ (Limited => tokens[p] > 0) /\ Burst \in Nat
    BY <1>1, <1>2, <1>3, RouterAssumption DEF ProvidersInv, Acquire, HasToken
  <2> QED
    BY <1>1, <1>2, <1>3, <2>1 DEF ProvidersInv, EnsureAllowed, Acquire
<1>16. CallsTo(p)' = CallsTo(p) \cup {<<q, i>>} /\ <<q, i>> \notin CallsTo(p)
  <2> DEFINE Of(r) == {j \in DOMAIN task[r] : targets[r][j] = p /\ task[r][j] \in Paid}
  <2>1. CallsTo(p) = UNION {{<<r, j>> : j \in Of(r)} : r \in Requests}
    BY DEF CallsTo, Paid
  <2>2. CallsTo(p)' = UNION {{<<r, j>> : j \in Of(r)'} : r \in Requests}
    BY <1>1 DEF CallsTo, Paid
  <2>3. Of(q)' = Of(q) \cup {i} /\ i \notin Of(q)
    BY <1>1, <1>2, <1>3, <1>5 DEF Paid, RequestTypes
  <2>4. \A r \in Requests \ {q} : Of(r)' = Of(r)
    BY <1>6, <1>1 DEF Alone, Stays
  <2> HIDE DEF Of
  <2> QED
    BY <2>1, <2>2, <2>3, <2>4
<1>17. ASSUME NEW o \in Providers \ {p}
       PROVE  CallsTo(o)' = CallsTo(o)
  <2>1. \A j : /\ j \in DOMAIN task'[q]
               /\ targets'[q][j] = o /\ task'[q][j] \in Paid
           <=> /\ j \in DOMAIN task[q]
               /\ targets[q][j] = o /\ task[q][j] \in Paid
    BY <1>1, <1>2, <1>3, <1>5, <1>17 DEF RequestTypes
  <2> QED
    BY <1>6, <2>1, CallsStay
<1>18. TokensInv'
  <2>1. ASSUME NEW o \in Providers
        PROVE  /\ IsFiniteSet(CallsTo(o)')
               /\ Limited => tokens'[o] + Cardinality(CallsTo(o)') = Burst + refills'[o]
    <3>1. IsFiniteSet(CallsTo(o)) /\ (Limited => tokens[o] + Cardinality(CallsTo(o)) = Burst + refills[o])
      BY <1>3, <2>1 DEF TokensInv
    <3>2. CASE o # p
      <4>1. tokens'[o] = tokens[o] /\ refills'[o] = refills[o]
        BY <1>1, <1>3, <2>1, <3>2 DEF Acquire, ProvidersInv
      <4> QED
        BY <1>17, <2>1, <3>1, <3>2, <4>1
    <3>3. CASE o = p
      <4>1. IsFiniteSet(CallsTo(o)') /\ Cardinality(CallsTo(o)') = Cardinality(CallsTo(o)) + 1
        BY <1>16, <3>1, <3>3, FS_AddElement
      <4>2. Limited => tokens'[o] = tokens[o] - 1 /\ refills'[o] = refills[o]
        BY <1>1, <1>3, <2>1, <3>3 DEF Acquire, ProvidersInv
      <4>3. Cardinality(CallsTo(o)) \in Nat /\ tokens[o] \in Int /\ refills[o] \in Nat /\ Burst \in Nat
        BY <1>3, <2>1, <3>1, FS_CardinalityType, RouterAssumption DEF ProvidersInv
      <4> QED
        BY <3>1, <4>1, <4>2, <4>3
    <3> QED
      BY <3>2, <3>3
  <2> QED
    BY <2>1 DEF TokensInv
<1> QED
  BY <1>1, <1>6, <1>14, <1>15, <1>18, StepKeeps

LEMMA AnswerKeeps ==
    ASSUME NEW q \in Requests, RouterInv, NEW i \in DOMAIN task[q],
           AnswerOk(q, i) \/ AnswerError(q, i)
    PROVE  RouterInv' /\ Alone(q) /\ RequestInv(q)'
<1> DEFINE p == targets[q][i]
<1>1. task[q][i] = "calling" /\ UNCHANGED tokens /\ UNCHANGED refills
  BY DEF AnswerOk, AnswerError
<1>2. /\ i \in Positions(q) /\ p \in Providers /\ pc[q] = "running"
      /\ Sequential(q) => \A j \in 1..(i - 1) : task[q][j] \in Lost
  BY <1>1, CallingIsRunning
<1>3. ProvidersInv /\ TokensInv
  BY DEF RouterInv
<1>4. /\ Alone(q) /\ TablesInv' /\ RequestInv(q)' /\ targets' = targets
      /\ \/ task'[q] = [task[q] EXCEPT ![i] = "won"]
         \/ task'[q] = [task[q] EXCEPT ![i] = "failed"]
  <2>1. CASE AnswerOk(q, i)
    BY <1>1, <1>2, <2>1, WinKeeps DEF AnswerOk
  <2>2. CASE AnswerError(q, i)
    BY <1>1, <1>2, <2>2, LoseKeeps DEF AnswerError, Lost
  <2> QED
    BY <2>1, <2>2
<1>5. \A o : CallsTo(o)' = CallsTo(o)
  <2>1. "calling" \in Paid /\ "won" \in Paid /\ "failed" \in Paid
    BY DEF Paid
  <2> QED
    BY <1>1, <1>2, <1>4, <2>1, TaskCalls
<1>6. TokensInv'
  BY <1>1, <1>3, <1>5, TokensStay
<1> HIDE DEF p
<1>7. Threshold \in Nat \ {0} /\ failures[p] \in 0..Threshold
  BY <1>2, <1>3, RouterAssumption DEF ProvidersInv
<1>8. ProvidersInv'
  <2>1. CASE AnswerOk(q, i)
    BY <1>1, <1>2, <1>3, <1>7, <2>1 DEF AnswerOk, RecordSuccess, ProvidersInv, p
  <2>2. CASE AnswerError(q, i)
    <3>1. RecordFailure(p)
      BY <2>2 DEF AnswerError, p
    <3> DEFINE count == IF failures[p] < Threshold THEN failures[p] + 1 ELSE Threshold
               trips == circuit[p] = "half_open" \/ count >= Threshold
    <3>2. /\ failures' = [failures EXCEPT ![p] = count]
          /\ circuit' = [circuit EXCEPT ![p] = IF trips THEN "open" ELSE @]
          /\ cooled' = [cooled EXCEPT ![p] = IF trips THEN FALSE ELSE @]
      BY <3>1 DEF RecordFailure
    <3>3. count \in 0..Threshold
      BY <1>7
    <3> HIDE DEF count, trips
    <3> QED
      BY <1>1, <1>2, <1>3, <3>2, <3>3 DEF ProvidersInv
  <2> QED
    BY <2>1, <2>2
<1> QED
  BY <1>4, <1>6, <1>8, StepKeeps

-----------------------------------------------------------------------------
(* The router                                                              *)

LEMMA RequestMoves ==
    ASSUME NEW q \in Requests, RouterInv,
           Collect(q) \/ Settle(q) \/ Return(q) \/ Cancel(q) \/ Abort(q)
    PROVE  RouterInv' /\ Alone(q) /\ pc[q] \in Busy /\ UNCHANGED targets
<1>1. UNCHANGED shared /\ UNCHANGED targets /\ pc[q] \in Busy
  BY DEF Collect, Settle, Return, Cancel, Abort, Busy
<1>2. Alone(q) /\ TablesInv' /\ RequestInv(q)' /\ \A p : CallsTo(p)' = CallsTo(p)
  BY CollectKeeps, SettleKeeps, ReturnKeeps, CancelKeeps, AbortKeeps
<1>3. ProvidersInv'
  BY <1>1 DEF RouterInv, ProvidersInv, shared
<1>4. TokensInv'
  BY <1>1, <1>2, TokensStay DEF RouterInv, shared
<1> QED
  BY <1>1, <1>2, <1>3, <1>4, StepKeeps

LEMMA TaskMoves ==
    ASSUME NEW q \in Requests, RouterInv, NEW i \in DOMAIN task[q],
           Try(q, i) \/ AnswerOk(q, i) \/ AnswerError(q, i) \/ Drain(q, i)
    PROVE  RouterInv' /\ Alone(q) /\ pc[q] \in Busy /\ UNCHANGED targets
<1>1. CASE SkipUnconfigured(q, i) \/ SkipOpen(q, i) \/ SkipLimited(q, i)
  <2>1. Turn(q, i) /\ UNCHANGED targets
    BY <1>1 DEF SkipUnconfigured, SkipOpen, SkipLimited, Lose
  <2> QED
    BY <1>1, <2>1, SkipKeeps, TurnIsNext DEF Busy
<1>2. CASE Call(q, i)
  <2>1. Turn(q, i) /\ UNCHANGED targets
    BY <1>2 DEF Call
  <2> QED
    BY <1>2, <2>1, CallKeeps, TurnIsNext DEF Busy
<1>3. CASE AnswerOk(q, i) \/ AnswerError(q, i)
  <2>1. task[q][i] = "calling" /\ UNCHANGED targets
    BY <1>3 DEF AnswerOk, AnswerError, Win, Lose
  <2> QED
    BY <1>3, <2>1, AnswerKeeps, CallingIsRunning DEF Busy
<1>4. CASE Drain(q, i)
  <2>1. UNCHANGED shared /\ UNCHANGED targets /\ task[q][i] = "cancelling"
    BY <1>4 DEF Drain
  <2>2. Alone(q) /\ TablesInv' /\ RequestInv(q)' /\ \A p : CallsTo(p)' = CallsTo(p)
    BY <1>4, DrainKeeps
  <2>3. ProvidersInv'
    BY <2>1 DEF RouterInv, ProvidersInv, shared
  <2>4. TokensInv'
    BY <2>1, <2>2, TokensStay DEF RouterInv, shared
  <2>5. pc[q] \in Busy
    BY <2>1 DEF RouterInv, RequestInv, RequestTypes, Phase, Flying
  <2> QED
    BY <2>1, <2>2, <2>3, <2>4, <2>5, StepKeeps
<1> QED
  BY <1>1, <1>2, <1>3, <1>4 DEF Try

LEMMA RequestsStay ==
    ASSUME RouterInv, UNCHANGED <<strategy, targets, pc, task, answer, attempts, winner>>
    PROVE  /\ TablesInv' /\ \A r \in Requests : RequestInv(r)' /\ Stays(r)
           /\ \A p : CallsTo(p)' = CallsTo(p)
<1>1. \A r \in Requests : Stays(r)
  BY DEF Stays
<1>2. \A r \in Requests : RequestInv(r)'
  BY <1>1, StaysKeeps DEF RouterInv
<1> QED
  BY <1>1, <1>2 DEF RouterInv, TablesInv, CallsTo

LEMMA ClockMoves ==
    ASSUME RouterInv, NEW p \in Providers, Cool(p) \/ Refill(p)
    PROVE  RouterInv' /\ UNCHANGED targets /\ \A r \in Requests : Stays(r)
<1>1. /\ TablesInv' /\ \A r \in Requests : RequestInv(r)' /\ Stays(r)
      /\ \A o : CallsTo(o)' = CallsTo(o)
  BY RequestsStay DEF Cool, Refill
<1>2. UNCHANGED targets
  BY DEF Cool, Refill
<1>3. CASE Cool(p)
  <2>1. ProvidersInv' /\ UNCHANGED tokens /\ UNCHANGED refills
    BY <1>3 DEF Cool, RouterInv, ProvidersInv
  <2>2. TokensInv'
    BY <1>1, <2>1, TokensStay DEF RouterInv
  <2> QED
    BY <1>1, <1>2, <2>1, <2>2 DEF RouterInv
<1>4. CASE Refill(p)
  <2>1. /\ tokens' = [tokens EXCEPT ![p] = @ + 1] /\ refills' = [refills EXCEPT ![p] = @ + 1]
        /\ tokens[p] < Burst /\ Burst \in Nat /\ ProvidersInv /\ TokensInv
        /\ circuit' = circuit /\ failures' = failures /\ cooled' = cooled
    BY <1>4, RouterAssumption DEF Refill, RouterInv
  <2>2. ProvidersInv'
    BY <2>1 DEF ProvidersInv
  <2>3. ASSUME NEW o \in Providers
        PROVE  /\ IsFiniteSet(CallsTo(o)')
               /\ Limited => tokens'[o] + Cardinality(CallsTo(o)') = Burst + refills'[o]
    <3>1. IsFiniteSet(CallsTo(o)) /\ (Limited => tokens[o] + Cardinality(CallsTo(o)) = Burst + refills[o])
      BY <2>1 DEF TokensInv
    <3>2. tokens'[o] - tokens[o] = refills'[o] - refills[o] /\ tokens[o] \in Int /\ tokens'[o] \in Int
          /\ refills[o] \in Int /\ refills'[o] \in Int
      BY <2>1, <2>2 DEF ProvidersInv
    <3>3. CallsTo(o)' = CallsTo(o) /\ Cardinality(CallsTo(o)) \in Nat
      BY <1>1, <3>1, FS_CardinalityType
    <3> QED
      BY <2>1, <3>1, <3>2, <3>3
  <2>4. TokensInv'
    BY <2>3 DEF TokensInv
  <2> QED
    BY <1>1, <1>2, <2>2, <2>4 DEF RouterInv
<1> QED
  BY <1>3, <1>4

\* What a step of the router's own does to the requests.
LEMMA ProceedKeeps ==
    ASSUME RouterInv, Proceed
    PROVE  /\ RouterInv' /\ UNCHANGED targets
           /\ \A r \in Requests : pc[r] \notin Busy => Stays(r)
<1>1. CASE \E p \in Providers : Cool(p) \/ Refill(p)
  BY <1>1, ClockMoves
<1>2. ASSUME NEW q \in Requests,
             \/ Collect(q) \/ Settle(q) \/ Return(q) \/ Cancel(q) \/ Abort(q)
             \/ \E i \in DOMAIN task[q] :
                   Try(q, i) \/ AnswerOk(q, i) \/ AnswerError(q, i) \/ Drain(q, i)
      PROVE  RouterInv' /\ Alone(q) /\ pc[q] \in Busy /\ UNCHANGED targets
  BY <1>2, RequestMoves, TaskMoves
<1> QED
  BY <1>1, <1>2 DEF Proceed, Alone

LEMMA RejectMoves ==
    ASSUME NEW q \in Requests, RouterInv, Reject(q)
    PROVE  RouterInv' /\ Alone(q) /\ UNCHANGED targets
<1>1. UNCHANGED shared /\ UNCHANGED targets
  BY DEF Reject
<1>2. Alone(q) /\ TablesInv' /\ RequestInv(q)' /\ \A p : CallsTo(p)' = CallsTo(p)
  BY RejectKeeps
<1>3. ProvidersInv' /\ TokensInv'
  BY <1>1, <1>2, TokensStay DEF RouterInv, ProvidersInv, shared
<1> QED
  BY <1>1, <1>2, <1>3, StepKeeps

LEMMA RunMoves ==
    ASSUME NEW q \in Requests, RouterInv, NEW s \in Strategies, NEW list \in TargetLists,
           Run(q, s, list)
    PROVE  RouterInv' /\ Alone(q) /\ pc'[q] = "running"
<1>1. UNCHANGED shared
  BY DEF Run
<1>2. /\ Alone(q) /\ TablesInv' /\ RequestInv(q)' /\ \A p : CallsTo(p)' = CallsTo(p)
      /\ pc'[q] = "running"
  BY RunKeeps
<1>3. ProvidersInv' /\ TokensInv'
  BY <1>1, <1>2, TokensStay DEF RouterInv, ProvidersInv, shared
<1> QED
  BY <1>1, <1>2, <1>3, StepKeeps

LEMMA RouterStarts ==
    ASSUME Init
    PROVE  RouterInv
<1>1. ProvidersInv /\ TablesInv
  BY RouterAssumption, EmptySeq DEF Init, ProvidersInv, TablesInv, PCs
<1>2. ASSUME NEW q \in Requests
      PROVE  RequestInv(q)
  <2>1. /\ pc[q] = "idle" /\ strategy[q] = "none" /\ targets[q] = <<>> /\ task[q] = <<>>
        /\ answer[q] = <<>> /\ attempts[q] = <<>> /\ winner[q] = 0
    BY DEF Init
  <2>2. Positions(q) = {} /\ EndedOf(q) = {} /\ Len(attempts[q]) = 0 /\ DOMAIN attempts[q] = {}
    BY <2>1, EmptySeq DEF Positions, EndedOf
  <2>3. task[q] \in [Positions(q) -> TaskStates] /\ answer[q] \in [Positions(q) -> Answers \cup {NoAnswer}]
    BY <2>1, <2>2
  <2>4. attempts[q] \in Seq(Entries(q)) /\ targets[q] \in Seq(Providers)
    BY <2>1, EmptySeq
  <2>5. RequestTypes(q)
    BY <2>1, <2>3, <2>4 DEF RequestTypes
  <2>6. Phase(q) /\ Result(q)
    BY <2>1, <2>2 DEF Phase, Result, Busy, Errors
  <2>7. Paced(q)
    BY <2>1, <2>2, EmptySeq, RouterAssumption DEF Paced
  <2>8. Accounts(q)
    BY <2>2, FS_EmptySet DEF Accounts
  <2> QED
    BY <2>5, <2>6, <2>7, <2>8 DEF RequestInv
<1>3. TokensInv
  <2>1. ASSUME NEW p \in Providers
        PROVE  /\ IsFiniteSet(CallsTo(p))
               /\ Limited => tokens[p] + Cardinality(CallsTo(p)) = Burst + refills[p]
    <3>1. \A q \in Requests : DOMAIN task[q] = {}
      BY DEF Init
    <3>2. CallsTo(p) = {}
      BY <3>1 DEF CallsTo
    <3>3. tokens[p] = Burst /\ refills[p] = 0 /\ Burst \in Nat
      BY RouterAssumption DEF Init
    <3> QED
      BY <3>2, <3>3, FS_EmptySet
  <2> QED
    BY <2>1 DEF TokensInv
<1> QED
  BY <1>1, <1>2, <1>3 DEF RouterInv

\* Requests that have returned without the cache have had targets to try.
Begun == \A q \in Requests : pc[q] = "returned" => targets[q] # <<>>

LEMMA RouterSteps ==
    ASSUME RouterInv, Begun, [Next]_vars
    PROVE  RouterInv' /\ Begun'
<1>1. CASE Proceed
  <2>1. /\ RouterInv' /\ UNCHANGED targets
        /\ \A r \in Requests : pc[r] \notin Busy => Stays(r)
    BY <1>1, ProceedKeeps
  <2>2. \A r \in Requests : pc[r] \in Busy => targets[r] # <<>>
    BY DEF RouterInv, RequestInv, Phase
  <2> QED
    BY <2>1, <2>2 DEF Begun, Stays
<1>2. ASSUME NEW q \in Requests, Begin(q)
      PROVE  RouterInv' /\ Begun'
  <2>1. RouterInv' /\ Alone(q) /\ pc'[q] = "running"
    BY <1>2, RunMoves DEF Begin
  <2> QED
    BY <2>1 DEF Begun, Alone, Stays
<1>3. ASSUME NEW q \in Requests, Reject(q)
      PROVE  RouterInv' /\ Begun'
  <2>1. RouterInv' /\ Alone(q)
    BY <1>3, RejectMoves
  <2>2. pc'[q] # "returned"
    BY <1>3 DEF Reject, RouterInv, TablesInv
  <2> QED
    BY <2>1, <2>2 DEF Begun, Alone, Stays
<1>4. CASE UNCHANGED vars
  <2>1. UNCHANGED shared /\ UNCHANGED <<strategy, targets, pc, task, answer, attempts, winner>>
    BY <1>4 DEF vars
  <2>2. /\ TablesInv' /\ \A r \in Requests : RequestInv(r)' /\ Stays(r)
        /\ \A p : CallsTo(p)' = CallsTo(p)
    BY <2>1, RequestsStay
  <2>3. ProvidersInv' /\ TokensInv'
    BY <2>1, <2>2, TokensStay DEF RouterInv, ProvidersInv, shared
  <2> QED
    BY <2>1, <2>2, <2>3 DEF RouterInv, Begun
<1> QED
  BY <1>1, <1>2, <1>3, <1>4 DEF Next

-----------------------------------------------------------------------------
(* What the invariant says of the router                                   *)

LEMMA IsSequence ==
    ASSUME NEW S, NEW n \in Nat, NEW f \in [1..n -> S]
    PROVE  f \in Seq(S)
BY SeqDef

LEMMA InvTypes ==
    ASSUME RouterInv
    PROVE  TypeOK
<1>1. ASSUME NEW q \in Requests
      PROVE  /\ winner[q] \in {0} \cup DOMAIN task[q]
             /\ task[q] \in Seq({"waiting", "calling", "skipped", "failed", "won",
                                 "cancelling", "cancelled", "dropped"})
             /\ answer[q] \in Seq(Answers \cup {NoAnswer})
             /\ attempts[q] \in Seq([target : DOMAIN task[q],
                                     status : {"skipped", "failure", "success"}])
  <2>1. RequestTypes(q)
    BY DEF RouterInv, RequestInv
  <2>2. Positions(q) = 1..Len(targets[q]) /\ Len(targets[q]) \in Nat /\ DOMAIN task[q] = Positions(q)
    BY <2>1, LenProperties DEF RequestTypes, Positions
  <2>3. task[q] \in Seq(TaskStates) /\ answer[q] \in Seq(Answers \cup {NoAnswer})
    BY <2>1, <2>2, IsSequence DEF RequestTypes
  <2>4. TaskStates = {"waiting", "calling", "skipped", "failed", "won",
                      "cancelling", "cancelled", "dropped"}
    BY DEF TaskStates, Ended, Lost, Flying
  <2> QED
    BY <2>1, <2>2, <2>3, <2>4 DEF RequestTypes, Entries
<1>2. pc \in [Requests -> Busy \cup Errors \cup {"idle", "returned", "cancelled", "rejected"}]
  BY DEF RouterInv, TablesInv, PCs
<1> QED
  BY <1>1, <1>2 DEF TypeOK, RouterInv, ProvidersInv, TablesInv

LEMMA InvCalls ==
    ASSUME RouterInv
    PROVE  NoCallOutlivesItsRequest
<1> SUFFICES ASSUME NEW q \in Requests
             PROVE  LET inFlight == {i \in DOMAIN task[q] : task[q][i] \in {"calling", "cancelling"}}
                    IN  /\ pc[q] \notin Busy => inFlight = {}
                        /\ Cardinality(inFlight) <= (IF Sequential(q) THEN 1 ELSE Fanout)
  BY DEF NoCallOutlivesItsRequest
<1> DEFINE inFlight == {i \in DOMAIN task[q] : task[q][i] \in {"calling", "cancelling"}}
<1>1. RequestTypes(q) /\ Phase(q) /\ Paced(q)
  BY DEF RouterInv, RequestInv
<1>2. Positions(q) = 1..Len(targets[q]) /\ Len(targets[q]) \in Nat /\ DOMAIN task[q] = Positions(q)
  BY <1>1, LenProperties DEF RequestTypes, Positions
<1>3. pc[q] \notin Busy => inFlight = {}
  BY <1>1, <1>2 DEF Phase, Flying
<1>4. CASE Sequential(q)
  <2>1. ASSUME NEW i \in inFlight, NEW j \in inFlight
        PROVE  ~(i < j)
    <3>1. SUFFICES ASSUME i < j PROVE FALSE
      OBVIOUS
    <3>2. i \in 1..(j - 1) /\ j \in Positions(q)
      BY <1>2, <2>1, <3>1
    <3>3. task[q][i] \in Lost
      BY <1>1, <1>4, <2>1, <3>2 DEF Paced
    <3> QED
      BY <2>1, <3>3 DEF Lost
  <2>2. inFlight = {} \/ \E i \in inFlight : inFlight = {i}
    <3>1. ASSUME NEW i \in inFlight, NEW j \in inFlight
          PROVE  i = j
      BY <1>2, <2>1
    <3> QED
      BY <3>1
  <2> HIDE DEF inFlight
  <2>3. Cardinality(inFlight) <= 1
    BY <2>2, FS_EmptySet, FS_Singleton
  <2> QED
    BY <1>3, <1>4, <2>3 DEF inFlight
<1>5. CASE ~Sequential(q)
  <2>1. inFlight \subseteq 1..Len(targets[q])
    BY <1>2
  <2> HIDE DEF inFlight
  <2>2. IsFiniteSet(1..Len(targets[q])) /\ Cardinality(1..Len(targets[q])) = Len(targets[q])
    BY <1>2, FS_Interval
  <2>3. Cardinality(inFlight) <= Len(targets[q]) /\ Cardinality(inFlight) \in Nat
    BY <2>1, <2>2, FS_Subset, FS_CardinalityType
  <2>4. Len(targets[q]) <= Fanout /\ Fanout \in Nat
    BY <1>1, <1>5, RouterAssumption DEF Paced
  <2>5. Cardinality(inFlight) <= Fanout
    BY <1>2, <2>3, <2>4
  <2> QED
    BY <1>3, <1>5, <2>5 DEF inFlight
<1> QED
  BY <1>4, <1>5

LEMMA InvAccounts ==
    ASSUME RouterInv
    PROVE  AttemptsAccount
<1>1. ASSUME NEW q \in Requests
      PROVE  /\ {attempts[q][k].target : k \in DOMAIN attempts[q]} = EndedOf(q)
             /\ Len(attempts[q]) = Cardinality(EndedOf(q))
             /\ \A k \in DOMAIN attempts[q] :
                   attempts[q][k].status = "success" <=> task[q][attempts[q][k].target] = "won"
  <2>1. RequestTypes(q) /\ Accounts(q)
    BY DEF RouterInv, RequestInv
  <2>2. \A k \in DOMAIN attempts[q] : attempts[q][k].target \in EndedOf(q)
    BY <2>1, TargetOfEntry DEF Accounts, EndedOf
  <2>3. \A k \in DOMAIN attempts[q] :
            attempts[q][k].status = "success" <=> task[q][attempts[q][k].target] = "won"
    BY <2>1 DEF Accounts, Statuses, Ended, Lost
  <2> QED
    BY <2>1, <2>2, <2>3 DEF Accounts
<1>2. \A q \in Requests :
          EndedOf(q) = {i \in DOMAIN task[q] : task[q][i] \in {"skipped", "failed", "won"}}
  BY DEF RouterInv, RequestInv, RequestTypes, EndedOf, Ended, Lost
<1> QED
  BY <1>1, <1>2 DEF AttemptsAccount

LEMMA InvErrors ==
    ASSUME RouterInv
    PROVE  ErrorsAreHonest
<1> SUFFICES ASSUME NEW q \in Requests, pc[q] \in Errors
             PROVE  /\ Won(q) = {}
                    /\ pc[q] = "unavailable" => \A i \in DOMAIN task[q] : task[q][i] = "skipped"
                    /\ pc[q] = "provider_failed" => \E i \in DOMAIN task[q] : task[q][i] = "failed"
  BY DEF ErrorsAreHonest, Errors
<1>1. RequestTypes(q) /\ Accounts(q) /\ Over(q) /\ Won(q) = {} /\ pc[q] = ErrorKind(attempts[q])
  BY DEF RouterInv, RequestInv, Result
<1>2. DOMAIN task[q] = Positions(q)
  BY <1>1 DEF RequestTypes
<1>3. \A k \in DOMAIN attempts[q] :
          /\ attempts[q][k].target \in DOMAIN task[q]
          /\ attempts[q][k].status = "failure" <=> task[q][attempts[q][k].target] = "failed"
  <2>1. \A k \in DOMAIN attempts[q] : attempts[q][k].target \in DOMAIN task[q]
    BY <1>1, <1>2, TargetOfEntry
  <2>2. \A k \in DOMAIN attempts[q] :
            attempts[q][k].status = "failure" <=> task[q][attempts[q][k].target] = "failed"
    BY <1>1 DEF Accounts, Statuses, Ended, Lost
  <2> QED
    BY <2>1, <2>2
<1>4. \A i \in DOMAIN task[q] : task[q][i] \in Lost
  BY <1>1 DEF Over, Won, Lost
<1>5. \A i \in DOMAIN task[q] : \E k \in DOMAIN attempts[q] : attempts[q][k].target = i
  BY <1>1, <1>2, <1>4 DEF Accounts, EndedOf, Ended
<1> QED
  BY <1>1, <1>3, <1>4, <1>5 DEF ErrorKind, Lost

LEMMA InvConsistent ==
    ASSUME RouterInv
    PROVE  Consistent
<1>1. OneTokenPerCall
  BY DEF RouterInv, TokensInv, OneTokenPerCall
<1> QED
  BY <1>1, InvTypes, InvCalls, InvAccounts DEF Consistent

(***************************************************************************)
(* For any requests, providers and target lists: no call of a provider     *)
(* outlives its request, a sequential strategy has one at a time and a     *)
(* parallel one no more than its fanout, every target that was tried to    *)
(* its end is entered once, and every call has cost its provider's bucket  *)
(* exactly one token.                                                      *)
(***************************************************************************)
THEOREM RouterIsConsistent == Spec => []Consistent
<1>1. Init => RouterInv /\ Begun
  BY RouterStarts DEF Init, Begun
<1>2. RouterInv /\ Begun /\ [Next]_vars => RouterInv' /\ Begun'
  BY RouterSteps
<1>3. RouterInv => Consistent
  BY InvConsistent
<1> QED
  BY <1>1, <1>2, <1>3, PTL DEF Spec

(***************************************************************************)
(* The code that a caller gets from the router's error tells what          *)
(* happened: no candidate was lost, 503 only when nobody was asked, and a  *)
(* provider failure only when some provider failed.                        *)
(***************************************************************************)
THEOREM RouterErrors == Spec => []ErrorsAreHonest
<1>1. Init => RouterInv /\ Begun
  BY RouterStarts DEF Init, Begun
<1>2. RouterInv /\ Begun /\ [Next]_vars => RouterInv' /\ Begun'
  BY RouterSteps
<1>3. RouterInv => ErrorsAreHonest
  BY InvErrors
<1> QED
  BY <1>1, <1>2, <1>3, PTL DEF Spec

(***************************************************************************)
(* Whatever order answers, failures and refusals come in, the candidate    *)
(* that is returned is the one that the strategy promises: the first in    *)
(* order, the first to answer, one that nobody outvotes, or one that       *)
(* nobody is surer than.                                                   *)
(***************************************************************************)
THEOREM RouterWinners == Spec => []WinnerByStrategy
<1>1. Init => RouterInv /\ Begun
  BY RouterStarts DEF Init, Begun
<1>2. RouterInv /\ Begun /\ [Next]_vars => RouterInv' /\ Begun'
  BY RouterSteps
<1>3. RouterInv /\ Begun => WinnerByStrategy
  BY DEF RouterInv, RequestInv, Result, Begun, WinnerByStrategy
<1> QED
  BY <1>1, <1>2, <1>3, PTL DEF Spec

-----------------------------------------------------------------------------
(* The service and its cache                                               *)

LEMMA OriginalStays ==
    ASSUME NEW s, RouterInv, Original(s), Stays(s), source'[s] = source[s]
    PROVE  Original(s)'
<1>1. RequestInv(s)
  BY DEF Original, RouterInv
<1> QED
  BY <1>1, StaysKeeps DEF Original, Stays

LEMMA ServiceStarts ==
    ASSUME ServiceInit
    PROVE  RouterInv /\ ServiceInv
<1>1. RouterInv
  BY RouterStarts DEF ServiceInit
<1>2. ServiceInv
  <2>1. /\ \A q \in Requests : asked[q] = NoAsk /\ pc[q] = "idle"
        /\ DOMAIN asked = Requests /\ DOMAIN source = Requests
        /\ DOMAIN cache = {Key(a) : a \in Asks} /\ \A k \in DOMAIN cache : cache[k] = Nobody
    BY DEF ServiceInit, Init
  <2> QED
    BY <2>1 DEF ServiceInv, Busy
<1> QED
  BY <1>1, <1>2

\* A request that is answered from the cache ends with no target of its own.
LEMMA HitKeeps ==
    ASSUME NEW q \in Requests, RouterInv, Hit(q)
    PROVE  RouterInv' /\ Alone(q)
<1>1. /\ pc[q] = "idle" /\ pc' = [pc EXCEPT ![q] = "returned"]
      /\ strategy' = strategy /\ targets' = targets /\ task' = task
      /\ answer' = answer /\ attempts' = attempts /\ winner' = winner
  BY DEF Hit
<1>2. UNCHANGED shared /\ RequestTypes(q) /\ Phase(q) /\ Accounts(q) /\ TablesInv
  BY DEF Hit, RouterInv, RequestInv
<1>3. "returned" \in PCs /\ winner[q] \in {0} \cup Positions(q) /\ DOMAIN winner = Requests
  BY <1>2 DEF PCs, RequestTypes, TablesInv
<1>4. /\ Alone(q) /\ TablesInv' /\ pc'[q] = "returned"
      /\ RequestTypes(q)' /\ Paced(q)' /\ Accounts(q)' /\ Positions(q)' = Positions(q)
      /\ \A p : CallsTo(p)' = CallsTo(p)
  BY <1>1, <1>3, OnlyEnds
<1>5. targets[q] = <<>> /\ Positions(q) = {}
  BY <1>1, <1>2, IdleIsEmpty DEF Phase
<1>6. Phase(q)' /\ Result(q)'
  BY <1>1, <1>4, <1>5 DEF Phase, Result, Busy, Errors
<1>7. ProvidersInv' /\ TokensInv'
  BY <1>2, <1>4, TokensStay DEF RouterInv, ProvidersInv, shared
<1> QED
  BY <1>4, <1>6, <1>7, StepKeeps DEF RequestInv

\* A step of an idle request that leaves the cache alone.
LEMMA IdleStep ==
    ASSUME NEW q \in Requests, RouterInv, ServiceInv, pc[q] = "idle", Alone(q), UNCHANGED cache,
           DOMAIN asked' = Requests, DOMAIN source' = Requests,
           \A r \in Requests \ {q} : asked'[r] = asked[r] /\ source'[r] = source[r],
           asked'[q] = NoAsk \/ asked'[q] \in Asks,
           pc'[q] \in Busy \cup {"returned"} => asked'[q] \in Asks,
           pc'[q] = "returned" => Original(source'[q]) /\ Key(asked[source'[q]]) = Key(asked'[q])
    PROVE  ServiceInv'
<1>1. ASSUME NEW s, Original(s)
      PROVE  Original(s)' /\ s \in Requests \ {q} /\ asked'[s] = asked[s]
  <2>1. s \in Requests \ {q}
    BY <1>1 DEF Original
  <2> QED
    BY <1>1, <2>1, OriginalStays DEF Alone
<1>2. ASSUME NEW k \in DOMAIN cache, NEW s, s = cache[k], s # Nobody
      PROVE  Original(s)' /\ Key(asked'[s]) = k
  <2>1. Original(s) /\ Key(asked[s]) = k
    BY <1>2 DEF ServiceInv
  <2> QED
    BY <1>1, <2>1
<1>3. ASSUME NEW r \in Requests, pc'[r] = "returned", NEW s, s = source'[r]
      PROVE  Original(s)' /\ Key(asked'[s]) = Key(asked'[r])
  <2>1. CASE r = q
    <3>1. Original(s) /\ Key(asked[s]) = Key(asked'[r])
      BY <1>3, <2>1
    <3> QED
      BY <1>1, <3>1
  <2>2. CASE r # q
    <3>1. pc[r] = "returned" /\ source'[r] = source[r] /\ asked'[r] = asked[r]
      BY <1>3, <2>2 DEF Alone, Stays
    <3>2. Original(s) /\ Key(asked[s]) = Key(asked[r])
      BY <1>3, <3>1 DEF ServiceInv
    <3> QED
      BY <1>1, <3>1, <3>2
  <2> QED
    BY <2>1, <2>2
<1>4. ASSUME NEW r \in Requests
      PROVE  /\ asked'[r] = NoAsk \/ asked'[r] \in Asks
             /\ pc'[r] \in Busy \cup {"returned"} => asked'[r] \in Asks
  <2>1. CASE r # q
    BY <2>1 DEF Alone, Stays, ServiceInv
  <2> QED
    BY <2>1
<1> QED
  BY <1>2, <1>3, <1>4 DEF ServiceInv, Original

LEMMA RouteKeeps ==
    ASSUME RouterInv, ServiceInv, Route
    PROVE  RouterInv' /\ ServiceInv'
<1>1. /\ RouterInv' /\ targets' = targets /\ asked' = asked
      /\ \A r \in Requests : pc[r] \notin Busy => Stays(r)
  BY ProceedKeeps DEF Route
<1>2. /\ source' = [q \in Requests |-> IF q \in Answered THEN q ELSE source[q]]
      /\ cache' = [k \in DOMAIN cache |->
            IF \E q \in Answered : Key(asked[q]) = k
            THEN CHOOSE q \in Answered : Key(asked[q]) = k ELSE cache[k]]
  BY DEF Route
<1>3. ASSUME NEW q \in Answered
      PROVE  Original(q)'
  <2>1. q \in Requests /\ pc[q] \in Busy /\ pc'[q] = "returned"
    BY DEF Answered
  <2>2. targets'[q] # <<>>
    BY <1>1, <2>1 DEF RouterInv, RequestInv, Phase
  <2>3. Promised(q)'
    BY <1>1, <2>1, <2>2 DEF RouterInv, RequestInv, Result
  <2> QED
    BY <1>2, <2>1, <2>3 DEF Original, Promised
<1>4. ASSUME NEW s, Original(s)
      PROVE  Original(s)'
  <2>1. s \in Requests /\ pc[s] = "returned" /\ s \notin Answered
    BY <1>4 DEF Original, Answered, Busy
  <2>2. Stays(s) /\ source'[s] = source[s]
    BY <1>1, <1>2, <2>1 DEF Busy
  <2> QED
    BY <1>4, <2>2, OriginalStays
<1>5. ASSUME NEW k \in DOMAIN cache, NEW s, s = cache'[k], s # Nobody
      PROVE  Original(s)' /\ Key(asked'[s]) = k
  <2>1. CASE \E q \in Answered : Key(asked[q]) = k
    <3>1. s \in Answered /\ Key(asked[s]) = k
      BY <1>2, <1>5, <2>1
    <3> QED
      BY <1>1, <1>3, <3>1
  <2>2. CASE ~\E q \in Answered : Key(asked[q]) = k
    <3>1. s = cache[k]
      BY <1>2, <1>5, <2>2
    <3>2. Original(s) /\ Key(asked[s]) = k
      BY <1>5, <3>1 DEF ServiceInv
    <3> QED
      BY <1>1, <1>4, <3>2
  <2> QED
    BY <2>1, <2>2
<1>6. ASSUME NEW q \in Requests, pc'[q] = "returned", NEW s, s = source'[q]
      PROVE  Original(s)' /\ Key(asked'[s]) = Key(asked'[q])
  <2>1. CASE q \in Answered
    <3>1. s = q
      BY <1>2, <1>6, <2>1
    <3> QED
      BY <1>3, <2>1, <3>1
  <2>2. CASE q \notin Answered
    <3>1. Stays(q) /\ source'[q] = source[q]
      BY <1>1, <1>2, <1>6, <2>2 DEF Answered
    <3>2. Original(s) /\ Key(asked[s]) = Key(asked[q])
      BY <1>6, <3>1 DEF Stays, ServiceInv
    <3> QED
      BY <1>1, <1>4, <3>2
  <2> QED
    BY <2>1, <2>2
<1>7. DOMAIN asked' = Requests /\ DOMAIN source' = Requests /\ DOMAIN cache' = DOMAIN cache
  BY <1>1, <1>2 DEF ServiceInv
<1>8. ASSUME NEW q \in Requests
      PROVE  /\ asked'[q] = NoAsk \/ asked'[q] \in Asks
             /\ pc'[q] \in Busy \cup {"returned"} => asked'[q] \in Asks
  <2>1. CASE pc[q] \in Busy
    BY <1>1, <2>1 DEF ServiceInv
  <2>2. CASE pc[q] \notin Busy
    <3>1. pc'[q] = pc[q]
      BY <1>1, <2>2 DEF Stays
    <3> QED
      BY <1>1, <3>1 DEF ServiceInv
  <2> QED
    BY <2>1, <2>2
<1> QED
  BY <1>1, <1>5, <1>6, <1>7, <1>8 DEF ServiceInv, Original

LEMMA ServiceSteps ==
    ASSUME RouterInv, ServiceInv, [ServiceNext]_serviceVars
    PROVE  RouterInv' /\ ServiceInv'
<1>1. DOMAIN asked = Requests /\ DOMAIN source = Requests
  BY DEF ServiceInv
<1>2. ASSUME NEW q \in Requests, Invalid(q)
      PROVE  RouterInv' /\ ServiceInv'
  <2>1. RouterInv' /\ Alone(q)
    BY <1>2, RejectMoves DEF Invalid
  <2>2. /\ pc[q] = "idle" /\ pc'[q] = "rejected" /\ cache' = cache
        /\ asked' = asked /\ source' = source
    BY <1>2 DEF Invalid, Reject, RouterInv, TablesInv
  <2>3. asked'[q] = NoAsk \/ asked'[q] \in Asks
    BY <2>2 DEF ServiceInv
  <2> QED
    BY <1>1, <2>1, <2>2, <2>3, IdleStep DEF Busy
<1>3. ASSUME NEW q \in Requests, Hit(q)
      PROVE  RouterInv' /\ ServiceInv'
  <2>1. RouterInv' /\ Alone(q) /\ pc[q] = "idle" /\ cache' = cache
    BY <1>3, HitKeeps DEF Hit
  <2>2. PICK a \in Asks : /\ cache[Key(a)] # Nobody
                          /\ asked' = [asked EXCEPT ![q] = a]
                          /\ source' = [source EXCEPT ![q] = cache[Key(a)]]
    BY <1>3 DEF Hit
  <2>3. /\ asked'[q] = a /\ source'[q] = cache[Key(a)]
        /\ DOMAIN asked' = Requests /\ DOMAIN source' = Requests
        /\ \A r \in Requests \ {q} : asked'[r] = asked[r] /\ source'[r] = source[r]
    BY <1>1, <2>2
  <2>4. Original(cache[Key(a)]) /\ Key(asked[cache[Key(a)]]) = Key(a)
    <3>1. Key(a) \in DOMAIN cache
      BY DEF ServiceInv
    <3> QED
      BY <2>2, <3>1 DEF ServiceInv
  <2> QED
    BY <2>1, <2>3, <2>4, IdleStep
<1>4. ASSUME NEW q \in Requests, Miss(q)
      PROVE  RouterInv' /\ ServiceInv'
  <2>1. PICK a \in Asks : /\ Run(q, a.strategy, Resolve(a))
                          /\ asked' = [asked EXCEPT ![q] = a]
                          /\ cache' = cache /\ source' = source
    BY <1>4 DEF Miss
  <2>2. a.strategy \in Strategies /\ Resolve(a) \in TargetLists
    BY AsksAssumption
  <2>3. RouterInv' /\ Alone(q) /\ pc'[q] = "running" /\ pc[q] = "idle"
    BY <2>1, <2>2, RunMoves DEF Run
  <2>4. /\ DOMAIN asked' = Requests /\ DOMAIN source' = Requests /\ asked'[q] = a
        /\ \A r \in Requests \ {q} : asked'[r] = asked[r] /\ source'[r] = source[r]
    BY <1>1, <2>1
  <2> QED
    BY <2>1, <2>3, <2>4, IdleStep
<1>6. ASSUME NEW q \in Requests, Overlong(q)
      PROVE  RouterInv' /\ ServiceInv'
  <2>1. PICK a \in Asks : asked' = [asked EXCEPT ![q] = a]
    BY <1>6 DEF Overlong
  <2>2. RouterInv' /\ Alone(q)
    BY <1>6, RejectMoves DEF Overlong
  <2>3. /\ pc[q] = "idle" /\ pc'[q] = "rejected"
        /\ cache' = cache /\ source' = source
    BY <1>6 DEF Overlong, Reject, RouterInv, TablesInv
  <2>4. /\ DOMAIN asked' = Requests /\ asked'[q] = a
        /\ \A r \in Requests \ {q} : asked'[r] = asked[r] /\ source'[r] = source[r]
    BY <1>1, <2>1, <2>3
  <2> QED
    BY <1>1, <2>2, <2>3, <2>4, IdleStep DEF Busy
<1>5. CASE UNCHANGED serviceVars
  <2>1. /\ UNCHANGED shared /\ UNCHANGED <<strategy, targets, pc, task, answer, attempts, winner>>
        /\ asked' = asked /\ cache' = cache /\ source' = source
    BY <1>5 DEF serviceVars, vars
  <2>2. /\ TablesInv' /\ \A r \in Requests : RequestInv(r)' /\ Stays(r)
        /\ \A p : CallsTo(p)' = CallsTo(p)
    BY <2>1, RequestsStay
  <2>3. ProvidersInv' /\ TokensInv'
    BY <2>1, <2>2, TokensStay DEF RouterInv, ProvidersInv, shared
  <2>4. \A s : Original(s) => Original(s)'
    BY <2>1, <2>2, OriginalStays DEF Original
  <2>5. ServiceInv'
    BY <2>1, <2>4 DEF ServiceInv
  <2> QED
    BY <2>2, <2>3, <2>5 DEF RouterInv
<1> QED
  BY <1>2, <1>3, <1>4, <1>5, <1>6, RouteKeeps DEF ServiceNext

\* Two that ask with one key ask the same, but for who names the default model.
LEMMA SharedKey ==
    ASSUME NEW c \in Asks, NEW d \in Asks, Key(c) = Key(d)
    PROVE  /\ c.prompt = d.prompt /\ c.strategy = d.strategy
           /\ c = d \/ (c.list = d.list /\ {c.model, d.model} = {Unnamed, DefaultModel})
           /\ Resolve(c) = Resolve(d) \/ Confused(c, d)
<1> DEFINE named(e) == IF e.model = Unnamed THEN DefaultModel ELSE e.model
           Shape == [prompt : Prompts, strategy : Strategies,
                     model : Providers \cup {Unnamed}, list : Seq(Providers)]
<1>1. c \in Shape /\ d \in Shape /\ DefaultModel # Unnamed
  BY AsksAssumption
<1>2. /\ c.prompt = d.prompt /\ c.strategy = d.strategy /\ c.list = d.list
      /\ named(c) = named(d)
  <2>1. \A e \in Shape : /\ Key(e).prompt = e.prompt /\ Key(e).strategy = e.strategy
                          /\ Key(e).list = e.list /\ Key(e).model = named(e)
    BY DEF Key
  <2> HIDE DEF Shape, named
  <2> QED
    BY <1>1, <2>1
<1>3. c.model = d.model \/ {c.model, d.model} = {Unnamed, DefaultModel}
  BY <1>2
<1>4. c.model = d.model => c = d
  BY <1>1, <1>2
<1>5. c.list # <<>> => Resolve(c) = Resolve(d)
  BY <1>2 DEF Resolve
<1> QED
  BY <1>2, <1>3, <1>4, <1>5 DEF Confused

LEMMA InvResponses ==
    ASSUME RouterInv, ServiceInv
    PROVE  OwnResponses
<1> SUFFICES ASSUME NEW q \in Requests, NEW s, s = source[q]
             PROVE  /\ Told(q) = "response" =>
                          /\ s \in Requests
                          /\ asked[s].prompt = asked[q].prompt
                          /\ asked[s].strategy = asked[q].strategy
                          /\ Resolve(asked[s]) = Resolve(asked[q]) \/ Confused(asked[s], asked[q])
                          /\ winner[s] \in Won(s)
                    /\ Told(q) \in {"NO_PROVIDER_AVAILABLE", "VALIDATION_ERROR"} =>
                          \A i \in DOMAIN task[q] : task[q][i] = "skipped"
  BY DEF OwnResponses
<1>1. CASE pc[q] = "returned"
  <2>1. Original(s) /\ Key(asked[s]) = Key(asked[q]) /\ asked[q] \in Asks
    BY <1>1 DEF ServiceInv
  <2>2. s \in Requests /\ winner[s] \in Won(s) /\ asked[s] \in Asks
    BY <2>1 DEF Original, ServiceInv
  <2>3. Told(q) = "response"
    BY <1>1 DEF Told
  <2> QED
    BY <2>1, <2>2, <2>3, SharedKey
<1>2. CASE pc[q] = "unavailable"
  BY <1>2, InvErrors DEF Told, ErrorsAreHonest
<1>3. CASE pc[q] = "rejected"
  <2>1. DOMAIN task[q] = {}
    BY <1>3, IdleIsEmpty DEF RouterInv, RequestInv, Phase
  <2> QED
    BY <1>3, <2>1 DEF Told
<1>4. CASE pc[q] \notin {"returned", "unavailable", "rejected"}
  BY <1>4 DEF Told
<1> QED
  BY <1>1, <1>2, <1>3, <1>4

(***************************************************************************)
(* Whoever is answered, from the cache or not, gets a response that was    *)
(* made for the same prompt and strategy by a request that really won it   *)
(* and tried the same targets, unless one of the two names the default     *)
(* model and the other none (_cache_key, service.py:179); and an item of a *)
(* batch that is said to have found no provider, or to be invalid, has had *)
(* none work for it.                                                       *)
(***************************************************************************)
THEOREM ServiceResponses == ServiceSpec => []OwnResponses
<1>1. ServiceInit => RouterInv /\ ServiceInv
  BY ServiceStarts
<1>2. RouterInv /\ ServiceInv /\ [ServiceNext]_serviceVars => RouterInv' /\ ServiceInv'
  BY ServiceSteps
<1>3. RouterInv /\ ServiceInv => OwnResponses
  BY InvResponses
<1> QED
  BY <1>1, <1>2, <1>3, PTL DEF ServiceSpec

(***************************************************************************)
(* Behind the cache too the router's calls, entries and tokens agree, and  *)
(* its errors are honest.                                                  *)
(***************************************************************************)
THEOREM ServiceIsConsistent == ServiceSpec => []Consistent /\ []ErrorsAreHonest
<1>1. ServiceInit => RouterInv /\ ServiceInv
  BY ServiceStarts
<1>2. RouterInv /\ ServiceInv /\ [ServiceNext]_serviceVars => RouterInv' /\ ServiceInv'
  BY ServiceSteps
<1>3. RouterInv => Consistent /\ ErrorsAreHonest
  BY InvConsistent, InvErrors
<1> QED
  BY <1>1, <1>2, <1>3, PTL DEF ServiceSpec
=============================================================================
