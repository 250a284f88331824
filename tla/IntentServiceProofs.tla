------------------------ MODULE IntentServiceProofs ------------------------
(***************************************************************************)
(* Proofs about the intent service, for any number of threads, and any     *)
(* jobs that clients ask for: every item is answered for itself and harms  *)
(* no other, and a request runs the model a bounded number of times.       *)
(***************************************************************************)
EXTENDS IntentService, WellFoundedInduction, TLAPS

Batched == {"choose", "ask_all", "run_all"}
Waiting == {"ask", "run"} \cup Batched
PCs == Ends \cup {"lookup", "store"} \cup Waiting

\* An answer for the text of an item, and for its profile unless its key is mixed up.
Suits(answer, item) ==
    /\ answer \in Answers
    /\ answer.text = item.text
    /\ answer.profile = item.profile \/ Key(item) \in mixed

Fits(answer, item) == IF item.text = "blank" THEN answer = Invalid ELSE Suits(answer, item)

Positions(t) == DOMAIN job[t].items
HasIts(t, k) == Fits(answers[t][k], job[t].items[k])

\* Answered with the others that were missed, for the profile of the first of them.
HasFirsts(t, k) ==
    /\ answers[t][k] \in Answers
    /\ answers[t][k].text = job[t].items[k].text
    /\ answers[t][k].profile = First(t).profile

TablesInv ==
    /\ pc \in [Threads -> PCs]
    /\ job \in [Threads -> Jobs \cup {NoJob}]
    /\ DOMAIN answers = Threads
    /\ at \in [Threads -> Nat]
    /\ missed \in [Threads -> SUBSET Nat]

CacheInv ==
    /\ cached \in [Keys -> Answers \cup {Missing}]
    /\ \A key \in Keys : cached[key] # Missing => Suits(cached[key], key)

\* What was missed is answered from its first item to its last, and then stored.
UnderWay(t) ==
    /\ job[t] \in Jobs
    /\ answers[t] \in [Positions(t) -> Answers \cup {Missing, Invalid}]
    /\ missed[t] \in SUBSET Positions(t)
    /\ \A k \in missed[t] : job[t].items[k].text \in Texts
    /\ pc[t] # "done" => at[t] \in Positions(t)
    /\ pc[t] = "lookup" => \A k \in Positions(t) : k < at[t] => k \in missed[t] \/ HasIts(t, k)
    /\ pc[t] \in Waiting =>
          /\ at[t] \in missed[t]
          /\ \A k \in Positions(t) :
                HasIts(t, k) \/ (k \in missed[t] /\ (k < at[t] => HasFirsts(t, k)))
    /\ pc[t] \in Batched => at[t] = LowestOf(missed[t])
    /\ pc[t] = "store" =>
          /\ at[t] \in missed[t]
          /\ \A k \in Positions(t) :
                HasIts(t, k) \/ (k \in missed[t] /\ k >= at[t] /\ HasFirsts(t, k))
    /\ pc[t] = "done" => \A k \in Positions(t) : HasIts(t, k)

ThreadInv(t) ==
    /\ pc[t] \in Ends => missed[t] = {}
    /\ pc[t] \notin Ends \ {"done"} => UnderWay(t)
    /\ pc[t] = "rejected" /\ job[t].batch => \E k \in Positions(t) : job[t].items[k].text = "foreign"

AnswersInv == TablesInv /\ CacheInv /\ \A t \in Threads : ThreadInv(t)

\* A thread's step leaves the others alone.
Alone(t) ==
    \A u \in Threads \ {t} :
        /\ pc'[u] = pc[u] /\ job'[u] = job[u] /\ answers'[u] = answers[u]
        /\ at'[u] = at[u] /\ missed'[u] = missed[u]

-----------------------------------------------------------------------------
LEMMA JobItems ==
    ASSUME NEW j \in Jobs
    PROVE  /\ j.items \in Seq(Items) /\ Len(j.items) \in Nat \ {0}
           /\ DOMAIN j.items = 1..Len(j.items)
           /\ \A k \in DOMAIN j.items : j.items[k] \in Items
           /\ j.batch \in BOOLEAN
BY IntentAssumption

LEMMA LowestIsLowest ==
    ASSUME NEW S \in SUBSET Nat, S # {}
    PROVE  LowestOf(S) \in S /\ \A k \in S : LowestOf(S) <= k
<1> DEFINE R == OpToRel(<, Nat)
<1>1. R = {p \in Nat \X Nat : p[1] < p[2]}
  BY DEF OpToRel
<1>2. IsWellFoundedOn(R, Nat)
  BY NatLessThanWellFounded
<1>3. \E k \in S : \A l \in S : <<l, k>> \notin R
  <2> HIDE DEF R
  <2> QED
    BY <1>2, WFMin
<1>4. ASSUME NEW k \in S, NEW l \in S, <<l, k>> \notin R
      PROVE  k <= l
  <2>1. <<l, k>> \in Nat \X Nat /\ <<l, k>>[1] = l /\ <<l, k>>[2] = k
    OBVIOUS
  <2>2. ~(l < k)
    BY <1>1, <1>4, <2>1
  <2> QED
    BY <2>2
<1>5. \E k \in S : \A l \in S : k <= l
  BY <1>3, <1>4
<1> QED
  BY <1>5 DEF LowestOf

\* What an answer suits it goes on to suit.
LEMMA OthersKeep ==
    ASSUME NEW t \in Threads, AnswersInv, Alone(t), mixed \subseteq mixed', NEW u \in Threads \ {t}
    PROVE  ThreadInv(u)'
<1>1. ThreadInv(u)
  BY DEF AnswersInv
<1>2. /\ pc'[u] = pc[u] /\ job'[u] = job[u] /\ answers'[u] = answers[u]
      /\ at'[u] = at[u] /\ missed'[u] = missed[u]
  BY DEF Alone
<1>3. \A k : HasIts(u, k) => HasIts(u, k)'
  BY <1>2 DEF HasIts, Fits, Suits, Key
<1>4. \A k : HasFirsts(u, k) => HasFirsts(u, k)'
  BY <1>2 DEF HasFirsts, First
<1>5. Positions(u)' = Positions(u)
  BY <1>2 DEF Positions
<1>6. UnderWay(u) => UnderWay(u)'
  BY <1>2, <1>3, <1>4, <1>5 DEF UnderWay
<1> QED
  BY <1>1, <1>2, <1>5, <1>6 DEF ThreadInv

\* What is left to show of a step of thread t.
LEMMA StepKeeps ==
    ASSUME NEW t \in Threads, AnswersInv, Alone(t), mixed \subseteq mixed',
           TablesInv', CacheInv', ThreadInv(t)'
    PROVE  AnswersInv'
BY OthersKeep DEF AnswersInv

LEMMA CacheStays ==
    ASSUME CacheInv, UNCHANGED cached, mixed \subseteq mixed'
    PROVE  CacheInv'
BY DEF CacheInv, Suits, Key

LEMMA KeyOfItem ==
    ASSUME NEW item \in Items, item.text \in Texts
    PROVE  /\ Key(item) \in Keys /\ Key(Key(item)) = Key(item)
           /\ Key(item).text = item.text /\ Key(item).profile = item.profile
           /\ \A answer : Suits(answer, Key(item)) <=> Suits(answer, item)
           /\ \A answer : Fits(answer, item) <=> Suits(answer, item)
<1>1. item.text # "blank" /\ item.profile \in Profiles
  BY IntentAssumption DEF Items
<1>2. Key(item) \in Keys /\ Key(Key(item)) = Key(item)
  BY <1>1 DEF Key, Keys
<1> QED
  BY <1>1, <1>2 DEF Suits, Fits, Key

LEMMA ItemOfThread ==
    ASSUME NEW t \in Threads, AnswersInv, pc[t] \notin Ends
    PROVE  /\ UnderWay(t) /\ job[t] \in Jobs /\ Item(t) \in Items
           /\ at[t] \in Positions(t) /\ missed[t] \in SUBSET Positions(t)
           /\ Positions(t) = 1..Len(job[t].items) /\ Len(job[t].items) \in Nat
           /\ Positions(t) \subseteq Nat /\ \A k \in Positions(t) : job[t].items[k] \in Items
<1>1. UnderWay(t)
  BY DEF AnswersInv, ThreadInv, Ends
<1>2. job[t] \in Jobs /\ at[t] \in Positions(t) /\ missed[t] \in SUBSET Positions(t)
  BY <1>1 DEF UnderWay, Ends
<1> QED
  BY <1>1, <1>2, JobItems DEF Item, Positions
-----------------------------------------------------------------------------
LEMMA StartKeeps ==
    ASSUME NEW t \in Threads, AnswersInv, Start(t)
    PROVE  AnswersInv'
<1>1. PICK j \in Jobs :
          /\ job' = [job EXCEPT ![t] = j]
          /\ answers' = [answers EXCEPT ![t] = [k \in DOMAIN j.items |-> Missing]]
  BY DEF Start
<1>2. /\ pc' = [pc EXCEPT ![t] = "lookup"] /\ at' = [at EXCEPT ![t] = 1]
      /\ UNCHANGED <<cached, missed, mixed>>
  BY DEF Start, Go, guard
<1>3. TablesInv' /\ Alone(t)
  BY <1>1, <1>2 DEF AnswersInv, TablesInv, Alone, PCs
<1>4. missed[t] = {}
  BY DEF AnswersInv, ThreadInv, Start
<1>5. ThreadInv(t)'
  BY <1>1, <1>2, <1>4, JobItems
  DEF AnswersInv, TablesInv, ThreadInv, UnderWay, Positions, Waiting, Batched, Ends
<1> QED
  BY <1>2, <1>3, <1>5, CacheStays, StepKeeps DEF AnswersInv

(* The next item is looked up, or those that were missed are asked for.    *)
LEMMA LookOnKeeps ==
    ASSUME NEW t \in Threads, AnswersInv, pc[t] = "lookup",
           NEW misses \in SUBSET Positions(t), LookOn(t, misses),
           \A k \in misses : job[t].items[k].text \in Texts,
           UNCHANGED <<cached, mixed, job>>,
           DOMAIN answers' = Threads, \A u \in Threads \ {t} : answers'[u] = answers[u],
           answers'[t] \in [Positions(t) -> Answers \cup {Missing, Invalid}],
           \A k \in Positions(t) : k <= at[t] => k \in misses \/ HasIts(t, k)'
    PROVE  AnswersInv'
<1>1. /\ job[t] \in Jobs /\ at[t] \in Positions(t)
      /\ Positions(t) = 1..Len(job[t].items) /\ Len(job[t].items) \in Nat
      /\ misses \in SUBSET Nat
  BY ItemOfThread DEF Ends
<1>2. Positions(t)' = Positions(t)
  BY DEF Positions
<1>3. CASE End(t, "done") /\ misses = {} /\ at[t] = Len(job[t].items)
  <2>1. TablesInv' /\ Alone(t) /\ pc'[t] = "done" /\ missed'[t] = {}
    BY <1>1, <1>3 DEF End, Go, AnswersInv, TablesInv, Alone, PCs, Ends
  <2>2. \A k \in Positions(t) : k <= at[t]
    BY <1>1, <1>3
  <2>3. UnderWay(t)'
    BY <1>1, <1>2, <1>3, <2>1, <2>2 DEF UnderWay, Waiting, Batched
  <2> QED
    BY <2>1, <2>3, CacheStays, StepKeeps DEF AnswersInv, ThreadInv
<1>4. CASE /\ at[t] < Len(job[t].items)
           /\ Go(t, "lookup", at[t] + 1) /\ missed' = [missed EXCEPT ![t] = misses]
  <2>1. TablesInv' /\ Alone(t) /\ pc'[t] = "lookup" /\ at'[t] = at[t] + 1 /\ missed'[t] = misses
    BY <1>1, <1>4 DEF Go, AnswersInv, TablesInv, Alone, PCs
  <2>2. at[t] + 1 \in Positions(t) /\ \A k \in Positions(t) : k < at[t] + 1 => k <= at[t]
    BY <1>1, <1>4
  <2>3. UnderWay(t)'
    BY <1>1, <1>2, <2>1, <2>2 DEF UnderWay, Waiting, Batched
  <2> QED
    BY <2>1, <2>3, CacheStays, StepKeeps DEF AnswersInv, ThreadInv, Ends
<1>5. ASSUME misses # {}, ~(at[t] < Len(job[t].items)), NEW step \in {"choose", "ask"},
             Go(t, step, LowestOf(misses)), missed' = [missed EXCEPT ![t] = misses]
      PROVE  AnswersInv'
  <2>1. LowestOf(misses) \in misses /\ \A k \in misses : LowestOf(misses) <= k
    BY <1>1, <1>5, LowestIsLowest
  <2>2. /\ TablesInv' /\ Alone(t) /\ pc'[t] = step /\ at'[t] = LowestOf(misses)
        /\ missed'[t] = misses
    BY <1>1, <1>5, <2>1 DEF Go, AnswersInv, TablesInv, Alone, PCs, Waiting, Batched
  <2>3. \A k \in Positions(t) : k <= at[t]
    BY <1>1, <1>5
  <2>4. \A k \in misses : ~(k < LowestOf(misses))
    <3>1. \A k \in misses : k \in Nat
      BY <1>1
    <3>2. LowestOf(misses) \in Nat
      BY <2>1, <3>1
    <3> QED
      BY <2>1, <3>1, <3>2
  <2>5. UnderWay(t)'
    BY <1>1, <1>2, <1>5, <2>1, <2>2, <2>3, <2>4 DEF UnderWay, Waiting, Batched
  <2> QED
    BY <1>5, <2>2, <2>5, CacheStays, StepKeeps DEF AnswersInv, ThreadInv, Ends
<1>6. CASE /\ missed' = [missed EXCEPT ![t] = misses]
           /\ ~(at[t] < Len(job[t].items)) /\ misses # {}
           /\ Go(t, IF job[t].batch THEN "choose" ELSE "ask", LowestOf(misses))
  BY <1>5, <1>6
<1>7. at[t] <= Len(job[t].items) /\ at[t] \in Nat
  BY <1>1
<1> QED
  BY <1>1, <1>3, <1>4, <1>6, <1>7 DEF LookOn

\* The item that is looked up has been found, or need not be.
LEMMA FoundKeeps ==
    ASSUME NEW t \in Threads, AnswersInv, pc[t] = "lookup", NEW answer,
           answer \in Answers \cup {Invalid}, Fits(answer, Item(t)),
           Give(t, at[t], answer), LookOn(t, missed[t]), UNCHANGED <<cached, mixed, job>>
    PROVE  AnswersInv'
<1>1. /\ at[t] \in Positions(t) /\ missed[t] \in SUBSET Positions(t)
      /\ answers[t] \in [Positions(t) -> Answers \cup {Missing, Invalid}]
      /\ \A k \in missed[t] : job[t].items[k].text \in Texts
      /\ \A k \in Positions(t) : k < at[t] => k \in missed[t] \/ HasIts(t, k)
      /\ Positions(t) \subseteq Nat
  BY ItemOfThread DEF UnderWay, Ends
<1>2. answers' = [answers EXCEPT ![t][at[t]] = answer]
  BY DEF Give
<1>3. answers'[t] = [answers[t] EXCEPT ![at[t]] = answer]
  BY <1>2 DEF AnswersInv, TablesInv
<1>4. answers'[t] \in [Positions(t) -> Answers \cup {Missing, Invalid}]
  BY <1>1, <1>3
<1>5. \A k \in Positions(t) : k = at[t] => HasIts(t, k)'
  BY <1>1, <1>3 DEF HasIts, Fits, Suits, Key, Item
<1>6. \A k \in Positions(t) : k < at[t] => k \in missed[t] \/ HasIts(t, k)'
  BY <1>1, <1>3 DEF HasIts, Fits, Suits, Key
<1>7. \A k \in Positions(t) : k <= at[t] => k \in missed[t] \/ HasIts(t, k)'
  BY <1>1, <1>5, <1>6
<1>8. DOMAIN answers' = Threads /\ \A u \in Threads \ {t} : answers'[u] = answers[u]
  BY <1>2 DEF AnswersInv, TablesInv
<1> QED
  BY <1>1, <1>4, <1>7, <1>8, LookOnKeeps

LEMMA HitKeeps ==
    ASSUME NEW t \in Threads, AnswersInv, Hit(t)
    PROVE  AnswersInv'
<1> DEFINE found == cached[Key(Item(t))]
<1>1. /\ pc[t] = "lookup" /\ Item(t).text \in Texts /\ found # Missing
      /\ Give(t, at[t], found) /\ LookOn(t, missed[t]) /\ UNCHANGED <<cached, mixed, job>>
  BY DEF Hit, guard
<1>2. Item(t) \in Items
  BY <1>1, ItemOfThread DEF Ends
<1>3. Suits(found, Key(Item(t))) /\ found \in Answers
  BY <1>1, <1>2, KeyOfItem DEF AnswersInv, CacheInv
<1>4. Fits(found, Item(t))
  BY <1>1, <1>2, <1>3, KeyOfItem
<1> QED
  BY <1>1, <1>3, <1>4, FoundKeeps

LEMMA MissKeeps ==
    ASSUME NEW t \in Threads, AnswersInv, Miss(t)
    PROVE  AnswersInv'
<1> DEFINE misses == missed[t] \cup {at[t]}
<1>1. /\ pc[t] = "lookup" /\ LookOn(t, misses) /\ Item(t).text \in Texts
      /\ UNCHANGED <<cached, mixed, job, answers>>
  BY DEF Miss, guard
<1>2. /\ at[t] \in Positions(t) /\ missed[t] \in SUBSET Positions(t)
      /\ answers[t] \in [Positions(t) -> Answers \cup {Missing, Invalid}]
      /\ \A k \in missed[t] : job[t].items[k].text \in Texts
      /\ \A k \in Positions(t) : k < at[t] => k \in missed[t] \/ HasIts(t, k)
      /\ Positions(t) \subseteq Nat
  BY <1>1, ItemOfThread DEF UnderWay, Ends
<1>3. \A k \in Positions(t) : k <= at[t] => k \in misses \/ HasIts(t, k)
  BY <1>2
<1>4. \A k : HasIts(t, k)' <=> HasIts(t, k)
  BY <1>1 DEF HasIts, Fits, Suits, Key
<1>5. misses \in SUBSET Positions(t) /\ DOMAIN answers' = Threads
  BY <1>1, <1>2 DEF AnswersInv, TablesInv
<1>6. \A k \in misses : job[t].items[k].text \in Texts
  BY <1>1, <1>2 DEF Item
<1> HIDE DEF misses
<1> QED
  BY <1>1, <1>2, <1>3, <1>4, <1>5, <1>6, LookOnKeeps

LEMMA RaiseKeeps ==
    ASSUME NEW t \in Threads, AnswersInv, NEW how \in {"rejected", "failed"}, Raise(t, how),
           UNCHANGED <<cached, mixed, job>>,
           how = "rejected" /\ job[t].batch => \E k \in Positions(t) : job[t].items[k].text = "foreign"
    PROVE  AnswersInv'
<1>1. TablesInv' /\ Alone(t) /\ pc'[t] = how /\ missed'[t] = {}
  BY DEF Raise, End, Go, AnswersInv, TablesInv, Alone, PCs, Ends
<1>2. ThreadInv(t)'
  BY <1>1 DEF ThreadInv, Positions, Ends
<1> QED
  BY <1>1, <1>2, CacheStays, StepKeeps DEF AnswersInv

LEMMA RefusedKeep ==
    ASSUME NEW t \in Threads, AnswersInv, Blank(t) \/ Foreign(t) \/ Pushed(t)
    PROVE  AnswersInv'
<1>1. UNCHANGED <<cached, mixed, job>>
  BY DEF Blank, Foreign, Pushed, guard
<1>2. CASE Blank(t) /\ job[t].batch
  <2>1. /\ pc[t] = "lookup" /\ Item(t).text = "blank"
        /\ Give(t, at[t], Invalid) /\ LookOn(t, missed[t])
    BY <1>2 DEF Blank
  <2>2. Fits(Invalid, Item(t))
    BY <2>1 DEF Fits
  <2> QED
    BY <1>1, <2>1, <2>2, FoundKeeps
<1>3. CASE Blank(t) /\ ~job[t].batch
  <2>1. Raise(t, "rejected")
    BY <1>3 DEF Blank
  <2> QED
    BY <1>1, <1>3, <2>1, RaiseKeeps
<1>4. CASE Foreign(t)
  <2>1. pc[t] = "lookup" /\ Item(t).text = "foreign" /\ Raise(t, "rejected")
    BY <1>4 DEF Foreign
  <2>2. \E k \in Positions(t) : job[t].items[k].text = "foreign"
    BY <2>1, ItemOfThread DEF Item, Ends
  <2> QED
    BY <1>1, <2>1, <2>2, RaiseKeeps
<1>5. CASE Pushed(t)
  <2>1. Raise(t, "failed")
    BY <1>5 DEF Pushed
  <2> QED
    BY <1>1, <2>1, RaiseKeeps
<1> QED
  BY <1>2, <1>3, <1>4, <1>5
-----------------------------------------------------------------------------
(* What was missed is answered, item by item or as a whole.                *)

\* What is known of a thread that waits for the model, or stores.
LEMMA MissedOfThread ==
    ASSUME NEW t \in Threads, AnswersInv, pc[t] \in Waiting \cup {"store"}
    PROVE  /\ at[t] \in missed[t] /\ missed[t] \in SUBSET Nat
           /\ answers[t] \in [Positions(t) -> Answers \cup {Missing, Invalid}]
           /\ Item(t).text \in Texts /\ First(t).profile \in Profiles
           /\ \A k \in missed[t] : job[t].items[k].text \in Texts
           /\ LowestOf(missed[t]) \in missed[t] /\ \A k \in missed[t] : LowestOf(missed[t]) <= k
<1>1. /\ UnderWay(t) /\ missed[t] \in SUBSET Positions(t) /\ Positions(t) \subseteq Nat
      /\ \A k \in Positions(t) : job[t].items[k] \in Items
  BY ItemOfThread DEF Ends, Waiting, Batched
<1>2. /\ at[t] \in missed[t] /\ missed[t] \in SUBSET Nat
      /\ \A k \in missed[t] : job[t].items[k].text \in Texts
      /\ answers[t] \in [Positions(t) -> Answers \cup {Missing, Invalid}]
  BY <1>1 DEF UnderWay
<1>3. LowestOf(missed[t]) \in missed[t] /\ \A k \in missed[t] : LowestOf(missed[t]) <= k
  BY <1>2, LowestIsLowest
<1>4. First(t) \in Items
  BY <1>1, <1>3 DEF First
<1> QED
  BY <1>2, <1>3, <1>4 DEF Item, Items

LEMMA MoveKeeps ==
    ASSUME NEW t \in Threads, AnswersInv, pc[t] \in Waiting, NEW step \in Waiting,
           step \in Batched => pc[t] \in Batched, Go(t, step, at[t]),
           UNCHANGED <<cached, mixed, job, answers, missed>>
    PROVE  AnswersInv'
<1>1. UnderWay(t)
  BY ItemOfThread DEF Waiting, Batched, Ends
<1>2. TablesInv' /\ Alone(t) /\ pc'[t] = step /\ at'[t] = at[t]
  BY DEF Go, AnswersInv, TablesInv, Alone, PCs
<1>3. \A k : (HasIts(t, k)' <=> HasIts(t, k)) /\ (HasFirsts(t, k)' <=> HasFirsts(t, k))
  BY DEF HasIts, Fits, Suits, Key, HasFirsts, First
<1>4. Positions(t)' = Positions(t)
  BY DEF Positions
<1>5. UnderWay(t)'
  <2>1. step \notin {"lookup", "store", "done"}
    BY DEF Waiting, Batched
  <2> QED
    BY <1>1, <1>2, <1>3, <1>4, <2>1 DEF UnderWay
<1> QED
  BY <1>2, <1>5, CacheStays, StepKeeps DEF AnswersInv, ThreadInv, Ends, Waiting, Batched

LEMMA ClassifiedKeeps ==
    ASSUME NEW t \in Threads, AnswersInv, pc[t] \in {"ask", "run"}, NEW who \in Backends,
           Classified(t, who), UNCHANGED <<cached, mixed, job>>
    PROVE  AnswersInv'
<1> DEFINE answer == Computed(Item(t), First(t).profile, who)
<1>1. /\ at[t] \in missed[t] /\ missed[t] \in SUBSET Nat /\ missed[t] \in SUBSET Positions(t)
      /\ answers[t] \in [Positions(t) -> Answers \cup {Missing, Invalid}]
      /\ Item(t).text \in Texts /\ First(t).profile \in Profiles
      /\ LowestOf(missed[t]) \in missed[t] /\ \A k \in missed[t] : LowestOf(missed[t]) <= k
      /\ UnderWay(t) /\ Positions(t) \subseteq Nat
  BY MissedOfThread, ItemOfThread DEF Waiting, Ends
<1>2. \A k \in Positions(t) :
         HasIts(t, k) \/ (k \in missed[t] /\ (k < at[t] => HasFirsts(t, k)))
  BY <1>1 DEF UnderWay, Waiting
<1>3. answer \in Answers /\ answer.text = Item(t).text /\ answer.profile = First(t).profile
  BY <1>1 DEF Computed, Answers
<1>4. /\ answers' = [answers EXCEPT ![t][at[t]] = answer] /\ UNCHANGED missed
      /\ \/ After(t) = {} /\ Go(t, "store", LowestOf(missed[t]))
         \/ After(t) # {} /\ Go(t, "ask", LowestOf(After(t)))
  BY DEF Classified, Give
<1> HIDE DEF answer
<1>5. /\ answers'[t] = [answers[t] EXCEPT ![at[t]] = answer]
      /\ DOMAIN answers' = Threads /\ \A u \in Threads \ {t} : answers'[u] = answers[u]
  BY <1>4 DEF AnswersInv, TablesInv
<1>6. answers'[t] \in [Positions(t) -> Answers \cup {Missing, Invalid}]
  BY <1>1, <1>3, <1>5
<1>7. /\ \A k \in Positions(t) \ {at[t]} : HasIts(t, k) => HasIts(t, k)'
      /\ \A k \in Positions(t) \ {at[t]} : HasFirsts(t, k) => HasFirsts(t, k)'
  BY <1>1, <1>4, <1>5 DEF HasIts, Fits, Suits, Key, HasFirsts, First
<1>8. \A k \in Positions(t) : k = at[t] => HasFirsts(t, k)'
  BY <1>1, <1>3, <1>4, <1>5 DEF HasFirsts, First, Item
<1>9. \A k \in Positions(t) :
         HasIts(t, k)' \/ (k \in missed[t] /\ (k <= at[t] => HasFirsts(t, k)'))
  <2> SUFFICES ASSUME NEW k \in Positions(t)
               PROVE  HasIts(t, k)' \/ (k \in missed[t] /\ (k <= at[t] => HasFirsts(t, k)'))
    OBVIOUS
  <2>1. CASE k = at[t]
    BY <1>1, <1>8, <2>1
  <2>2. CASE k # at[t]
    BY <1>1, <1>2, <1>7, <2>2
  <2> QED
    BY <2>1, <2>2
<1>10. Positions(t)' = Positions(t)
  BY DEF Positions
<1>11. CASE After(t) = {} /\ Go(t, "store", LowestOf(missed[t]))
  <2>1. /\ TablesInv' /\ Alone(t) /\ pc'[t] = "store" /\ at'[t] = LowestOf(missed[t])
        /\ missed'[t] = missed[t]
    BY <1>1, <1>4, <1>5, <1>11 DEF Go, AnswersInv, TablesInv, Alone, PCs
  <2>2. \A k \in missed[t] : k <= at[t]
    BY <1>1, <1>11 DEF After
  <2>3. \A k \in Positions(t) :
           HasIts(t, k)' \/ (k \in missed[t] /\ k >= LowestOf(missed[t]) /\ HasFirsts(t, k)')
    BY <1>1, <1>9, <2>2
  <2>4. UnderWay(t)'
    BY <1>1, <1>4, <1>6, <1>10, <2>1, <2>3 DEF UnderWay, Waiting, Batched
  <2> QED
    BY <2>1, <2>4, CacheStays, StepKeeps DEF AnswersInv, ThreadInv, Ends
<1>12. CASE After(t) # {} /\ Go(t, "ask", LowestOf(After(t)))
  <2>1. /\ LowestOf(After(t)) \in After(t) /\ \A k \in After(t) : LowestOf(After(t)) <= k
        /\ After(t) \in SUBSET missed[t] /\ After(t) \in SUBSET Nat
    BY <1>1, <1>12, LowestIsLowest DEF After
  <2>2. /\ TablesInv' /\ Alone(t) /\ pc'[t] = "ask" /\ at'[t] = LowestOf(After(t))
        /\ missed'[t] = missed[t]
    BY <1>1, <1>4, <1>5, <1>12, <2>1 DEF Go, AnswersInv, TablesInv, Alone, PCs, Waiting
  <2>3. \A k \in missed[t] : k < LowestOf(After(t)) => k <= at[t]
    BY <1>1, <2>1 DEF After
  <2>4. \A k \in Positions(t) :
           HasIts(t, k)' \/ (k \in missed[t] /\ (k < LowestOf(After(t)) => HasFirsts(t, k)'))
    BY <1>9, <2>3
  <2>5. UnderWay(t)'
    BY <1>1, <1>4, <1>6, <1>10, <2>1, <2>2, <2>4 DEF UnderWay, Waiting, Batched
  <2> QED
    BY <2>2, <2>5, CacheStays, StepKeeps DEF AnswersInv, ThreadInv, Ends
<1> QED
  BY <1>4, <1>11, <1>12

LEMMA AllAnsweredKeeps ==
    ASSUME NEW t \in Threads, AnswersInv, AllAnswered(t)
    PROVE  AnswersInv'
<1> DEFINE answer(k) == Computed(job[t].items[k], First(t).profile, "model")
<1>1. /\ pc[t] = "run_all" /\ Go(t, "store", at[t]) /\ UNCHANGED <<cached, mixed, job, missed>>
      /\ answers' = [answers EXCEPT ![t] = [k \in DOMAIN answers[t] |->
            IF k \in missed[t] THEN answer(k) ELSE answers[t][k]]]
  BY DEF AllAnswered
<1>2. /\ at[t] \in missed[t] /\ missed[t] \in SUBSET Nat /\ missed[t] \in SUBSET Positions(t)
      /\ answers[t] \in [Positions(t) -> Answers \cup {Missing, Invalid}]
      /\ First(t).profile \in Profiles
      /\ \A k \in missed[t] : job[t].items[k].text \in Texts
      /\ \A k \in missed[t] : LowestOf(missed[t]) <= k
      /\ UnderWay(t)
  BY <1>1, MissedOfThread, ItemOfThread DEF Waiting, Batched, Ends
<1>3. /\ at[t] = LowestOf(missed[t])
      /\ \A k \in Positions(t) : HasIts(t, k) \/ k \in missed[t]
  BY <1>1, <1>2 DEF UnderWay, Waiting, Batched
<1>4. \A k \in missed[t] :
         answer(k) \in Answers /\ answer(k).text = job[t].items[k].text
         /\ answer(k).profile = First(t).profile
  BY <1>2 DEF Computed, Answers, Backends
<1> HIDE DEF answer
<1>5. /\ answers'[t] = [k \in Positions(t) |-> IF k \in missed[t] THEN answer(k) ELSE answers[t][k]]
      /\ DOMAIN answers' = Threads /\ \A u \in Threads \ {t} : answers'[u] = answers[u]
  BY <1>1, <1>2 DEF AnswersInv, TablesInv
<1>6. answers'[t] \in [Positions(t) -> Answers \cup {Missing, Invalid}]
  BY <1>2, <1>4, <1>5
<1>7. \A k \in missed[t] : HasFirsts(t, k)'
  BY <1>1, <1>2, <1>4, <1>5 DEF HasFirsts, First
<1>8. \A k \in Positions(t) \ missed[t] : HasIts(t, k)'
  BY <1>1, <1>3, <1>5 DEF HasIts, Fits, Suits, Key
<1>9. /\ TablesInv' /\ Alone(t) /\ pc'[t] = "store" /\ at'[t] = at[t] /\ missed'[t] = missed[t]
      /\ Positions(t)' = Positions(t)
  BY <1>1, <1>5 DEF Go, AnswersInv, TablesInv, Alone, PCs, Positions
<1>10. \A k \in missed[t] : k >= at[t]
  BY <1>2, <1>3
<1>11. UnderWay(t)'
  BY <1>1, <1>2, <1>6, <1>7, <1>8, <1>9, <1>10 DEF UnderWay, Waiting, Batched
<1> QED
  BY <1>1, <1>9, <1>11, CacheStays, StepKeeps DEF AnswersInv, ThreadInv, Ends

LEMMA AskedKeep ==
    ASSUME NEW t \in Threads, AnswersInv,
           \/ Ask(t) \/ Answered(t) \/ Failed(t)
           \/ Choose(t) \/ AskAll(t) \/ AllAnswered(t) \/ AllFailed(t)
    PROVE  AnswersInv'
<1>1. UNCHANGED <<cached, mixed, job>>
  BY DEF Ask, Answered, Failed, Choose, AskAll, AllAnswered, AllFailed, guard
<1>2. CASE pc[t] \in {"ask", "run"} /\ \E who \in Backends : Classified(t, who)
  BY <1>1, <1>2, ClassifiedKeeps
<1>3. CASE Raise(t, "failed")
  BY <1>1, <1>3, RaiseKeeps
<1>4. ASSUME pc[t] \in Waiting, NEW step \in Waiting, step \in Batched => pc[t] \in Batched,
             Go(t, step, at[t]), UNCHANGED <<answers, missed>>
      PROVE  AnswersInv'
  BY <1>1, <1>4, MoveKeeps
<1>5. CASE Ask(t)
  <2>1. /\ pc[t] = "ask"
        /\ Run(t, "run") \/ Classified(t, "rules")
    BY <1>5 DEF Ask
  <2>2. CASE Run(t, "run")
    <3>1. Go(t, "run", at[t]) /\ UNCHANGED <<answers, missed>>
      BY <2>2 DEF Run
    <3> QED
      BY <1>4, <2>1, <3>1 DEF Waiting, Batched
  <2>3. CASE Classified(t, "rules")
    BY <1>2, <2>1, <2>3 DEF Backends
  <2> QED
    BY <2>1, <2>2, <2>3
<1>6. CASE Answered(t) \/ Failed(t)
  BY <1>2, <1>3, <1>6 DEF Answered, Failed, Backends
<1>7. CASE Choose(t)
  <2>1. /\ pc[t] = "choose" /\ UNCHANGED <<answers, missed>>
        /\ Go(t, "ask", at[t]) \/ Go(t, "ask_all", at[t])
    BY <1>7 DEF Choose
  <2> QED
    BY <1>4, <2>1 DEF Waiting, Batched
<1>8. CASE AskAll(t)
  BY <1>4, <1>8 DEF AskAll, Run, Waiting, Batched
<1>9. CASE AllFailed(t)
  BY <1>3, <1>4, <1>9 DEF AllFailed, Waiting, Batched
<1> QED
  BY <1>5, <1>6, <1>7, <1>8, <1>9, AllAnsweredKeeps
-----------------------------------------------------------------------------
(* The answers are stored, each under the key of its item.                 *)

LEMMA StoreKeeps ==
    ASSUME NEW t \in Threads, AnswersInv, Store(t)
    PROVE  AnswersInv'
<1> DEFINE item == Item(t)
           answer == answers[t][at[t]]
<1>1. /\ pc[t] = "store" /\ cached' = [cached EXCEPT ![Key(item)] = answer]
      /\ mixed' = IF First(t).profile # item.profile THEN mixed \cup {Key(item)} ELSE mixed
      /\ UNCHANGED <<job, answers>>
      /\ \/ After(t) = {} /\ End(t, "done")
         \/ After(t) # {} /\ Go(t, "store", LowestOf(After(t))) /\ UNCHANGED missed
  BY DEF Store, Put
<1>2. /\ UnderWay(t) /\ item \in Items /\ item.text \in Texts /\ item = job[t].items[at[t]]
      /\ at[t] \in missed[t] /\ missed[t] \in SUBSET Positions(t) /\ missed[t] \in SUBSET Nat
  BY <1>1, ItemOfThread, MissedOfThread DEF Ends, Item
<1>3. \A k \in Positions(t) :
         HasIts(t, k) \/ (k \in missed[t] /\ k >= at[t] /\ HasFirsts(t, k))
  BY <1>1, <1>2 DEF UnderWay
<1>4. /\ answer \in Answers /\ answer.text = item.text
      /\ answer.profile = item.profile \/ Key(item) \in mixed'
  <2>1. CASE HasIts(t, at[t])
    <3>1. Suits(answer, item)
      BY <1>2, <2>1, KeyOfItem DEF HasIts
    <3> QED
      BY <1>1, <3>1 DEF Suits
  <2>2. CASE HasFirsts(t, at[t])
    BY <1>1, <1>2, <2>2 DEF HasFirsts
  <2> QED
    BY <1>2, <1>3, <2>1, <2>2
<1>5. /\ Key(item) \in Keys /\ Key(Key(item)) = Key(item)
      /\ Key(item).text = item.text /\ Key(item).profile = item.profile
      /\ item.text # "blank"
  BY <1>2, KeyOfItem, IntentAssumption
<1>6. mixed \subseteq mixed' /\ Positions(t)' = Positions(t)
  BY <1>1 DEF Positions
<1>7. \A k \in Positions(t) : k = at[t] \/ HasIts(t, k) => HasIts(t, k)'
  <2>1. \A k \in Positions(t) : HasIts(t, k) => HasIts(t, k)'
    BY <1>1, <1>6 DEF HasIts, Fits, Suits, Key
  <2>2. \A k \in Positions(t) : k = at[t] => HasIts(t, k)'
    BY <1>1, <1>2, <1>4, <1>5 DEF HasIts, Fits, Suits, Key
  <2> QED
    BY <2>1, <2>2
<1> HIDE DEF item, answer
<1>8. CacheInv'
  <2>1. cached' \in [Keys -> Answers \cup {Missing}]
    BY <1>1, <1>4, <1>5 DEF AnswersInv, CacheInv
  <2>2. ASSUME NEW key \in Keys, cached'[key] # Missing
        PROVE  /\ cached'[key] \in Answers /\ cached'[key].text = key.text
               /\ cached'[key].profile = key.profile \/ Key(key) \in mixed'
    <3>1. CASE key = Key(item)
      BY <1>1, <1>4, <1>5, <3>1 DEF AnswersInv, CacheInv
    <3>2. CASE key # Key(item)
      <4>1. cached'[key] = cached[key]
        BY <1>1, <3>2 DEF AnswersInv, CacheInv
      <4> QED
        BY <1>6, <2>2, <4>1 DEF AnswersInv, CacheInv, Suits
    <3> QED
      BY <3>1, <3>2
  <2> QED
    BY <2>1, <2>2 DEF CacheInv, Suits, Key
<1>9. CASE After(t) = {} /\ End(t, "done")
  <2>1. TablesInv' /\ Alone(t) /\ pc'[t] = "done" /\ missed'[t] = {}
    BY <1>1, <1>9 DEF End, Go, AnswersInv, TablesInv, Alone, PCs, Ends
  <2>2. \A k \in missed[t] : k >= at[t] => k = at[t]
    BY <1>2, <1>9 DEF After
  <2>3. UnderWay(t)'
    BY <1>1, <1>2, <1>3, <1>6, <1>7, <2>1, <2>2 DEF UnderWay, Waiting, Batched
  <2> QED
    BY <1>1, <1>6, <1>8, <2>1, <2>3, StepKeeps DEF ThreadInv
<1>10. CASE After(t) # {} /\ Go(t, "store", LowestOf(After(t))) /\ UNCHANGED missed
  <2>1. /\ LowestOf(After(t)) \in After(t) /\ \A k \in After(t) : LowestOf(After(t)) <= k
        /\ After(t) \in SUBSET missed[t] /\ After(t) \in SUBSET Nat
    BY <1>2, <1>10, LowestIsLowest DEF After
  <2>2. /\ TablesInv' /\ Alone(t) /\ pc'[t] = "store" /\ at'[t] = LowestOf(After(t))
        /\ missed'[t] = missed[t]
    BY <1>1, <1>10, <2>1 DEF Go, AnswersInv, TablesInv, Alone, PCs
  <2>3. \A k \in missed[t] : k >= at[t] => k = at[t] \/ k >= LowestOf(After(t))
    BY <1>2, <2>1 DEF After
  <2>4. \A k : HasFirsts(t, k)' <=> HasFirsts(t, k)
    BY <1>1, <1>10 DEF HasFirsts, First
  <2>5. \A k \in Positions(t) : HasIts(t, k)'
           \/ (k \in missed[t] /\ k >= LowestOf(After(t)) /\ HasFirsts(t, k)')
    BY <1>3, <1>7, <2>3, <2>4
  <2>6. UnderWay(t)'
    BY <1>1, <1>2, <1>6, <2>1, <2>2, <2>5 DEF UnderWay, Waiting, Batched
  <2> QED
    BY <1>1, <1>6, <1>8, <2>2, <2>6, StepKeeps DEF ThreadInv, Ends
<1> QED
  BY <1>1, <1>9, <1>10

-----------------------------------------------------------------------------
LEMMA AnswersInit == Init => AnswersInv
<1> SUFFICES ASSUME Init
             PROVE  AnswersInv
  OBVIOUS
<1>1. TablesInv
  BY DEF Init, TablesInv, PCs, Ends
<1>2. CacheInv
  BY DEF Init, GuardInit, CacheInv
<1>3. \A t \in Threads : ThreadInv(t)
  BY DEF Init, ThreadInv, Ends
<1> QED
  BY <1>1, <1>2, <1>3 DEF AnswersInv

LEMMA AnswersStep == AnswersInv /\ [Next]_vars => AnswersInv'
<1> SUFFICES ASSUME AnswersInv, [Next]_vars
             PROVE  AnswersInv'
  OBVIOUS
<1>1. CASE Passes \/ UNCHANGED vars
  <2>1. UNCHANGED <<cached, mixed, pc, job, answers, at, missed>>
    BY <1>1 DEF Passes, Cool, vars, guard, threads
  <2>2. TablesInv' /\ CacheInv'
    BY <2>1, CacheStays DEF AnswersInv, TablesInv
  <2>3. ASSUME NEW t \in Threads
        PROVE  ThreadInv(t)'
    <3>1. \A k : (HasIts(t, k)' <=> HasIts(t, k)) /\ (HasFirsts(t, k)' <=> HasFirsts(t, k))
      BY <2>1 DEF HasIts, Fits, Suits, Key, HasFirsts, First
    <3>2. Positions(t)' = Positions(t)
      BY <2>1 DEF Positions
    <3>3. ThreadInv(t)
      BY DEF AnswersInv
    <3> QED
      BY <2>1, <3>1, <3>2, <3>3 DEF ThreadInv, UnderWay
  <2> QED
    BY <2>2, <2>3 DEF AnswersInv
<1>2. ASSUME NEW t \in Threads,
             \/ Start(t) \/ Hit(t) \/ Miss(t) \/ Store(t)
             \/ Blank(t) \/ Foreign(t) \/ Pushed(t)
      PROVE  AnswersInv'
  BY <1>2, StartKeeps, HitKeeps, MissKeeps, StoreKeeps, RefusedKeep
<1>3. ASSUME NEW t \in Threads,
             \/ Ask(t) \/ Answered(t) \/ Failed(t)
             \/ Choose(t) \/ AskAll(t) \/ AllAnswered(t) \/ AllFailed(t)
      PROVE  AnswersInv'
  BY <1>3, AskedKeep
<1> QED
  BY <1>1, <1>2, <1>3 DEF Next, Proceed

LEMMA AnswersSay == AnswersInv => AnswersArePerItem
<1> SUFFICES ASSUME AnswersInv
             PROVE  AnswersArePerItem
  OBVIOUS
<1>1. OwnAnswers
  <2>1. ASSUME NEW t \in Threads, pc[t] = "done"
        PROVE  \A k \in Positions(t) : HasIts(t, k)
    BY <2>1 DEF AnswersInv, ThreadInv, UnderWay, Ends
  <2> QED
    BY <2>1 DEF OwnAnswers, HasIts, Fits, Suits, Answers, Positions
<1>2. BlankItemsAreHarmless
  BY DEF BlankItemsAreHarmless, AnswersInv, ThreadInv, Positions
<1> QED
  BY <1>1, <1>2 DEF AnswersArePerItem

(* Every item is answered for its own text, and for its own profile unless *)
(* its key has been mixed up, in any place of any batch; and none but an   *)
(* item in a foreign language makes a batch fail.                          *)
THEOREM ItemsAreAnsweredApart == Spec => []AnswersArePerItem
BY AnswersInit, AnswersStep, AnswersSay, PTL DEF Spec

-----------------------------------------------------------------------------
(* The circuit, the answers in their places, and how often the model is    *)
(* run for one request.                                                    *)

Again(t) == IF job[t].batch THEN 1 ELSE 0

\* Item by item the model runs once for each, and once more for a batch as a whole.
RunsInv(t) ==
    /\ pc[t] \in Batched => job[t].batch
    /\ pc[t] \in Ends \cup {"lookup", "choose", "ask_all"} => runs[t] = 0
    /\ pc[t] = "run_all" => runs[t] = 1
    /\ pc[t] = "ask" => runs[t] < at[t] + Again(t)
    /\ pc[t] = "run" => runs[t] <= at[t] + Again(t)
    /\ pc[t] = "store" => runs[t] <= Len(job[t].items) + Again(t)

Filled(t) == answers[t] \in [Positions(t) -> Answers \cup {Missing, Invalid}]

SizesInv ==
    /\ GuardTypeOK
    /\ mixed \subseteq Keys
    /\ runs \in [Threads -> Nat]
    /\ \A t \in Threads : Filled(t) /\ RunsInv(t)

ServiceInv == AnswersInv /\ SizesInv

\* What is left of the type of the breaker when its clock is left out.
CircuitInv ==
    /\ circuit \in {"closed", "open", "half_open"}
    /\ failures \in 0..Threshold
    /\ circuit = "closed" <=> failures < Threshold

LEMMA GuardKeeps ==
    ASSUME GuardTypeOK, [Next]_vars
    PROVE  GuardTypeOK'
<1>1. CircuitInv /\ cooled \in BOOLEAN
  BY Zenon DEF GuardTypeOK, CircuitInv
<1>2. \/ UNCHANGED breaker \/ Allow \/ RecordSuccess \/ RecordFailure \/ Cool
  <2>1. ASSUME NEW t \in Threads, Start(t) \/ Proceed(t)
        PROVE  UNCHANGED breaker \/ Allow \/ RecordSuccess \/ RecordFailure
    BY <2>1 DEF Start, Proceed, Hit, Miss, Blank, Foreign, Pushed, Ask, Answered, Failed,
                Choose, AskAll, AllAnswered, AllFailed, Store, guard, Refuse
  <2> QED
    BY <2>1 DEF Next, Passes, vars, guard
<1>3. CircuitInv'
  <2>1. CASE UNCHANGED breaker \/ Cool
    BY <1>1, <2>1 DEF CircuitInv, breaker, Cool
  <2>2. CASE Allow
    BY <1>1, <2>2 DEF CircuitInv, Allow
  <2>3. CASE RecordSuccess
    BY <2>3, GuardAssumption DEF CircuitInv, RecordSuccess
  <2>4. CASE RecordFailure
    BY <1>1, <2>4, GuardAssumption DEF CircuitInv, RecordFailure
  <2> QED
    BY <1>2, <2>1, <2>2, <2>3, <2>4
<1>4. cooled' \in BOOLEAN
  <2>1. cooled' = cooled \/ cooled' = TRUE \/ cooled' = FALSE
    BY <1>2 DEF breaker, Cool, Allow, RecordSuccess, RecordFailure
  <2> QED
    BY <1>1, <2>1, Zenon
<1> QED
  BY <1>3, <1>4, Zenon DEF GuardTypeOK, CircuitInv

\* Every step of a thread is its own.
LEMMA StepsApart ==
    ASSUME NEW t \in Threads, AnswersInv, runs \in [Threads -> Nat], Start(t) \/ Proceed(t)
    PROVE  Alone(t) /\ \A u \in Threads \ {t} : runs'[u] = runs[u]
<1> USE DEF AnswersInv, TablesInv, Alone, Go, End
<1>1. ASSUME NEW how, Raise(t, how), UNCHANGED job
      PROVE  Alone(t) /\ \A u \in Threads \ {t} : runs'[u] = runs[u]
  BY <1>1 DEF Raise
<1>2. ASSUME NEW misses, LookOn(t, misses), UNCHANGED job,
             \A u \in Threads \ {t} : answers'[u] = answers[u]
      PROVE  Alone(t) /\ \A u \in Threads \ {t} : runs'[u] = runs[u]
  BY <1>2 DEF LookOn
<1>3. ASSUME NEW who, Classified(t, who), UNCHANGED <<job, runs>>
      PROVE  Alone(t) /\ \A u \in Threads \ {t} : runs'[u] = runs[u]
  BY <1>3 DEF Classified, Give
<1>4. CASE Start(t)
  BY <1>4 DEF Start
<1>5. CASE Hit(t) \/ Miss(t) \/ Blank(t) \/ Foreign(t) \/ Pushed(t)
  BY <1>1, <1>2, <1>5 DEF Hit, Miss, Blank, Foreign, Pushed, Give
<1>6. CASE Ask(t) \/ Answered(t) \/ Failed(t)
  BY <1>1, <1>3, <1>6 DEF Ask, Answered, Failed, Run
<1>7. CASE Choose(t) \/ AskAll(t) \/ AllAnswered(t) \/ AllFailed(t)
  BY <1>1, <1>7 DEF Choose, AskAll, AllAnswered, AllFailed, Run
<1>8. CASE Store(t)
  BY <1>8 DEF Store
<1> QED
  BY <1>4, <1>5, <1>6, <1>7, <1>8 DEF Proceed

\* A request that is under way or done keeps its answers in their places; one
\* that is refused or fails gives them up.
LEMMA FilledKeeps ==
    ASSUME NEW t \in Threads, AnswersInv, AnswersInv', Filled(t), Start(t) \/ Proceed(t)
    PROVE  Filled(t)'
<1>1. CASE pc'[t] \notin Ends \ {"done"}
  BY <1>1 DEF AnswersInv, ThreadInv, UnderWay, Filled
<1>2. ASSUME NEW how, Raise(t, how), UNCHANGED job
      PROVE  Filled(t)'
  <2>1. DOMAIN answers = Threads /\ DOMAIN answers[t] = Positions(t) /\ Positions(t)' = Positions(t)
    BY <1>2 DEF AnswersInv, TablesInv, Filled, Positions
  <2>2. answers'[t] = [k \in Positions(t) |-> Missing]
    BY <1>2, <2>1 DEF Raise
  <2> QED
    BY <2>1, <2>2 DEF Filled
<1>3. CASE pc'[t] \in Ends \ {"done"}
  <2>1. ASSUME NEW step, NEW k, Go(t, step, k)
        PROVE  pc'[t] = step
    BY <2>1 DEF Go, AnswersInv, TablesInv
  <2>2. \A misses : ~LookOn(t, misses)
    BY <1>3, <2>1 DEF LookOn, End, Ends
  <2>3. \A who : ~Classified(t, who)
    BY <1>3, <2>1 DEF Classified, Ends
  <2>4. \A step : Run(t, step) => pc'[t] = step
    BY <2>1 DEF Run
  <2>5. (\E how : Raise(t, how)) /\ UNCHANGED job
    BY <1>3, <2>1, <2>2, <2>3, <2>4
    DEF Start, Proceed, Hit, Miss, Blank, Foreign, Pushed, Ask, Answered, Failed,
        Choose, AskAll, AllAnswered, AllFailed, Store, End, Ends
  <2> QED
    BY <1>2, <2>5
<1> QED
  BY <1>1, <1>3

LEMMA RunsKeep ==
    ASSUME NEW t \in Threads, AnswersInv, AnswersInv', SizesInv, Start(t) \/ Proceed(t)
    PROVE  runs' \in [Threads -> Nat] /\ RunsInv(t)'
<1> DEFINE Kept == runs' \in [Threads -> Nat] /\ RunsInv(t)'
<1>1. RunsInv(t) /\ runs \in [Threads -> Nat]
  BY DEF SizesInv
<1>2. pc[t] \in PCs /\ at[t] \in Nat /\ Again(t) \in {0, 1} /\ (job[t].batch => Again(t) = 1)
  BY DEF AnswersInv, TablesInv, Again
<1>3. pc[t] \notin Ends => /\ job[t].batch \in BOOLEAN /\ at[t] \in 1..Len(job[t].items)
                           /\ Len(job[t].items) \in Nat /\ missed[t] \in SUBSET Nat
  BY ItemOfThread, JobItems
<1>4. ASSUME NEW step, NEW k, Go(t, step, k)
      PROVE  pc'[t] = step /\ at'[t] = k
  BY <1>4 DEF Go, AnswersInv, TablesInv
<1>5. ASSUME NEW how \in Ends, End(t, how)
      PROVE  Kept
  BY <1>1, <1>4, <1>5 DEF End, RunsInv, Ends, Batched
<1>6. UNCHANGED job => UNCHANGED <<Again(t), job[t]>>
  BY DEF Again
<1>7. ASSUME pc[t] = "lookup", UNCHANGED job, NEW misses \in SUBSET Nat, LookOn(t, misses)
      PROVE  Kept
  <2>1. CASE End(t, "done")
    BY <1>5, <2>1 DEF Ends
  <2>2. CASE UNCHANGED runs /\ Go(t, "lookup", at[t] + 1)
    BY <1>1, <1>4, <1>7, <2>2 DEF RunsInv, Ends, Batched
  <2>3. CASE UNCHANGED runs /\ job[t].batch /\ Go(t, "choose", LowestOf(misses))
    BY <1>1, <1>4, <1>6, <1>7, <2>3 DEF RunsInv, Ends, Batched
  <2>4. CASE UNCHANGED runs /\ Go(t, "ask", LowestOf(misses)) /\ misses # {}
    <3>1. runs[t] = 0 /\ pc'[t] = "ask" /\ at'[t] = LowestOf(misses)
      BY <1>1, <1>4, <1>7, <2>4 DEF RunsInv
    <3>2. at'[t] \in 1..Len(job[t].items)
      BY <1>7, <3>1, ItemOfThread, JobItems DEF AnswersInv, ThreadInv, UnderWay, Ends, Positions
    <3> QED
      BY <1>1, <1>2, <1>6, <1>7, <2>4, <3>1, <3>2 DEF RunsInv, Ends, Batched
  <2>5. misses = {} => at[t] < Len(job[t].items) \/ at[t] = Len(job[t].items)
    BY <1>3, <1>7 DEF Ends
  <2> QED
    BY <1>7, <2>1, <2>2, <2>3, <2>4, <2>5 DEF LookOn
<1>8. ASSUME runs[t] <= at[t] + Again(t), UNCHANGED <<job, runs>>, pc[t] \in {"ask", "run"},
             NEW who, Classified(t, who)
      PROVE  Kept
  <2>1. CASE After(t) = {} /\ Go(t, "store", LowestOf(missed[t]))
    <3>1. pc'[t] = "store" /\ runs[t] <= Len(job[t].items) + Again(t)
      BY <1>1, <1>2, <1>3, <1>4, <1>8, <2>1 DEF Ends
    <3> QED
      BY <1>1, <1>6, <1>8, <3>1 DEF RunsInv, Ends, Batched
  <2>2. CASE After(t) # {} /\ Go(t, "ask", LowestOf(After(t)))
    <3>1. After(t) \in SUBSET Nat /\ \A k \in After(t) : k > at[t]
      BY <1>3, <1>8 DEF After, Ends
    <3>2. pc'[t] = "ask" /\ at'[t] > at[t] /\ at'[t] \in Nat
      BY <1>4, <2>2, <3>1, LowestIsLowest
    <3> QED
      BY <1>1, <1>2, <1>6, <1>8, <3>2 DEF RunsInv, Ends, Batched
  <2> QED
    BY <1>8, <2>1, <2>2 DEF Classified
<1>9. CASE Start(t)
  <2>1. runs[t] = 0 /\ UNCHANGED runs /\ pc'[t] = "lookup"
    BY <1>1, <1>4, <1>9 DEF Start, RunsInv
  <2> QED
    BY <1>1, <2>1 DEF RunsInv, Ends, Batched
<1>10. CASE Hit(t) \/ Miss(t) \/ Blank(t) \/ Foreign(t) \/ Pushed(t)
  <2>1. CASE \E how \in {"rejected", "failed"} : Raise(t, how)
    BY <1>5, <2>1 DEF Raise, Ends
  <2>2. CASE /\ pc[t] = "lookup" /\ UNCHANGED job
             /\ LookOn(t, missed[t]) \/ LookOn(t, missed[t] \cup {at[t]})
    BY <1>2, <1>3, <1>7, <2>2 DEF Ends
  <2> QED
    BY <1>10, <2>1, <2>2 DEF Hit, Miss, Blank, Foreign, Pushed
<1>11. CASE Ask(t) \/ Answered(t) \/ Failed(t)
  <2>1. runs[t] <= at[t] + Again(t) /\ pc[t] \in {"ask", "run"} /\ UNCHANGED job
    BY <1>1, <1>2, <1>11 DEF Ask, Answered, Failed, RunsInv
  <2>2. CASE \E who : Classified(t, who) /\ UNCHANGED runs
    BY <1>8, <2>1, <2>2
  <2>3. CASE Raise(t, "failed")
    BY <1>5, <2>3 DEF Raise, Ends
  <2>4. CASE pc[t] = "ask" /\ Run(t, "run")
    <3>1. pc'[t] = "run" /\ at'[t] = at[t] /\ runs' = [runs EXCEPT ![t] = runs[t] + 1]
      BY <1>4, <2>4 DEF Run
    <3>2. runs' \in [Threads -> Nat] /\ runs'[t] = runs[t] + 1 /\ runs[t] \in Nat
          /\ runs[t] < at[t] + Again(t)
      BY <1>1, <2>4, <3>1 DEF RunsInv
    <3>3. runs'[t] <= at'[t] + Again(t)'
      BY <1>2, <1>6, <2>1, <3>1, <3>2
    <3> QED
      BY <3>1, <3>2, <3>3 DEF RunsInv, Ends, Batched
  <2> QED
    BY <1>11, <2>2, <2>3, <2>4 DEF Ask, Answered, Failed
<1>12. CASE Choose(t) \/ AskAll(t) \/ AllAnswered(t) \/ AllFailed(t)
  <2>1. /\ pc[t] \in Batched /\ job[t].batch /\ UNCHANGED job /\ Again(t) = 1 /\ Again(t)' = 1
        /\ at[t] \in 1..Len(job[t].items)
    BY <1>1, <1>2, <1>3, <1>6, <1>12
    DEF Choose, AskAll, AllAnswered, AllFailed, RunsInv, Batched, Ends
  <2>2. CASE Raise(t, "failed")
    BY <1>5, <2>2 DEF Raise, Ends
  <2>3. CASE runs[t] \in {0, 1} /\ UNCHANGED runs /\ Go(t, "ask", at[t])
    BY <1>1, <1>4, <2>1, <2>3 DEF RunsInv, Ends, Batched
  <2>4. CASE runs[t] = 0 /\ UNCHANGED runs /\ Go(t, "ask_all", at[t])
    BY <1>1, <1>4, <2>1, <2>4 DEF RunsInv, Ends, Batched
  <2>5. CASE runs[t] = 0 /\ Run(t, "run_all")
    BY <1>1, <1>4, <2>1, <2>5 DEF Run, RunsInv, Ends, Batched
  <2>6. CASE runs[t] = 1 /\ UNCHANGED runs /\ Go(t, "store", at[t])
    BY <1>1, <1>4, <2>1, <2>6 DEF RunsInv, Ends, Batched
  <2>7. CASE Choose(t)
    BY <1>1, <2>3, <2>4, <2>7 DEF Choose, RunsInv
  <2>8. CASE AskAll(t)
    BY <1>1, <2>3, <2>5, <2>8 DEF AskAll, RunsInv
  <2>9. CASE AllAnswered(t) \/ AllFailed(t)
    BY <1>1, <2>2, <2>3, <2>6, <2>9 DEF AllAnswered, AllFailed, RunsInv
  <2> QED
    BY <1>12, <2>7, <2>8, <2>9
<1>13. CASE Store(t)
  <2>1. CASE End(t, "done")
    BY <1>5, <2>1 DEF Ends
  <2>2. CASE UNCHANGED <<runs, job>> /\ pc[t] = "store" /\ Go(t, "store", LowestOf(After(t)))
    BY <1>1, <1>4, <1>6, <2>2 DEF RunsInv, Ends, Batched
  <2> QED
    BY <1>13, <2>1, <2>2 DEF Store
<1> QED
  BY <1>9, <1>10, <1>11, <1>12, <1>13 DEF Proceed

-----------------------------------------------------------------------------
LEMMA ServiceInit == Init => ServiceInv
<1> SUFFICES ASSUME Init
             PROVE  ServiceInv
  OBVIOUS
<1>1. GuardTypeOK
  <2>1. CircuitInv
    BY GuardAssumption DEF Init, GuardInit, CircuitInv
  <2>2. cooled \in BOOLEAN
    BY Zenon DEF Init, GuardInit
  <2> QED
    BY <2>1, <2>2, Zenon DEF GuardTypeOK, CircuitInv
<1>2. ASSUME NEW t \in Threads
      PROVE  Filled(t) /\ RunsInv(t)
  BY DEF Init, NoJob, Filled, Positions, RunsInv, Ends, Batched
<1> QED
  BY <1>1, <1>2, AnswersInit DEF Init, ServiceInv, SizesInv

LEMMA ServiceStep == ServiceInv /\ [Next]_vars => ServiceInv'
<1> SUFFICES ASSUME ServiceInv, [Next]_vars
             PROVE  ServiceInv'
  OBVIOUS
<1>1. AnswersInv /\ SizesInv /\ AnswersInv' /\ GuardTypeOK'
  BY AnswersStep, GuardKeeps DEF ServiceInv, SizesInv
<1>2. CASE Passes \/ UNCHANGED vars
  <2>1. UNCHANGED <<mixed, runs, pc, job, answers, at>>
    BY <1>2 DEF Passes, vars, threads
  <2> QED
    BY <1>1, <2>1 DEF ServiceInv, SizesInv, Filled, RunsInv, Again, Positions
<1>3. ASSUME NEW t \in Threads, Start(t) \/ Proceed(t)
      PROVE  ServiceInv'
  <2>1. runs' \in [Threads -> Nat] /\ RunsInv(t)' /\ Filled(t)'
    BY <1>1, <1>3, RunsKeep, FilledKeeps DEF SizesInv
  <2>2. ASSUME NEW u \in Threads \ {t}
        PROVE  Filled(u)' /\ RunsInv(u)'
    <3>1. UNCHANGED <<pc[u], job[u], answers[u], at[u], runs[u]>> /\ Filled(u) /\ RunsInv(u)
      BY <1>1, <1>3, StepsApart DEF SizesInv, Alone
    <3> QED
      BY <3>1 DEF Filled, RunsInv, Again, Positions
  <2>3. (mixed \subseteq Keys)'
    <3>1. CASE Store(t)
      <4>1. Key(Item(t)) \in Keys
        <5>1. pc[t] \notin Ends /\ at[t] \in missed[t] /\ UnderWay(t)
          BY <1>1, <3>1, ItemOfThread DEF Store, Ends, UnderWay
        <5> QED
          BY <1>1, <5>1, ItemOfThread, KeyOfItem DEF UnderWay, Item
      <4> QED
        BY <1>1, <3>1, <4>1 DEF Store, SizesInv
    <3>2. CASE ~Store(t)
      BY <1>1, <1>3, <3>2
      DEF Start, Proceed, Hit, Miss, Blank, Foreign, Pushed, Ask, Answered, Failed,
          Choose, AskAll, AllAnswered, AllFailed, SizesInv
    <3> QED
      BY <3>1, <3>2
  <2> QED
    BY <1>1, <2>1, <2>2, <2>3 DEF ServiceInv, SizesInv
<1> QED
  BY <1>2, <1>3 DEF Next

LEMMA ServiceSays == ServiceInv => Consistent
<1> SUFFICES ASSUME ServiceInv
             PROVE  Consistent
  OBVIOUS
<1>1. AnswersInv /\ SizesInv
  BY DEF ServiceInv
<1>2. ASSUME NEW t \in Threads
      PROVE  /\ Len(job[t].items) \in Nat /\ Positions(t) = 1..Len(job[t].items)
             /\ missed[t] \subseteq Positions(t)
             /\ Len(answers[t]) = Len(job[t].items) /\ DOMAIN answers[t] = Positions(t)
             /\ runs[t] <= Len(job[t].items) + Again(t)
  <2>1. job[t] \in Jobs \/ job[t] = NoJob
    BY <1>1 DEF AnswersInv, TablesInv
  <2>2. Len(job[t].items) \in Nat /\ Positions(t) = 1..Len(job[t].items)
    BY <2>1, JobItems DEF NoJob, Positions
  <2>3. answers[t] \in [1..Len(job[t].items) -> Answers \cup {Missing, Invalid}]
    BY <1>1, <2>2 DEF SizesInv, Filled
  <2>4. missed[t] \subseteq Positions(t)
    BY <1>1 DEF AnswersInv, ThreadInv, UnderWay, Ends
  <2>5. runs[t] <= Len(job[t].items) + Again(t)
    <3>1. pc[t] \in PCs /\ RunsInv(t) /\ runs[t] \in Nat /\ Again(t) \in {0, 1} /\ at[t] \in Nat
      BY <1>1 DEF AnswersInv, TablesInv, SizesInv, Again
    <3>2. CASE runs[t] = 0
      <4>1. 0 <= Len(job[t].items) + Again(t)
        BY <2>2, <3>1
      <4> QED
        BY <3>2, <4>1
    <3>3. CASE pc[t] = "run_all"
      <4>1. runs[t] = 1 /\ Again(t) = 1
        BY <3>1, <3>3 DEF RunsInv, Batched, Again
      <4>2. Len(job[t].items) >= 0
        BY <2>2
      <4> QED
        BY <2>2, <4>1, <4>2
    <3>4. CASE pc[t] \in {"ask", "run"}
      <4>1. at[t] <= Len(job[t].items)
        BY <1>1, <2>2, <3>4, ItemOfThread DEF Ends
      <4> QED
        BY <2>2, <3>1, <3>4, <4>1 DEF RunsInv
    <3> QED
      BY <3>1, <3>2, <3>3, <3>4 DEF RunsInv, PCs, Waiting, Batched, Ends
  <2> QED
    BY <2>2, <2>3, <2>4, <2>5 DEF Positions
<1>3. TypeOK
  BY <1>1, <1>2 DEF SizesInv, AnswersInv, CacheInv, TypeOK, Filled, Positions
<1>4. ModelRunsAreBounded
  BY <1>2 DEF ModelRunsAreBounded, Again
<1> QED
  BY <1>3, <1>4 DEF Consistent

(* The breaker is closed exactly while it has room for a failure, every    *)
(* answer has its place, and a request of n items runs the model n + 1     *)
(* times at most, however often it fails and whatever other threads do to  *)
(* the circuit meanwhile.                                                  *)
THEOREM ModelRunsAreFew == Spec => []Consistent
BY ServiceInit, ServiceStep, ServiceSays, PTL DEF Spec
=============================================================================
