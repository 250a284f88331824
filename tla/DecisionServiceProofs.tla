----------------------- MODULE DecisionServiceProofs -----------------------
(***************************************************************************)
(* Proofs about the decision service, for any number of threads, and any   *)
(* jobs that clients ask for: the model is loaded once, what every answer  *)
(* says of itself is true, and the breaker is what its count says.         *)
(***************************************************************************)
EXTENDS DecisionService, WellFoundedInduction, TLAPS

WithModel == {"await_lock", "load", "predict"}
Asking == {"ask"} \cup WithModel
PCs == Ends \cup {"lookup", "store"} \cup Asking

-----------------------------------------------------------------------------
(* One thread at a time loads the model, and only while it is not loaded.  *)

LockInv ==
    /\ pc \in [Threads -> PCs]
    /\ LoadedOnce

\* Whatever else a thread does, it does not begin to load.
LEMMA OnlyTakeLockLoads ==
    ASSUME LockInv, NEW t \in Threads, Start(t) \/ Proceed(t), ~TakeLock(t)
    PROVE  /\ \E step \in PCs \ {"load"} : pc' = [pc EXCEPT ![t] = step]
           /\ UNCHANGED model \/ pc[t] = "load"
<1>1. CASE Start(t) \/ Hit(t) \/ Miss(t) \/ Pushed(t) \/ Store(t)
  BY <1>1 DEF Start, Hit, Miss, Pushed, Store, LookOn, Raise, End, Go, PCs, Ends, Asking
<1>2. CASE Ask(t)
  <2>1. UNCHANGED model
    BY <1>2 DEF Ask
  <2> QED
    BY <1>2, <2>1 DEF Ask, Consult, FallBack, Decide, Raise, End, Go, PCs, Ends, Asking, WithModel
<1>3. CASE Loaded(t)
  BY <1>3 DEF Loaded, Go, PCs, Asking, WithModel
<1>4. CASE LoadFails(t)
  BY <1>4 DEF LoadFails, ModelFails, FallBack, Decide, Raise, End, Go, PCs, Ends, Asking
<1>5. CASE Predicted(t) \/ PredictFails(t)
  BY <1>5 DEF Predicted, PredictFails, ModelFails, FallBack, Decide, Raise, End, Go, PCs, Ends, Asking
<1> QED
  BY <1>1, <1>2, <1>3, <1>4, <1>5 DEF Proceed

LEMMA LockInit == Init => LockInv
BY DEF Init, LockInv, LoadedOnce, PCs, Ends

LEMMA LockStep == LockInv /\ [Next]_vars => LockInv'
<1> SUFFICES ASSUME LockInv, [Next]_vars
             PROVE  LockInv'
  OBVIOUS
<1>1. CASE Passes \/ UNCHANGED vars
  BY <1>1 DEF Passes, vars, threads, model, LockInv, LoadedOnce
<1>2. ASSUME NEW t \in Threads, TakeLock(t)
      PROVE  LockInv'
  <2>1. \A u \in Threads : pc[u] # "load"
    BY <1>2, DecisionAssumption DEF TakeLock, LockInv, LoadedOnce
  <2> QED
    BY <1>2, <2>1 DEF TakeLock, Go, LockInv, LoadedOnce, PCs, Asking, WithModel
<1>3. ASSUME NEW t \in Threads, Start(t) \/ Proceed(t), ~TakeLock(t)
      PROVE  LockInv'
  <2>1. PICK step \in PCs \ {"load"} : pc' = [pc EXCEPT ![t] = step]
    BY <1>3, OnlyTakeLockLoads
  <2>2. CASE UNCHANGED model
    BY <2>1, <2>2 DEF LockInv, LoadedOnce, model
  <2>3. CASE pc[t] = "load"
    <3>1. \A u \in Threads \ {t} : pc[u] # "load"
      BY <2>3 DEF LockInv, LoadedOnce
    <3> QED
      BY <2>1, <3>1 DEF LockInv, LoadedOnce
  <2> QED
    BY <1>3, <2>2, <2>3, OnlyTakeLockLoads
<1> QED
  BY <1>1, <1>2, <1>3 DEF Next, Proceed

(* However many threads find the model missing at once, one at a time      *)
(* loads it, and none when it has been loaded.                             *)
THEOREM LoadsOnce == Spec => []LoadedOnce
<1>1. LockInv => LoadedOnce
  BY DEF LockInv
<1> QED
  BY <1>1, LockInit, LockStep, PTL DEF Spec

-----------------------------------------------------------------------------
(* What an answer says of itself                                           *)

\* A decision that should have been the model's says so if it is not.
Says(answer) == answer.by \in {"ml", "ensemble"} => answer.model \/ answer.why

\* A decision for an item, as its key knows it, whatever name it bears.
Suits(answer, item) ==
    /\ answer \in Decisions
    /\ Fingerprint(answer.features) = Fingerprint(item.features)
    /\ answer.by \in Makers(item)
    /\ Says(answer)

Fits(answer, item) == Suits(answer, item) /\ (item.name # "none" => answer.name = item.name)

Positions(t) == DOMAIN job[t].items

\* A decision that was made for this item and no other.
Made(answer, item) == answer.features = item.features /\ answer.name = item.name

Suited(t, k) == Fits(answers[t][k], job[t].items[k])

HasIts(t, k) ==
    /\ Suited(t, k)
    /\ k \in missed[t] => Made(answers[t][k], job[t].items[k])

TablesInv ==
    /\ pc \in [Threads -> PCs]
    /\ job \in [Threads -> Jobs \cup {Nothing}]
    /\ DOMAIN answers = Threads
    /\ at \in [Threads -> Nat]
    /\ missed \in [Threads -> SUBSET Nat]
    /\ setting \in Settings

CacheInv ==
    /\ cached \in [Keys -> Decisions \cup {Missing}]
    /\ \A key \in Keys : cached[key] # Missing => Suits(cached[key], key)

\* What has not been looked up, missed or decided so far is yet to come.
UnderWay(t) ==
    /\ job[t] \in Jobs
    /\ answers[t] \in [Positions(t) -> Decisions \cup {Missing}]
    /\ missed[t] \in SUBSET Positions(t)
    /\ pc[t] # "done" => at[t] \in Positions(t)
    /\ pc[t] = "lookup" => \A k \in Positions(t) : k < at[t] => k \in missed[t] \/ HasIts(t, k)
    /\ pc[t] \in Asking =>
          /\ at[t] \in missed[t]
          /\ \A k \in Positions(t) : HasIts(t, k) \/ (k \in missed[t] /\ k >= at[t])
    /\ pc[t] \in WithModel => Strategy(Item(t)) \in {"ml", "ensemble"}
    /\ pc[t] \in {"store", "done"} => \A k \in Positions(t) : HasIts(t, k)
    /\ pc[t] = "store" => at[t] \in missed[t]

ThreadInv(t) ==
    /\ pc[t] \in Ends => missed[t] = {}
    /\ pc[t] \notin {"idle", "failed"} => UnderWay(t)

AnswersInv == TablesInv /\ CacheInv /\ \A t \in Threads : ThreadInv(t)

\* A thread's step leaves the others alone.
Alone(t) ==
    \A u \in Threads \ {t} :
        /\ pc'[u] = pc[u] /\ job'[u] = job[u] /\ answers'[u] = answers[u]
        /\ at'[u] = at[u] /\ missed'[u] = missed[u]

-----------------------------------------------------------------------------
LEMMA JobItems ==
    ASSUME NEW j \in Jobs
    PROVE  /\ j.items \in Seq(Items) /\ Len(j.items) \in Nat \ {0}
           /\ DOMAIN j.items = 1..Len(j.items)
           /\ \A k \in DOMAIN j.items : j.items[k] \in Items
           /\ j.batch \in BOOLEAN
BY DecisionAssumption

LEMMA LowestIsLowest ==
    ASSUME NEW S \in SUBSET Nat, S # {}
    PROVE  LowestOf(S) \in S /\ \A k \in S : LowestOf(S) <= k
<1> DEFINE R == OpToRel(<, Nat)
<1>1. R = {p \in Nat \X Nat : p[1] < p[2]}
  BY DEF OpToRel
<1>2. IsWellFoundedOn(R, Nat)
  BY NatLessThanWellFounded
<1>3. \E k \in S : \A l \in S : <<l, k>> \notin R
  <2> HIDE DEF R
  <2> QED
    BY <1>2, WFMin
<1>4. ASSUME NEW k \in S, NEW l \in S, <<l, k>> \notin R
      PROVE  k <= l
  <2>1. <<l, k>> \in Nat \X Nat /\ <<l, k>>[1] = l /\ <<l, k>>[2] = k
    OBVIOUS
  <2>2. ~(l < k)
    BY <1>1, <1>4, <2>1
  <2> QED
    BY <2>2
<1>5. \E k \in S : \A l \in S : k <= l
  BY <1>3, <1>4
<1> QED
  BY <1>5 DEF LowestOf

LEMMA MissingIsNone == Missing \notin Decisions
BY DEF Missing, Decisions

LEMMA OthersKeep ==
    ASSUME NEW t \in Threads, AnswersInv, Alone(t), setting' = setting, NEW u \in Threads \ {t}
    PROVE  ThreadInv(u)'
<1>1. ThreadInv(u)
  BY DEF AnswersInv
<1>2. /\ pc'[u] = pc[u] /\ job'[u] = job[u] /\ answers'[u] = answers[u]
      /\ at'[u] = at[u] /\ missed'[u] = missed[u]
  BY DEF Alone
<1>3. \A k : HasIts(u, k)' <=> HasIts(u, k)
  BY <1>2 DEF HasIts, Suited, Made, Fits, Suits, Makers, Strategy
<1>4. Strategy(Item(u))' = Strategy(Item(u)) /\ Positions(u)' = Positions(u)
  BY <1>2 DEF Strategy, Item, Positions
<1> QED
  BY <1>1, <1>2, <1>3, <1>4 DEF ThreadInv, UnderWay

\* What is left to show of a step of thread t.
LEMMA StepKeeps ==
    ASSUME NEW t \in Threads, AnswersInv, Alone(t), setting' = setting,
           TablesInv', CacheInv', ThreadInv(t)'
    PROVE  AnswersInv'
BY OthersKeep DEF AnswersInv

LEMMA CacheStays ==
    ASSUME CacheInv, UNCHANGED <<cached, setting>>
    PROVE  CacheInv'
BY DEF CacheInv, Suits, Makers, Strategy

-----------------------------------------------------------------------------
LEMMA StartKeeps ==
    ASSUME NEW t \in Threads, AnswersInv, Start(t)
    PROVE  AnswersInv'
<1>1. PICK j \in Jobs :
          /\ job' = [job EXCEPT ![t] = j]
          /\ answers' = [answers EXCEPT ![t] = [k \in DOMAIN j.items |-> Missing]]
  BY DEF Start
<1>2. /\ pc' = [pc EXCEPT ![t] = "lookup"] /\ at' = [at EXCEPT ![t] = 1]
      /\ UNCHANGED <<cached, setting, missed>>
  BY DEF Start, Go, guard
<1>3. TablesInv' /\ Alone(t)
  BY <1>1, <1>2 DEF AnswersInv, TablesInv, Alone, PCs
<1>4. missed[t] = {}
  BY DEF AnswersInv, ThreadInv, Start
<1>5. ThreadInv(t)'
  BY <1>1, <1>2, <1>4, JobItems DEF AnswersInv, TablesInv, ThreadInv, UnderWay, Positions, Asking, WithModel
<1> QED
  BY <1>2, <1>3, <1>5, CacheStays, StepKeeps DEF AnswersInv

\* A fingerprint is its own; and it tells all but what is not so from what is unknown.
LEMMA FingerprintOfFeatures ==
    ASSUME NEW f \in Features
    PROVE  /\ Fingerprint(Fingerprint(f)) = Fingerprint(f)
           /\ \A g \in Features : Fingerprint(f) = Fingerprint(g) => SameFeatures(f, g)
<1> DEFINE Shape == [others : Others, flags : [Flagged -> Ternary]]
           told(h) == [flag \in Flagged |-> IF h.flags[flag] = "unknown" THEN "no" ELSE h.flags[flag]]
<1>1. Features \subseteq Shape
  BY DecisionAssumption
<1>2. ASSUME NEW h \in Shape
      PROVE  /\ Fingerprint(h) = [others |-> h.others, flags |-> told(h)]
             /\ Fingerprint(h) \in Shape
  <2>1. told(h) \in [Flagged -> Ternary]
    BY DEF Ternary
  <2>2. Fingerprint(h) = [h EXCEPT !.flags = told(h)]
    BY DEF Fingerprint
  <2> HIDE DEF told
  <2> QED
    BY <2>1, <2>2
<1>3. Fingerprint(Fingerprint(f)) = Fingerprint(f)
  <2> DEFINE g == Fingerprint(f)
  <2>1. g \in Shape /\ g.others = f.others /\ g.flags = told(f)
    BY <1>1, <1>2
  <2>2. \A flag \in Flagged : told(f)[flag] # "unknown"
    OBVIOUS
  <2>3. told(g) = told(f)
    <3> HIDE DEF g
    <3>1. \A flag \in Flagged : g.flags[flag] # "unknown" /\ g.flags[flag] = told(f)[flag]
      BY <2>1, <2>2
    <3>2. \A flag \in Flagged : told(g)[flag] = told(f)[flag]
      BY <3>1
    <3> QED
      BY <3>2
  <2> HIDE DEF g, told
  <2> QED
    BY <1>1, <1>2, <2>1, <2>3 DEF g
<1>4. ASSUME NEW g \in Features, Fingerprint(f) = Fingerprint(g)
      PROVE  SameFeatures(f, g)
  <2>1. f.others = g.others /\ told(f) = told(g)
    <3> HIDE DEF told
    <3>1. [others |-> f.others, flags |-> told(f)] = [others |-> g.others, flags |-> told(g)]
      BY <1>1, <1>2, <1>4
    <3> QED
      BY <3>1
  <2>2. ASSUME NEW flag \in Flagged
        PROVE  f.flags[flag] = g.flags[flag] \/ {f.flags[flag], g.flags[flag]} = {"no", "unknown"}
    <3>1. told(f)[flag] = told(g)[flag]
      BY <2>1
    <3> QED
      BY <3>1
  <2> QED
    BY <2>1, <2>2 DEF SameFeatures
<1> QED
  BY <1>3, <1>4

LEMMA KeyOfItem ==
    ASSUME NEW item \in Items
    PROVE  Key(item) \in Keys /\ \A answer : Suits(answer, Key(item)) <=> Suits(answer, item)
<1>1. item.features \in Features /\ item.override \in Overrides
  BY DEF Items
<1>2. Key(item) \in Keys
  BY <1>1 DEF Key, Keys
<1>3. /\ Fingerprint(Key(item).features) = Fingerprint(item.features)
      /\ Key(item).override = item.override
  BY <1>1, FingerprintOfFeatures DEF Key
<1> QED
  BY <1>2, <1>3 DEF Suits, Makers, Strategy

LEMMA ItemOfThread ==
    ASSUME NEW t \in Threads, AnswersInv, pc[t] \notin Ends
    PROVE  /\ UnderWay(t) /\ job[t] \in Jobs /\ Item(t) \in Items
           /\ at[t] \in Positions(t) /\ missed[t] \in SUBSET Positions(t)
           /\ Positions(t) = 1..Len(job[t].items) /\ Len(job[t].items) \in Nat
<1>1. UnderWay(t)
  BY DEF AnswersInv, ThreadInv, Ends
<1>2. job[t] \in Jobs /\ at[t] \in Positions(t) /\ missed[t] \in SUBSET Positions(t)
  BY <1>1 DEF UnderWay, Ends
<1> QED
  BY <1>1, <1>2, JobItems DEF Item, Positions

(* The next item is looked up, or the first that was missed is asked for. *)
LEMMA LookOnKeeps ==
    ASSUME NEW t \in Threads, AnswersInv, pc[t] = "lookup",
           NEW misses \in SUBSET Positions(t), LookOn(t, misses),
           UNCHANGED <<cached, setting, job>>,
           DOMAIN answers' = Threads, \A u \in Threads \ {t} : answers'[u] = answers[u],
           answers'[t] \in [Positions(t) -> Decisions \cup {Missing}],
           \A k \in Positions(t) : k <= at[t] => k \in misses \/ Suited(t, k)'
    PROVE  AnswersInv'
<1>0. /\ job[t] \in Jobs /\ at[t] \in Positions(t)
      /\ Positions(t) = 1..Len(job[t].items) /\ Len(job[t].items) \in Nat
  BY ItemOfThread DEF Ends
<1>1. /\ job[t] \in Jobs /\ at[t] \in Positions(t)
      /\ Positions(t) = 1..Len(job[t].items) /\ Len(job[t].items) \in Nat
      /\ Positions(t)' = Positions(t) /\ misses \in SUBSET Nat
  <2>1. Positions(t)' = Positions(t)
    BY DEF Positions
  <2> QED
    BY <1>0, <2>1
<1>5. \A k \in Positions(t) : k <= at[t] => k \in misses \/ HasIts(t, k)'
  <2>1. missed'[t] = misses \/ missed'[t] = {}
    BY DEF LookOn, End, AnswersInv, TablesInv
  <2> QED
    BY <2>1 DEF HasIts
<1>2. CASE at[t] < Len(job[t].items) /\ Go(t, "lookup", at[t] + 1) /\ missed' = [missed EXCEPT ![t] = misses]
  <2>1. TablesInv' /\ Alone(t) /\ pc'[t] = "lookup" /\ at'[t] = at[t] + 1 /\ missed'[t] = misses
    BY <1>1, <1>2 DEF Go, AnswersInv, TablesInv, Alone, PCs
  <2>2. \A k \in Positions(t) : k < at[t] + 1 => k <= at[t]
    BY <1>1
  <2>3. at[t] + 1 \in Positions(t)
    BY <1>1, <1>2
  <2>4. UnderWay(t)'
    BY <1>1, <1>5, <2>1, <2>2, <2>3 DEF UnderWay, Asking, WithModel
  <2> QED
    BY <2>1, <2>4, CacheStays, StepKeeps DEF AnswersInv, ThreadInv, Ends
<1>3. CASE misses = {} /\ ~(at[t] < Len(job[t].items)) /\ End(t, "done")
  <2>1. TablesInv' /\ Alone(t) /\ pc'[t] = "done" /\ missed'[t] = {}
    BY <1>1, <1>3 DEF End, Go, AnswersInv, TablesInv, Alone, PCs, Ends
  <2>2. \A k \in Positions(t) : k <= at[t]
    BY <1>1, <1>3
  <2>3. UnderWay(t)'
    BY <1>1, <1>5, <1>3, <2>1, <2>2 DEF UnderWay, Asking, WithModel
  <2> QED
    BY <2>1, <2>3, CacheStays, StepKeeps DEF AnswersInv, ThreadInv
<1>4. CASE /\ misses # {} /\ ~(at[t] < Len(job[t].items))
           /\ Go(t, "ask", LowestOf(misses)) /\ missed' = [missed EXCEPT ![t] = misses]
  <2>1. LowestOf(misses) \in misses /\ \A k \in misses : LowestOf(misses) <= k
    BY <1>1, <1>4, LowestIsLowest
  <2>2. TablesInv' /\ Alone(t) /\ pc'[t] = "ask" /\ at'[t] = LowestOf(misses) /\ missed'[t] = misses
    BY <1>1, <1>4, <2>1 DEF Go, AnswersInv, TablesInv, Alone, PCs, Asking
  <2>3. \A k \in Positions(t) : k <= at[t]
    BY <1>1, <1>4
  <2>4. \A k \in Positions(t) : HasIts(t, k)' \/ (k \in misses /\ k >= LowestOf(misses))
    BY <1>1, <1>5, <2>1, <2>3
  <2>5. UnderWay(t)'
    BY <1>1, <2>1, <2>2, <2>4 DEF UnderWay, Asking, WithModel
  <2> QED
    BY <2>2, <2>5, CacheStays, StepKeeps DEF AnswersInv, ThreadInv, Ends
<1> QED
  BY <1>2, <1>3, <1>4 DEF LookOn

LEMMA HitKeeps ==
    ASSUME NEW t \in Threads, AnswersInv, Hit(t)
    PROVE  AnswersInv'
<1> DEFINE item == Item(t)
           found == cached[Key(item)]
           copy == IF item.name = "none" THEN found ELSE [found EXCEPT !.name = item.name]
<1>1. /\ pc[t] = "lookup" /\ found # Missing
      /\ answers' = [answers EXCEPT ![t][at[t]] = copy]
      /\ LookOn(t, missed[t]) /\ UNCHANGED <<cached, setting, job>>
  BY DEF Hit, guard
<1>2. /\ item \in Items /\ at[t] \in Positions(t) /\ missed[t] \in SUBSET Positions(t)
      /\ answers[t] \in [Positions(t) -> Decisions \cup {Missing}]
      /\ \A k \in Positions(t) : k < at[t] => k \in missed[t] \/ HasIts(t, k)
      /\ Positions(t) \subseteq Nat /\ item = job[t].items[at[t]]
  BY <1>1, ItemOfThread DEF UnderWay, Ends, Item
<1>3. Suits(found, item)
  BY <1>1, <1>2, KeyOfItem DEF AnswersInv, CacheInv
<1>4. Fits(copy, item)
  <2>1. item.name \in Names \cup {"none"}
    BY <1>2 DEF Items
  <2> HIDE DEF item, found
  <2> QED
    BY <1>3, <2>1 DEF Fits, Suits, Says, Decisions
<1> HIDE DEF copy, found, item
<1>5. answers'[t] = [answers[t] EXCEPT ![at[t]] = copy]
  BY <1>1 DEF AnswersInv, TablesInv
<1>6. answers'[t] \in [Positions(t) -> Decisions \cup {Missing}] /\ answers'[t][at[t]] = copy
  BY <1>2, <1>4, <1>5 DEF Fits, Suits
<1>7. \A k \in Positions(t) : k = at[t] => Suited(t, k)'
  BY <1>1, <1>2, <1>4, <1>6 DEF HasIts, Suited, Made, Fits, Suits, Makers, Strategy
<1>8. \A k \in Positions(t) : k < at[t] => k \in missed[t] \/ Suited(t, k)'
  BY <1>1, <1>2, <1>5 DEF HasIts, Suited, Made, Fits, Suits, Makers, Strategy
<1>9. \A k \in Positions(t) : k <= at[t] => k \in missed[t] \/ Suited(t, k)'
  BY <1>2, <1>7, <1>8
<1>10. DOMAIN answers' = Threads /\ \A u \in Threads \ {t} : answers'[u] = answers[u]
  BY <1>1 DEF AnswersInv, TablesInv
<1> QED
  BY <1>1, <1>2, <1>6, <1>9, <1>10, LookOnKeeps

LEMMA MissKeeps ==
    ASSUME NEW t \in Threads, AnswersInv, Miss(t)
    PROVE  AnswersInv'
<1> DEFINE misses == missed[t] \cup {at[t]}
<1>1. /\ pc[t] = "lookup" /\ LookOn(t, misses) /\ UNCHANGED <<cached, setting, job, answers>>
  BY DEF Miss, guard
<1>2. /\ at[t] \in Positions(t) /\ missed[t] \in SUBSET Positions(t)
      /\ answers[t] \in [Positions(t) -> Decisions \cup {Missing}]
      /\ \A k \in Positions(t) : k < at[t] => k \in missed[t] \/ HasIts(t, k)
      /\ Positions(t) \subseteq Nat
  BY <1>1, ItemOfThread DEF UnderWay, Ends
<1>3. \A k \in Positions(t) : k <= at[t] => k \in misses \/ Suited(t, k)
  BY <1>2 DEF HasIts
<1>4. \A k : Suited(t, k)' <=> Suited(t, k)
  BY <1>1 DEF HasIts, Suited, Made, Fits, Suits, Makers, Strategy
<1>5. misses \in SUBSET Positions(t) /\ DOMAIN answers' = Threads
  BY <1>1, <1>2 DEF AnswersInv, TablesInv
<1> HIDE DEF misses
<1> QED
  BY <1>1, <1>2, <1>3, <1>4, <1>5, LookOnKeeps

LEMMA RaiseKeeps ==
    ASSUME NEW t \in Threads, AnswersInv, Raise(t), UNCHANGED <<cached, setting>>
    PROVE  AnswersInv'
<1>1. TablesInv' /\ Alone(t) /\ pc'[t] = "failed" /\ missed'[t] = {}
  BY DEF Raise, End, Go, AnswersInv, TablesInv, Alone, PCs, Ends
<1> QED
  BY <1>1, CacheStays, StepKeeps DEF AnswersInv, ThreadInv

-----------------------------------------------------------------------------
(* Every item of a group gets its decision.                                *)

LEMMA DecideKeeps ==
    ASSUME NEW t \in Threads, AnswersInv, pc[t] \in Asking, UNCHANGED <<cached, setting>>,
           NEW by \in Makers(Item(t)), NEW usedModel \in BOOLEAN, NEW saysWhy \in BOOLEAN,
           by \in {"rules", "ml", "ensemble", "rules_fallback"},
           by \in {"ml", "ensemble"} => usedModel \/ saysWhy,
           Decide(t, by, usedModel, saysWhy)
    PROVE  AnswersInv'
<1>1. /\ UnderWay(t) /\ job[t] \in Jobs /\ Item(t) \in Items
      /\ at[t] \in missed[t] /\ missed[t] \in SUBSET Positions(t) /\ Positions(t) \subseteq Nat
      /\ answers[t] \in [Positions(t) -> Decisions \cup {Missing}]
      /\ \A k \in Positions(t) : HasIts(t, k) \/ (k \in missed[t] /\ k >= at[t])
      /\ \A k \in Positions(t) : job[t].items[k] \in Items
  <2>1. /\ UnderWay(t) /\ job[t] \in Jobs /\ Item(t) \in Items
        /\ Positions(t) = 1..Len(job[t].items)
    BY ItemOfThread DEF Ends, Asking, WithModel
  <2>2. Positions(t) \subseteq Nat /\ \A k \in Positions(t) : job[t].items[k] \in Items
    BY <2>1, JobItems DEF Positions
  <2> QED
    BY <2>1, <2>2 DEF UnderWay
<1>2. \A k \in Group(t) : k \in Positions(t) /\ job[t].items[k].override = Item(t).override
  BY <1>1 DEF Group, Together, Item
<1> DEFINE decision(k) == [by |-> by, model |-> usedModel, why |-> saysWhy,
                           features |-> job[t].items[k].features, name |-> job[t].items[k].name]
<1>3. \A k \in Group(t) : Fits(decision(k), job[t].items[k]) /\ Made(decision(k), job[t].items[k])
  <2> SUFFICES ASSUME NEW k \in Group(t)
               PROVE  Fits(decision(k), job[t].items[k]) /\ Made(decision(k), job[t].items[k])
    OBVIOUS
  <2>1. job[t].items[k] \in Items
    BY <1>1, <1>2
  <2>2. decision(k) \in Decisions
    BY <2>1 DEF Decisions, Items
  <2>3. by \in Makers(job[t].items[k])
    BY <1>2 DEF Makers, Strategy
  <2> QED
    BY <2>2, <2>3 DEF Made, Fits, Suits, Says
<1>4. /\ job' = job /\ missed' = missed
      /\ answers' = [answers EXCEPT ![t] =
            [k \in DOMAIN answers[t] |-> IF k \in Group(t) THEN decision(k) ELSE answers[t][k]]]
  BY DEF Decide
<1> HIDE DEF decision
<1>5. answers'[t] = [k \in Positions(t) |-> IF k \in Group(t) THEN decision(k) ELSE answers[t][k]]
  BY <1>1, <1>4 DEF AnswersInv, TablesInv
<1>6. /\ answers'[t] \in [Positions(t) -> Decisions \cup {Missing}]
      /\ DOMAIN answers' = Threads /\ \A u \in Threads \ {t} : answers'[u] = answers[u]
      /\ Positions(t)' = Positions(t)
  BY <1>1, <1>3, <1>4, <1>5 DEF AnswersInv, TablesInv, Fits, Suits, Positions
<1>7. \A k \in Positions(t) : k \in Group(t) \/ HasIts(t, k) => HasIts(t, k)'
  <2> SUFFICES ASSUME NEW k \in Positions(t), k \in Group(t) \/ HasIts(t, k)
               PROVE  HasIts(t, k)'
    OBVIOUS
  <2>1. /\ Fits(answers'[t][k], job[t].items[k])
        /\ k \in missed[t] => Made(answers'[t][k], job[t].items[k])
    BY <1>3, <1>5 DEF HasIts, Suited
  <2> QED
    BY <1>4, <2>1 DEF HasIts, Suited, Made, Fits, Suits, Makers, Strategy
<1>8. \A k \in Positions(t) : HasIts(t, k)' \/ k \in After(t)
  <2>1. CASE Together(t)
    BY <1>1, <1>7, <2>1 DEF Group
  <2>2. CASE ~Together(t)
    BY <1>1, <1>7, <2>2 DEF Group, After
  <2> QED
    BY <2>1, <2>2
<1>9. CASE After(t) = {} /\ Go(t, "store", LowestOf(missed[t]))
  <2>1. LowestOf(missed[t]) \in missed[t]
    BY <1>1, LowestIsLowest
  <2>2. /\ TablesInv' /\ Alone(t) /\ pc'[t] = "store" /\ at'[t] = LowestOf(missed[t])
        /\ missed'[t] = missed[t]
    BY <1>1, <1>4, <1>6, <1>9, <2>1 DEF Go, AnswersInv, TablesInv, Alone, PCs
  <2>3. UnderWay(t)'
    BY <1>1, <1>4, <1>6, <1>8, <1>9, <2>1, <2>2 DEF UnderWay, Asking, WithModel
  <2> QED
    BY <2>2, <2>3, CacheStays, StepKeeps DEF AnswersInv, ThreadInv, Ends
<1>10. CASE After(t) # {} /\ Go(t, "ask", LowestOf(After(t)))
  <2>1. LowestOf(After(t)) \in After(t) /\ \A k \in After(t) : LowestOf(After(t)) <= k
    BY <1>1, <1>10, LowestIsLowest DEF After
  <2>2. After(t) \in SUBSET missed[t] /\ After(t) \in SUBSET Nat
    BY <1>1 DEF After
  <2>3. /\ TablesInv' /\ Alone(t) /\ pc'[t] = "ask" /\ at'[t] = LowestOf(After(t))
        /\ missed'[t] = missed[t]
    BY <1>1, <1>4, <1>6, <1>10, <2>1, <2>2 DEF Go, AnswersInv, TablesInv, Alone, PCs, Asking
  <2>4. \A k \in Positions(t) : HasIts(t, k)' \/ (k \in missed[t] /\ k >= LowestOf(After(t)))
    BY <1>1, <1>8, <2>1, <2>2
  <2>5. UnderWay(t)'
    BY <1>1, <1>4, <1>6, <2>1, <2>2, <2>3, <2>4 DEF UnderWay, Asking, WithModel
  <2> QED
    BY <2>3, <2>5, CacheStays, StepKeeps DEF AnswersInv, ThreadInv, Ends
<1> QED
  BY <1>9, <1>10 DEF Decide

LEMMA FallBackKeeps ==
    ASSUME NEW t \in Threads, AnswersInv, pc[t] \in Asking, UNCHANGED <<cached, setting>>,
           Strategy(Item(t)) = "ml", FallBack(t)
    PROVE  AnswersInv'
<1>1. "rules_fallback" \in Makers(Item(t))
  BY DEF Makers
<1>2. (~Together(t)) \in BOOLEAN
  OBVIOUS
<1> QED
  BY <1>1, <1>2, DecideKeeps DEF FallBack

(* The model is waited for, loaded or run. *)
LEMMA MoveKeeps ==
    ASSUME NEW t \in Threads, AnswersInv, pc[t] \in Asking, NEW step \in WithModel,
           Go(t, step, at[t]), UNCHANGED <<cached, setting, job, answers, missed>>,
           Strategy(Item(t)) \in {"ml", "ensemble"}
    PROVE  AnswersInv'
<1>1. UnderWay(t)
  BY ItemOfThread DEF Asking, WithModel, Ends
<1>2. TablesInv' /\ Alone(t) /\ pc'[t] = step /\ at'[t] = at[t]
  BY DEF Go, AnswersInv, TablesInv, Alone, PCs, Asking
<1>3. \A k : HasIts(t, k)' <=> HasIts(t, k)
  BY DEF HasIts, Suited, Made, Fits, Suits, Makers, Strategy
<1>4. Strategy(Item(t))' = Strategy(Item(t)) /\ Positions(t)' = Positions(t)
  BY <1>2 DEF Strategy, Item, Positions
<1>5. UnderWay(t)'
  BY <1>1, <1>2, <1>3, <1>4 DEF UnderWay, Asking, WithModel
<1> QED
  BY <1>2, <1>5, CacheStays, StepKeeps DEF AnswersInv, ThreadInv, Ends, WithModel

-----------------------------------------------------------------------------
(* One lemma for each of the steps that ask the rules or the model.        *)

LEMMA AskKeeps ==
    ASSUME NEW t \in Threads, AnswersInv, Ask(t)
    PROVE  AnswersInv'
<1>1. /\ pc[t] \in Asking /\ UNCHANGED <<cached, setting>>
      /\ UnderWay(t)
  BY ItemOfThread DEF Ask, Asking, Ends
<1>2. CASE Strategy(Item(t)) = "rules" /\ Decide(t, "rules", FALSE, FALSE)
  <2>1. "rules" \in Makers(Item(t))
    BY <1>2 DEF Makers
  <2> QED
    BY <1>1, <1>2, <2>1, DecideKeeps
<1>3. CASE Strategy(Item(t)) \in {"ml", "ensemble"} /\ Consult(t)
  <2>1. CASE loaded
    <3>1. Go(t, "predict", at[t])
      BY <1>3, <2>1 DEF Consult
    <3> QED
      BY <1>1, <1>3, <3>1, MoveKeeps DEF Consult, WithModel
  <2>2. CASE ~loaded
    <3>1. Go(t, "await_lock", at[t])
      BY <1>3, <2>2 DEF Consult
    <3> QED
      BY <1>1, <1>3, <3>1, MoveKeeps DEF Consult, WithModel
  <2> QED
    BY <2>1, <2>2
<1>4. CASE Strategy(Item(t)) = "ml" /\ FallBack(t)
  BY <1>1, <1>4, FallBackKeeps
<1>5. CASE Raise(t)
  BY <1>1, <1>5, RaiseKeeps
<1>6. CASE Strategy(Item(t)) = "ensemble" /\ Decide(t, "ensemble", FALSE, TRUE)
  <2>1. "ensemble" \in Makers(Item(t))
    BY <1>6 DEF Makers
  <2> QED
    BY <1>1, <1>6, <2>1, DecideKeeps
<1> QED
  BY <1>2, <1>3, <1>4, <1>5, <1>6 DEF Ask

LEMMA ModelFailsKeeps ==
    ASSUME NEW t \in Threads, AnswersInv, pc[t] \in WithModel, ModelFails(t),
           UNCHANGED <<cached, setting>>
    PROVE  AnswersInv'
<1>1. pc[t] \in Asking /\ Strategy(Item(t)) \in {"ml", "ensemble"}
  BY ItemOfThread DEF Asking, WithModel, Ends, UnderWay
<1>2. CASE Strategy(Item(t)) = "ensemble" /\ Decide(t, "ensemble", FALSE, TRUE)
  <2>1. "ensemble" \in Makers(Item(t))
    BY <1>2 DEF Makers
  <2> QED
    BY <1>1, <1>2, <2>1, DecideKeeps
<1>3. CASE Strategy(Item(t)) = "ml" /\ FallBack(t)
  BY <1>1, <1>3, FallBackKeeps
<1>4. CASE Raise(t)
  BY <1>4, RaiseKeeps
<1> QED
  BY <1>1, <1>2, <1>3, <1>4 DEF ModelFails

LEMMA ModelStepsKeep ==
    ASSUME NEW t \in Threads, AnswersInv,
           TakeLock(t) \/ Loaded(t) \/ LoadFails(t) \/ Predicted(t) \/ PredictFails(t)
    PROVE  AnswersInv'
<1>1. pc[t] \in WithModel /\ UNCHANGED <<cached, setting>>
  BY DEF TakeLock, Loaded, LoadFails, Predicted, PredictFails, WithModel, guard
<1>2. pc[t] \in Asking /\ Strategy(Item(t)) \in {"ml", "ensemble"}
  BY <1>1, ItemOfThread DEF Asking, WithModel, Ends, UnderWay
<1>3. CASE TakeLock(t) \/ Loaded(t)
  <2>1. \E step \in WithModel : Go(t, step, at[t])
    BY <1>3 DEF TakeLock, Loaded, WithModel
  <2>2. UNCHANGED <<job, answers, missed>>
    BY <1>3 DEF TakeLock, Loaded
  <2> QED
    BY <1>1, <1>2, <2>1, <2>2, MoveKeeps
<1>4. CASE LoadFails(t) \/ PredictFails(t)
  BY <1>1, <1>4, ModelFailsKeeps DEF LoadFails, PredictFails
<1>5. CASE Predicted(t)
  <2>1. Strategy(Item(t)) \in Makers(Item(t)) /\ Decide(t, Strategy(Item(t)), TRUE, FALSE)
    BY <1>5 DEF Makers, Predicted
  <2> QED
    BY <1>1, <1>2, <2>1, DecideKeeps
<1> QED
  BY <1>3, <1>4, <1>5

-----------------------------------------------------------------------------
(* The decisions are stored, each under the key of its item.               *)

LEMMA StoreKeeps ==
    ASSUME NEW t \in Threads, AnswersInv, Store(t)
    PROVE  AnswersInv'
<1> DEFINE item == Item(t)
           answer == answers[t][at[t]]
           rest == {k \in missed[t] : k > at[t]}
<1>1. /\ pc[t] = "store" /\ cached' = [cached EXCEPT ![Key(item)] = answer]
      /\ UNCHANGED <<setting, job, answers>>
      /\ \/ rest = {} /\ End(t, "done")
         \/ rest # {} /\ Go(t, "store", LowestOf(rest)) /\ UNCHANGED missed
  BY DEF Store, Put
<1>2. /\ UnderWay(t) /\ item \in Items /\ item = job[t].items[at[t]]
      /\ missed[t] \in SUBSET Positions(t) /\ Positions(t) \subseteq Nat
      /\ at[t] \in Positions(t)
  BY <1>1, ItemOfThread DEF Ends, Item
<1>3. \A k \in Positions(t) : HasIts(t, k)
  BY <1>1, <1>2 DEF UnderWay
<1>4. \A k : HasIts(t, k) => HasIts(t, k)'
  <2>1. missed'[t] = {} \/ missed'[t] = missed[t]
    BY <1>1 DEF End, AnswersInv, TablesInv
  <2> QED
    BY <1>1, <2>1 DEF HasIts, Suited, Made, Fits, Suits, Makers, Strategy
<1>5. Positions(t)' = Positions(t)
  BY <1>1 DEF Positions
<1>6. CacheInv'
  <2>1. Suits(answer, item)
    BY <1>2, <1>3 DEF HasIts, Suited, Fits
  <2>2. Suits(answer, Key(item)) /\ Key(item) \in Keys
    BY <1>2, <2>1, KeyOfItem
  <2> HIDE DEF answer, item
  <2>3. \A key \in Keys : cached'[key] # Missing => Suits(cached'[key], key)
    BY <1>1, <2>2 DEF AnswersInv, CacheInv
  <2>4. cached' \in [Keys -> Decisions \cup {Missing}]
    BY <1>1, <2>2 DEF AnswersInv, CacheInv, Suits
  <2> QED
    BY <1>1, <2>3, <2>4 DEF CacheInv, Suits, Makers, Strategy
<1> HIDE DEF item, answer
<1>7. CASE End(t, "done")
  <2>1. TablesInv' /\ Alone(t) /\ pc'[t] = "done" /\ missed'[t] = {}
    BY <1>1, <1>7 DEF End, Go, AnswersInv, TablesInv, Alone, PCs, Ends
  <2>2. UnderWay(t)'
    BY <1>1, <1>2, <1>3, <1>4, <1>5, <2>1 DEF UnderWay, Asking, WithModel
  <2> QED
    BY <1>1, <1>6, <2>1, <2>2, StepKeeps DEF ThreadInv
<1>8. CASE rest # {} /\ Go(t, "store", LowestOf(rest)) /\ UNCHANGED missed
  <2>1. LowestOf(rest) \in rest
    BY <1>2, <1>8, LowestIsLowest
  <2>2. LowestOf(rest) \in missed[t] /\ LowestOf(rest) \in Nat
    BY <1>2, <2>1
  <2>3. /\ TablesInv' /\ Alone(t) /\ pc'[t] = "store" /\ at'[t] = LowestOf(rest)
        /\ missed'[t] = missed[t]
    BY <1>1, <1>8, <2>2 DEF Go, AnswersInv, TablesInv, Alone, PCs
  <2>4. UnderWay(t)'
    BY <1>1, <1>2, <1>3, <1>4, <1>5, <2>2, <2>3 DEF UnderWay, Asking, WithModel
  <2> QED
    BY <1>1, <1>6, <2>3, <2>4, StepKeeps DEF ThreadInv, Ends
<1> QED
  BY <1>1, <1>7, <1>8

-----------------------------------------------------------------------------
LEMMA AnswersInit == Init => AnswersInv
<1> SUFFICES ASSUME Init
             PROVE  AnswersInv
  OBVIOUS
<1>1. TablesInv
  BY DEF Init, TablesInv, PCs, Ends
<1>2. CacheInv
  BY DEF Init, GuardInit, CacheInv
<1>3. \A t \in Threads : ThreadInv(t)
  BY DEF Init, ThreadInv
<1> QED
  BY <1>1, <1>2, <1>3 DEF AnswersInv

LEMMA AnswersStep == AnswersInv /\ [Next]_vars => AnswersInv'
<1> SUFFICES ASSUME AnswersInv, [Next]_vars
             PROVE  AnswersInv'
  OBVIOUS
<1>1. CASE Passes \/ UNCHANGED vars
  <2>1. UNCHANGED <<cached, setting, pc, job, answers, at, missed>>
    BY <1>1 DEF Passes, Cool, vars, guard, threads
  <2>2. TablesInv' /\ CacheInv'
    BY <2>1, CacheStays DEF AnswersInv, TablesInv
  <2>3. ASSUME NEW t \in Threads
        PROVE  ThreadInv(t)'
    <3>1. \A k : HasIts(t, k)' <=> HasIts(t, k)
      BY <2>1 DEF HasIts, Suited, Made, Fits, Suits, Makers, Strategy
    <3>2. Strategy(Item(t))' = Strategy(Item(t)) /\ Positions(t)' = Positions(t)
      BY <2>1 DEF Strategy, Item, Positions
    <3>3. ThreadInv(t)
      BY DEF AnswersInv
    <3> QED
      BY <2>1, <3>1, <3>2, <3>3 DEF ThreadInv, UnderWay
  <2> QED
    BY <2>2, <2>3 DEF AnswersInv
<1>2. ASSUME NEW t \in Threads, Start(t) \/ Hit(t) \/ Miss(t) \/ Store(t) \/ Ask(t)
      PROVE  AnswersInv'
  BY <1>2, StartKeeps, HitKeeps, MissKeeps, StoreKeeps, AskKeeps
<1>3. ASSUME NEW t \in Threads,
             TakeLock(t) \/ Loaded(t) \/ LoadFails(t) \/ Predicted(t) \/ PredictFails(t)
      PROVE  AnswersInv'
  BY <1>3, ModelStepsKeep
<1>4. ASSUME NEW t \in Threads, Pushed(t)
      PROVE  AnswersInv'
  <2>1. Raise(t) /\ UNCHANGED <<cached, setting>>
    BY <1>4 DEF Pushed, guard
  <2> QED
    BY <2>1, RaiseKeeps
<1> QED
  BY <1>1, <1>2, <1>3, <1>4 DEF Next, Proceed

LEMMA AnswersSay == AnswersInv => DecisionsAreTrue
<1> SUFFICES ASSUME AnswersInv
             PROVE  DecisionsAreTrue
  OBVIOUS
<1>1. ASSUME NEW t \in Threads, pc[t] \in {"store", "done"}
      PROVE  /\ DOMAIN answers[t] = Positions(t)
             /\ job[t] \in Jobs
             /\ \A k \in Positions(t) : HasIts(t, k)
  BY <1>1 DEF AnswersInv, ThreadInv, UnderWay
<1>2. OwnDecisions
  <2> SUFFICES ASSUME NEW t \in Threads, pc[t] \in {"store", "done"},
                      NEW k \in DOMAIN job[t].items,
                      NEW item, item = job[t].items[k], NEW answer, answer = answers[t][k]
               PROVE  /\ answer # Missing
                      /\ SameFeatures(answer.features, item.features)
                      /\ answer.by \in Makers(item)
                      /\ item.name # "none" => answer.name = item.name
                      /\ k \in missed[t] =>
                            answer.features = item.features /\ answer.name = item.name
    BY DEF OwnDecisions
  <2>1. HasIts(t, k) /\ item \in Items
    BY <1>1, JobItems DEF Positions
  <2>2. /\ Fits(answer, item) /\ answer \in Decisions
        /\ k \in missed[t] => Made(answer, item)
    BY <2>1 DEF HasIts, Suited, Fits, Suits
  <2>3. answer.features \in Features /\ item.features \in Features
    BY <2>1, <2>2 DEF Decisions, Items
  <2>4. SameFeatures(answer.features, item.features)
    BY <2>2, <2>3, FingerprintOfFeatures DEF Fits, Suits
  <2> QED
    BY <2>2, <2>4, MissingIsNone DEF Fits, Suits, Made
<1>3. DegradedIsSaid
  BY <1>1 DEF DegradedIsSaid, HasIts, Suited, Fits, Suits, Says
<1> QED
  BY <1>2, <1>3 DEF DecisionsAreTrue

(* What an answer says of itself is true, fresh or cached, alone or in any *)
(* place of a batch: whose it is and how it was made.  A fresh one is on   *)
(* exactly the item's features; one from the cache may have taken a flag   *)
(* that is not known for one that is not set, as the fingerprint does.     *)
THEOREM AnswersAreHonest == Spec => []DecisionsAreTrue
BY AnswersInit, AnswersStep, AnswersSay, PTL DEF Spec

-----------------------------------------------------------------------------
(* The circuit, the lock of the model and the answers in their places.     *)

CircuitInv ==
    /\ circuit \in {"closed", "open", "half_open"}
    /\ failures \in 0..Threshold
    /\ circuit = "closed" <=> failures < Threshold

Filled(t) == answers[t] \in [Positions(t) -> Decisions \cup {Missing}]

ServiceInv ==
    /\ AnswersInv
    /\ CircuitInv
    /\ cooled \in BOOLEAN
    /\ lock \in Threads \cup {Nobody}
    /\ \A t \in Threads : Filled(t)

LEMMA BreakerKeeps ==
    ASSUME CircuitInv, cooled \in BOOLEAN, [Next]_vars
    PROVE  CircuitInv' /\ cooled' \in BOOLEAN
<1>1. \/ UNCHANGED breaker \/ Allow \/ RecordSuccess \/ RecordFailure \/ Cool
  <2>1. ASSUME NEW t \in Threads, ModelFails(t)
        PROVE  UNCHANGED breaker \/ RecordFailure
    BY <2>1 DEF ModelFails
  <2>2. ASSUME NEW t \in Threads, Start(t) \/ Proceed(t)
        PROVE  UNCHANGED breaker \/ Allow \/ RecordSuccess \/ RecordFailure
    BY <2>1, <2>2 DEF Start, Proceed, Hit, Miss, Pushed, Store, Ask, TakeLock, Loaded, LoadFails,
                      Predicted, PredictFails, guard, Refuse
  <2> QED
    BY <2>2 DEF Next, Passes, vars, guard
<1>2. CircuitInv'
  <2>1. CASE UNCHANGED breaker \/ Cool
    BY <2>1 DEF CircuitInv, breaker, Cool
  <2>2. CASE Allow
    BY <2>2 DEF CircuitInv, Allow
  <2>3. CASE RecordSuccess
    BY <2>3, GuardAssumption DEF CircuitInv, RecordSuccess
  <2>4. CASE RecordFailure
    BY <2>4, GuardAssumption DEF CircuitInv, RecordFailure
  <2> QED
    BY <1>1, <2>1, <2>2, <2>3, <2>4
<1>3. cooled' \in BOOLEAN
  <2>1. cooled' = cooled \/ cooled' = TRUE \/ cooled' = FALSE
    BY <1>1 DEF breaker, Cool, Allow, RecordSuccess, RecordFailure
  <2> QED
    BY <2>1, Zenon
<1> QED
  BY <1>2, <1>3

\* Every step of a thread is its own, and but for a failure its answers stand.
LEMMA OwnStep ==
    ASSUME NEW t \in Threads, AnswersInv, Start(t) \/ Proceed(t)
    PROVE  Alone(t) /\ (Raise(t) \/ pc'[t] \notin {"idle", "failed"})
<1> USE DEF AnswersInv, TablesInv, Alone, Go
<1>1. ASSUME Raise(t)
      PROVE  Alone(t)
  BY <1>1 DEF Raise, End
<1>2. ASSUME NEW by, NEW usedModel, NEW saysWhy, Decide(t, by, usedModel, saysWhy)
      PROVE  Alone(t) /\ pc'[t] \notin {"idle", "failed"}
  BY <1>2 DEF Decide
<1>3. ASSUME NEW misses, LookOn(t, misses), UNCHANGED job,
             \A u \in Threads \ {t} : answers'[u] = answers[u]
      PROVE  Alone(t) /\ pc'[t] \notin {"idle", "failed"}
  BY <1>3 DEF LookOn, End
<1>4. ASSUME NEW step \in WithModel, Go(t, step, at[t]), UNCHANGED <<job, answers, missed>>
      PROVE  Alone(t) /\ pc'[t] \notin {"idle", "failed"}
  BY <1>4 DEF WithModel
<1>5. ASSUME ModelFails(t)
      PROVE  Alone(t) /\ (Raise(t) \/ pc'[t] \notin {"idle", "failed"})
  BY <1>1, <1>2, <1>5 DEF ModelFails, FallBack
<1>6. CASE Start(t)
  BY <1>6 DEF Start
<1>7. CASE Hit(t) \/ Miss(t) \/ Pushed(t)
  BY <1>1, <1>3, <1>7 DEF Hit, Miss, Pushed
<1>8. CASE Store(t)
  BY <1>8 DEF Store, End
<1>9. CASE Ask(t)
  <2>1. CASE Consult(t)
    BY <1>4, <2>1 DEF Consult, WithModel
  <2> QED
    BY <1>1, <1>2, <1>9, <2>1 DEF Ask, FallBack
<1>10. CASE TakeLock(t) \/ Loaded(t)
  BY <1>4, <1>10 DEF TakeLock, Loaded, WithModel
<1>11. CASE LoadFails(t) \/ PredictFails(t) \/ Predicted(t)
  BY <1>2, <1>5, <1>11 DEF LoadFails, PredictFails, Predicted
<1> QED
  BY <1>6, <1>7, <1>8, <1>9, <1>10, <1>11 DEF Proceed

\* A thread that fails gives its job up, and its answers with it.
LEMMA FilledKeeps ==
    ASSUME NEW t \in Threads, AnswersInv, AnswersInv', Start(t) \/ Proceed(t),
           \A u \in Threads : Filled(u)
    PROVE  \A u \in Threads : Filled(u)'
<1>1. ASSUME Raise(t)
      PROVE  Filled(t)'
  <2>1. answers'[t] = <<>> /\ job'[t] = Nothing
    BY <1>1 DEF Raise, AnswersInv, TablesInv
  <2> QED
    BY <2>1 DEF Filled, Positions, Nothing
<1>2. pc'[t] \notin {"idle", "failed"} => Filled(t)'
  BY DEF AnswersInv, ThreadInv, UnderWay, Filled
<1>3. \A u \in Threads \ {t} : Filled(u)'
  BY OwnStep DEF Alone, Filled, Positions
<1> QED
  BY <1>1, <1>2, <1>3, OwnStep

LEMMA LockTyped ==
    ASSUME NEW t \in Threads, Start(t) \/ Proceed(t), lock \in Threads \cup {Nobody}
    PROVE  lock' \in Threads \cup {Nobody}
BY DEF Start, Proceed, Hit, Miss, Pushed, Store, Ask, TakeLock, Loaded, LoadFails,
       Predicted, PredictFails, model

LEMMA ServiceInit == Init => ServiceInv
<1> SUFFICES ASSUME Init
             PROVE  ServiceInv
  OBVIOUS
<1>1. CircuitInv
  BY GuardAssumption DEF Init, GuardInit, CircuitInv
<1>2. cooled \in BOOLEAN
  BY Zenon DEF Init, GuardInit
<1>3. ASSUME NEW t \in Threads
      PROVE  Filled(t)
  BY DEF Init, Nothing, Filled, Positions
<1> QED
  BY <1>1, <1>2, <1>3, AnswersInit DEF Init, ServiceInv

LEMMA ServiceStep == ServiceInv /\ [Next]_vars => ServiceInv'
<1> SUFFICES ASSUME ServiceInv, [Next]_vars
             PROVE  ServiceInv'
  OBVIOUS
<1>1. AnswersInv' /\ CircuitInv' /\ cooled' \in BOOLEAN
  BY AnswersStep, BreakerKeeps DEF ServiceInv
<1>2. CASE Passes \/ UNCHANGED vars
  <2>1. UNCHANGED <<lock, job, answers>>
    BY <1>2 DEF Passes, vars, threads, model
  <2> QED
    BY <1>1, <2>1 DEF ServiceInv, Filled, Positions
<1>3. ASSUME NEW t \in Threads, Start(t) \/ Proceed(t)
      PROVE  ServiceInv'
  BY <1>1, <1>3, FilledKeeps, LockTyped DEF ServiceInv
<1> QED
  BY <1>2, <1>3 DEF Next

LEMMA ServiceSays == ServiceInv => TypeOK
<1> SUFFICES ASSUME ServiceInv
             PROVE  TypeOK
  OBVIOUS
<1>1. ASSUME NEW t \in Threads
      PROVE  /\ Len(answers[t]) = Len(job[t].items)
             /\ \A k \in DOMAIN answers[t] : answers[t][k] \in Decisions \cup {Missing}
             /\ missed[t] \subseteq DOMAIN job[t].items
  <2>1. job[t] \in Jobs \/ job[t] = Nothing
    BY DEF ServiceInv, AnswersInv, TablesInv
  <2>2. Len(job[t].items) \in Nat /\ Positions(t) = 1..Len(job[t].items)
    BY <2>1, JobItems DEF Nothing, Positions
  <2>3. answers[t] \in [1..Len(job[t].items) -> Decisions \cup {Missing}]
    BY <2>2 DEF ServiceInv, Filled
  <2>4. missed[t] \subseteq Positions(t)
    BY DEF ServiceInv, AnswersInv, ThreadInv, UnderWay, Ends
  <2> QED
    BY <2>2, <2>3, <2>4 DEF Positions
<1>2. GuardTypeOK
  BY Zenon DEF ServiceInv, CircuitInv, GuardTypeOK
<1>3. \A key \in Keys : cached[key] \in Decisions \cup {Missing}
  BY DEF ServiceInv, AnswersInv, CacheInv
<1> QED
  BY <1>1, <1>2, <1>3 DEF ServiceInv, TypeOK

(* The breaker is closed exactly while it has room for a failure, however  *)
(* the threads that share it succeed and fail; what is cached, whoever put *)
(* it there, is a decision; and every answer has its place.                *)
THEOREM DecisionsAreTyped == Spec => []TypeOK
BY ServiceInit, ServiceStep, ServiceSays, PTL DEF Spec
=============================================================================
