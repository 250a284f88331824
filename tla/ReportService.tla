--------------------------- MODULE ReportService ---------------------------
(***************************************************************************)
(* ReportService (report/service.py) with its engine's storage fan-out     *)
(* (report/engine.py), the per-backend circuit breakers and the in-memory  *)
(* response cache (report/cache.py).  The routes are plain functions, so   *)
(* the server runs them on worker threads: every backend, breaker and lock *)
(* is shared, and the response cache is shared without any lock.           *)
(*                                                                         *)
(* A step is what a worker does between two moments at which another       *)
(* worker may see or change what it works on.                              *)
(***************************************************************************)
EXTENDS ReportStores

CONSTANTS
    Workers,        \* threads of the server's pool
    Fanout,         \* storage_backends: at least one, none of them twice
    Pins,           \* backends that a get may be pinned to
    CacheCap,       \* memory_cache_size of the response cache
    Threshold,      \* cb_failure_threshold
    Faulty,         \* backends whose calls may fail
    MaxJobs         \* bound of the model: jobs accepted in a behaviour

ASSUME ServiceAssumption ==
    /\ Fanout \in Seq(Backends) \ {<<>>}
    /\ \A j, k \in DOMAIN Fanout : Fanout[j] = Fanout[k] => j = k
    /\ Pins \subseteq {Fanout[k] : k \in DOMAIN Fanout}
    /\ CacheCap \in Nat \ {0}
    /\ Threshold \in Nat \ {0}
    /\ Faulty \subseteq {"local", "s3"}

VARIABLES
    cache,          \* entries [key, id, results], the least recently used first
    circuit,        \* state of each backend's breaker
    failures,       \* _failures of each, saturated at Threshold
    pc,             \* what a worker does next, "idle" between jobs
    job,            \* [kind, id, content, route]: what it is asked to do
    at,             \* the position in its route
    results,        \* what each backend it has dealt with answered
    reply,          \* what it answers; "none" until it has ended
    touched,        \* history: backends others changed the report of since the start
    jobs            \* jobs accepted so far

shared  == <<stores, cache, circuit, failures>>
workers == <<pc, job, at, results, reply>>
vars    == <<shared, workers, touched, jobs>>

Nowhere == <<>>

NoJob == [kind |-> "none", id |-> "none", content |-> NoContent, route |-> Nowhere]

Asked ==
    {[kind |-> "generate", id |-> i, content |-> c, route |-> r] :
        i \in Ids, c \in Contents, r \in {Fanout, Nowhere}}
    \cup {[kind |-> "get", id |-> i, content |-> NoContent, route |-> r] :
        i \in Ids, r \in {Fanout} \cup {<<b>> : b \in Pins}}
    \cup {[kind |-> "delete", id |-> i, content |-> NoContent, route |-> Fanout] : i \in Ids}

Init ==
    /\ StoresInit
    /\ cache = <<>>
    /\ circuit = [b \in Backends |-> "closed"]
    /\ failures = [b \in Backends |-> 0]
    /\ pc = [w \in Workers |-> "idle"]
    /\ job = [w \in Workers |-> NoJob]
    /\ at = [w \in Workers |-> 0]
    /\ results = [w \in Workers |-> <<>>]
    /\ reply = [w \in Workers |-> [status |-> "none"]]
    /\ touched = [w \in Workers |-> {}]
    /\ jobs = 0

Backend(w) == job[w].route[at[w]]
Last(w) == at[w] >= Len(job[w].route)

Goto(w, step) == pc' = [pc EXCEPT ![w] = step]

\* The worker's job is done.
Answer(w, r) ==
    /\ Goto(w, "idle")
    /\ reply' = [reply EXCEPT ![w] = r]

Error == [status |-> "error"]

\* Worker w changed what backend b keeps under the given ids.
Touch(w, b, ids) ==
    touched' = [v \in Workers |->
        IF v # w /\ job[v].id \in ids THEN touched[v] \cup {b} ELSE touched[v]]

Accept(w) ==
    /\ pc[w] = "idle"
    /\ jobs < MaxJobs
    /\ jobs' = jobs + 1
    /\ \E j \in Asked :
          /\ job' = [job EXCEPT ![w] = j]
          /\ Goto(w, CASE j.kind = "generate" -> "lookup"
                       [] j.kind = "get" -> "search"
                       [] j.kind = "delete" -> "remove")
    /\ at' = [at EXCEPT ![w] = 1]
    /\ results' = [results EXCEPT ![w] = <<>>]
    /\ reply' = [reply EXCEPT ![w] = [status |-> "none"]]
    /\ touched' = [touched EXCEPT ![w] = {}]
    /\ UNCHANGED shared

-----------------------------------------------------------------------------
(* generate: look the request up by its fingerprint, which is its content  *)
(* and neither its id nor its store flag.                                  *)

Keyed(key) == {k \in DOMAIN cache : cache[k].key = key}
Entries(key) == {cache[k] : k \in Keyed(key)}

\* move_to_end.
Moved(key) == Append(Without(cache, Keyed(key)), cache[CHOOSE k \in Keyed(key) : TRUE])

Hit(w) ==
    /\ pc[w] = "lookup"
    /\ \E e \in Entries(job[w].content) :
          reply' = [reply EXCEPT ![w] =
              [status |-> "none", cached |-> TRUE, id |-> e.id, results |-> e.results]]
    /\ Goto(w, "promote")
    /\ UNCHANGED <<shared, job, at, results, touched, jobs>>

\* move_to_end: a KeyError if the entry has been pushed out since it was read.
Promote(w) ==
    /\ pc[w] = "promote"
    /\ LET key == job[w].content
       IN  IF Entries(key) = {}
           THEN Answer(w, Error) /\ UNCHANGED cache
           ELSE /\ cache' = Moved(key)
                /\ Answer(w, [reply[w] EXCEPT !.status = "report"])
    /\ UNCHANGED <<stores, circuit, failures, job, at, results, touched, jobs>>

AfterRendering(w) == IF job[w].route = Nowhere THEN "insert" ELSE "ask"

Render(w) ==
    /\ pc[w] = "lookup"
    /\ Entries(job[w].content) = {}
    /\ \/ Goto(w, AfterRendering(w)) /\ UNCHANGED reply
       \/ Answer(w, Error)
    /\ UNCHANGED <<shared, job, at, results, touched, jobs>>

-----------------------------------------------------------------------------
(* _persist: every backend in turn, whatever became of the ones before.    *)

\* Mutant: the fan-out stops at the first backend that fails.
Proceed_StopsAtFailure(w, outcome) ==
    /\ results' = [results EXCEPT ![w] = Append(@, outcome)]
    /\ at' = [at EXCEPT ![w] = @ + 1]
    /\ Goto(w, IF Last(w) \/ outcome = "failed" THEN "insert" ELSE "ask")

Proceed(w, outcome) ==
    /\ results' = [results EXCEPT ![w] = Append(@, outcome)]
    /\ at' = [at EXCEPT ![w] = @ + 1]
    /\ Goto(w, IF Last(w) THEN "insert" ELSE "ask")

\* allow(): an open circuit half-opens if recovery_seconds have passed.
Ask(w) ==
    /\ pc[w] = "ask"
    /\ circuit' = [circuit EXCEPT ![Backend(w)] = IF @ = "open" THEN "half_open" ELSE @]
    /\ Goto(w, "put")
    /\ UNCHANGED <<stores, cache, failures, job, at, results, reply, touched, jobs>>

Skip(w) ==
    /\ pc[w] = "ask"
    /\ circuit[Backend(w)] = "open"
    /\ Proceed(w, "skipped")
    /\ UNCHANGED <<shared, job, reply, touched, jobs>>

RecordSuccess(b) ==
    /\ failures' = [failures EXCEPT ![b] = 0]
    /\ circuit' = [circuit EXCEPT ![b] = "closed"]

RecordFailure(b) ==
    LET count == IF failures[b] < Threshold THEN failures[b] + 1 ELSE Threshold
    IN  /\ failures' = [failures EXCEPT ![b] = count]
        /\ circuit' = [circuit EXCEPT ![b] =
                IF @ = "half_open" \/ count >= Threshold THEN "open" ELSE @]

\* What a put does while it holds the disk's lock.
Writing == {"body", "described", "sidecar"}
DiskLockFree == \A w \in Workers : pc[w] \notin Writing

Writes(w, step) ==
    /\ Touch(w, "local", Sharing(job[w].id))
    /\ Goto(w, step)
    /\ UNCHANGED <<cache, circuit, failures, job, at, results, reply, jobs>>

Stored(w) ==
    /\ RecordSuccess(Backend(w))
    /\ Proceed(w, "stored")

Put(w) ==
    /\ pc[w] = "put"
    /\ \/ /\ Backend(w) = "memory"
          /\ MemoryPut(job[w].id, job[w].content)
          /\ touched' = [v \in Workers |->
                IF v # w /\ job[v].id \in {job[w].id} \cup PushedOut(job[w].id)
                THEN touched[v] \cup {"memory"} ELSE touched[v]]
       \/ /\ Backend(w) = "s3"
          /\ BucketPut(job[w].id, job[w].content)
          /\ Touch(w, "s3", {job[w].id})
    /\ Stored(w)
    /\ UNCHANGED <<cache, job, reply, jobs>>

PutOpens(w) ==
    /\ pc[w] = "put"
    /\ Backend(w) = "local"
    /\ DiskLockFree
    /\ OpenBody(job[w].id, job[w].content)
    /\ Writes(w, "body")

\* Mutant: the put is reported as done when the body is written.
PutBody_IsDone(w) ==
    /\ pc[w] = "body"
    /\ WriteBody(job[w].id, job[w].content)
    /\ Touch(w, "local", Sharing(job[w].id))
    /\ Stored(w)
    /\ UNCHANGED <<cache, job, reply, jobs>>

PutBody(w) ==
    /\ pc[w] = "body"
    /\ WriteBody(job[w].id, job[w].content)
    /\ Writes(w, "described")

PutDescribes(w) ==
    /\ pc[w] = "described"
    /\ OpenSidecar(job[w].id)
    /\ Writes(w, "sidecar")

PutSidecar(w) ==
    /\ pc[w] = "sidecar"
    /\ WriteSidecar(job[w].id, job[w].content)
    /\ Touch(w, "local", Sharing(job[w].id))
    /\ Stored(w)
    /\ UNCHANGED <<cache, job, reply, jobs>>

\* StorageFailedError, StorageUnavailableError or anything else: the directory
\* is not writable, S3 raises, or a file cannot be opened or written to the end.
\* What has been opened stays as it is.
PutFails(w) ==
    /\ pc[w] \in {"put"} \cup Writing
    /\ Backend(w) \in Faulty
    /\ RecordFailure(Backend(w))
    /\ Proceed(w, "failed")
    /\ UNCHANGED <<stores, cache, job, reply, touched, jobs>>

-----------------------------------------------------------------------------
(* cache.set, with no lock: insert, move_to_end, and pop while too long.   *)

Made(w) ==
    Answer(w, [status |-> "report", cached |-> FALSE, id |-> job[w].id, results |-> results[w]])

Insert(w) ==
    /\ pc[w] = "insert"
    /\ LET e == [key |-> job[w].content, id |-> job[w].id, results |-> results[w]]
       IN  cache' = IF Entries(e.key) = {} THEN Append(cache, e)
                    ELSE [k \in DOMAIN cache |-> IF cache[k].key = e.key THEN e ELSE cache[k]]
    /\ Goto(w, "refresh")
    /\ UNCHANGED <<stores, circuit, failures, job, at, results, reply, touched, jobs>>

\* Mutant: the cache may hold one entry too many.
TooLong_OffByOne(entries) == Len(entries) > CacheCap + 1

TooLong(entries) == Len(entries) > CacheCap

Trim(w, entries) ==
    /\ cache' = entries
    /\ IF TooLong(entries) THEN Goto(w, "trim") /\ UNCHANGED reply ELSE Made(w)

Refresh(w) ==
    /\ pc[w] = "refresh"
    /\ LET key == job[w].content
       IN  IF Entries(key) = {}
           THEN Answer(w, Error) /\ UNCHANGED cache
           ELSE Trim(w, Moved(key))
    /\ UNCHANGED <<stores, circuit, failures, job, at, results, touched, jobs>>

PopOldest(w) ==
    /\ pc[w] = "trim"
    /\ IF cache = <<>> THEN Answer(w, Error) /\ UNCHANGED cache
       ELSE Trim(w, Tail(cache))
    /\ UNCHANGED <<stores, circuit, failures, job, at, results, touched, jobs>>

-----------------------------------------------------------------------------
(* get_report: the first backend whose exists() says yes must deliver.     *)

NotFound == [status |-> "not_found"]

Found(w, content, checksum) ==
    Answer(w, [status |-> "found", backend |-> Backend(w),
               content |-> content, checksum |-> checksum])

\* A backend that is not available is passed over, one of S3 that fails to answer too.
Search(w) ==
    /\ pc[w] = "search"
    /\ \/ /\ Exists(Backend(w), job[w].id)
          /\ Goto(w, "read")
          /\ UNCHANGED <<at, reply>>
       \/ /\ ~Exists(Backend(w), job[w].id) \/ Backend(w) \in Faulty
          /\ IF Last(w) THEN Answer(w, NotFound) /\ UNCHANGED at
             ELSE at' = [at EXCEPT ![w] = @ + 1] /\ UNCHANGED <<pc, reply>>
    /\ UNCHANGED <<shared, job, results, touched, jobs>>

ReadMemory(w) ==
    /\ pc[w] = "read" /\ Backend(w) = "memory"
    /\ IF InMemory(job[w].id)
       THEN \E c \in Served("memory", job[w].id) : MemoryGet(job[w].id, c) /\ Found(w, c, c)
       ELSE Answer(w, NotFound) /\ UNCHANGED stores
    /\ UNCHANGED <<cache, circuit, failures, job, at, results, touched, jobs>>

ReadBucket(w) ==
    /\ pc[w] = "read" /\ Backend(w) = "s3"
    /\ IF Objects(job[w].id) = {} THEN Answer(w, NotFound)
       ELSE LET c == FirstObject(job[w].id) IN Found(w, c, c)
    /\ UNCHANGED <<shared, job, at, results, touched, jobs>>

\* A sidecar that is no JSON is a StorageFailedError.
ReadSidecar(w) ==
    /\ pc[w] = "read" /\ Backend(w) = "local"
    /\ IF ~OnDisk(job[w].id) THEN Answer(w, NotFound) /\ UNCHANGED results
       ELSE IF ~Readable(job[w].id) THEN Answer(w, Error) /\ UNCHANGED results
       ELSE /\ results' = [results EXCEPT ![w] = <<sidecar[FileOf[job[w].id]]>>]
            /\ Goto(w, "open")
            /\ UNCHANGED reply
    /\ UNCHANGED <<shared, job, at, touched, jobs>>

\* The file of the format the sidecar named, whatever it holds by now.
Open(w) ==
    /\ pc[w] = "open"
    /\ LET described == results[w][1]
           content == body[FileOf[job[w].id]][FormatOf[described]]
       IN  IF content = NoContent THEN Answer(w, NotFound) ELSE Found(w, content, described)
    /\ UNCHANGED <<shared, job, at, results, touched, jobs>>

\* StorageFailedError, or an error of boto3 that nobody expects.
ReadFails(w) ==
    /\ pc[w] \in {"search", "read", "open"}
    /\ Backend(w) \in Faulty
    /\ Answer(w, Error)
    /\ UNCHANGED <<shared, job, at, results, touched, jobs>>

-----------------------------------------------------------------------------
(* delete_report: every backend in turn.                                   *)

Removed(w, outcome) ==
    /\ results' = [results EXCEPT ![w] = Append(@, outcome)]
    /\ at' = [at EXCEPT ![w] = @ + 1]
    /\ IF Last(w) THEN Answer(w, [status |-> "deleted"])
       ELSE Goto(w, "remove") /\ UNCHANGED reply

RemoveEntry(w) ==
    /\ pc[w] = "remove" /\ Backend(w) = "memory"
    /\ MemoryDelete(job[w].id)
    /\ Touch(w, "memory", {job[w].id})
    /\ Removed(w, IF InMemory(job[w].id) THEN "removed" ELSE "not_removed")
    /\ UNCHANGED <<cache, circuit, failures, job, jobs>>

\* A ClientError is passed over; any other error ends the request.
RemoveObjects(w) ==
    /\ pc[w] = "remove" /\ Backend(w) = "s3"
    /\ \E gone \in (IF "s3" \in Faulty THEN SUBSET Extensions ELSE {Extensions}) :
          /\ BucketDelete(job[w].id, gone)
          /\ \/ Removed(w, IF gone = {} THEN "not_removed" ELSE "removed")
             \/ "s3" \in Faulty /\ Answer(w, Error) /\ UNCHANGED <<at, results>>
    /\ Touch(w, "s3", {job[w].id})
    /\ UNCHANGED <<cache, circuit, failures, job, jobs>>

\* The sidecar is looked for before the lock is taken.
FindFiles(w) ==
    /\ pc[w] = "remove" /\ Backend(w) = "local"
    /\ \/ /\ OnDisk(job[w].id)
          /\ Goto(w, "unlink")
          /\ UNCHANGED <<results, at, reply>>
       \/ /\ ~OnDisk(job[w].id) \/ "local" \in Faulty
          /\ Removed(w, "not_removed")
    /\ UNCHANGED <<shared, job, touched, jobs>>

\* Mutant: removed is set before the files are unlinked.
RemoveFiles_Optimistic(w) ==
    /\ pc[w] = "unlink"
    /\ DiskLockFree
    /\ \/ /\ Unlink(job[w].id)
          /\ Touch(w, "local", Sharing(job[w].id))
       \/ /\ "local" \in Faulty \/ ~OnDisk(job[w].id)
          /\ UNCHANGED <<stores, touched>>
    /\ Removed(w, "removed")
    /\ UNCHANGED <<cache, circuit, failures, job, jobs>>

\* An OSError, the sidecar gone since it was looked for included, is logged.
RemoveFiles(w) ==
    /\ pc[w] = "unlink"
    /\ DiskLockFree
    /\ \/ /\ Unlink(job[w].id)
          /\ Touch(w, "local", Sharing(job[w].id))
          /\ Removed(w, "removed")
       \/ /\ "local" \in Faulty \/ ~OnDisk(job[w].id)
          /\ Removed(w, "not_removed")
          /\ UNCHANGED <<stores, touched>>
    /\ UNCHANGED <<cache, circuit, failures, job, jobs>>

\* A sidecar that is no JSON: the JSONDecodeError ends the request.
RemoveUnreadable(w) ==
    /\ pc[w] = "unlink"
    /\ DiskLockFree
    /\ OnDisk(job[w].id) /\ ~Readable(job[w].id)
    /\ Answer(w, Error)
    /\ UNCHANGED <<shared, job, at, results, touched, jobs>>

-----------------------------------------------------------------------------
(* The process dies, whatever it was at, and is started again: only disk   *)
(* and bucket are left.                                                    *)
Restart ==
    /\ memory' = <<>> /\ cache' = <<>>
    /\ circuit' = [b \in Backends |-> "closed"]
    /\ failures' = [b \in Backends |-> 0]
    /\ pc' = [w \in Workers |-> "idle"]
    /\ job' = [w \in Workers |-> NoJob]
    /\ at' = [w \in Workers |-> 0]
    /\ results' = [w \in Workers |-> <<>>]
    /\ reply' = [w \in Workers |-> [status |-> "none"]]
    /\ touched' = [w \in Workers |-> {}]
    /\ UNCHANGED <<disk, bucket, jobs>>

-----------------------------------------------------------------------------
Next ==
    \/ Restart
    \/ \E w \in Workers :
        \/ Accept(w)
        \/ Hit(w) \/ Promote(w) \/ Render(w)
        \/ Ask(w) \/ Skip(w) \/ Put(w) \/ PutFails(w)
        \/ PutOpens(w) \/ PutBody(w) \/ PutDescribes(w) \/ PutSidecar(w)
        \/ Insert(w) \/ Refresh(w) \/ PopOldest(w)
        \/ Search(w) \/ ReadMemory(w) \/ ReadBucket(w) \/ ReadSidecar(w) \/ Open(w) \/ ReadFails(w)
        \/ RemoveEntry(w) \/ RemoveObjects(w)
        \/ FindFiles(w) \/ RemoveFiles(w) \/ RemoveUnreadable(w)

Spec == Init /\ [][Next]_vars

-----------------------------------------------------------------------------
Steps == {"idle", "lookup", "promote", "ask", "put", "insert", "refresh",
          "trim", "search", "read", "open", "remove", "unlink"} \cup Writing

Outcomes == {"stored", "failed", "skipped", "removed", "not_removed"}

(* The unlocked LRU is longer than its capacity by no more than the        *)
(* threads that have inserted and not yet trimmed: it is bounded at rest.  *)
CacheIsBounded ==
    Len(cache) <= CacheCap + Cardinality({w \in Workers : pc[w] \in {"refresh", "trim"}})

(* Types of what the workers share; a backend's circuit is closed exactly  *)
(* while fewer writes than the threshold have failed in a row, in whatever *)
(* order threads report them.                                              *)
TypeOK ==
    /\ Len(memory) <= MemoryCap
    /\ \A k \in DOMAIN memory : memory[k] \in [id : Ids, content : Contents]
    /\ body \in [Names -> [Extensions -> Contents \cup {NoContent, Damaged}]]
    /\ sidecar \in [Names -> Contents \cup {NoContent, Damaged}]
    /\ unsettled \subseteq Names
    /\ bucket \in [Ids -> [Extensions -> Contents \cup {NoContent}]]
    /\ \A k \in DOMAIN cache : cache[k].key \in Contents /\ cache[k].id \in Ids
    /\ circuit \in [Backends -> {"closed", "open", "half_open"}]
    /\ failures \in [Backends -> 0..Threshold]
    /\ \A b \in Backends : (circuit[b] = "closed") <=> (failures[b] < Threshold)
    /\ pc \in [Workers -> Steps]
    /\ \A w \in Workers : pc[w] # "idle" => at[w] \in 1..Len(Fanout) + 1
    /\ CacheIsBounded

\* Backend b holds content c under i, whatever else it may hold there.
Holds(b, i, c) ==
    \/ b = "memory" /\ c \in Served(b, i)
    \/ b = "local" /\ sidecar[FileOf[i]] = c /\ Served(b, i) = {c}
    \/ b = "s3" /\ bucket[i][FormatOf[c]] = c

(* StorageResult.success: a backend that a response, or a fan-out under    *)
(* way, lists as stored holds that very report, on disk with its sidecar,  *)
(* until somebody else stores or deletes under the same id (or, on disk,   *)
(* under one with the same file name), or the memory backend makes room.   *)
SuccessMeansHeld ==
    \A w \in Workers : \A k \in DOMAIN results[w] :
        job[w].kind = "generate" /\ results[w][k] = "stored" =>
            \/ job[w].route[k] \in touched[w]
            \/ Holds(job[w].route[k], job[w].id, job[w].content)

(* A report that was to be stored answers for every backend, however many  *)
(* of them failed or were skipped; and what the cache hands out is such a  *)
(* complete response (or one of a request that stored nothing), never one  *)
(* whose fan-out was still under way.                                      *)
EveryBackendAnswers ==
    \A w \in Workers : reply[w].status = "report" =>
        /\ Len(reply[w].results) \in {0, Len(Fanout)}
        /\ ~reply[w].cached => Len(reply[w].results) = Len(job[w].route)

(* delete(): "return True if something was removed".  Once memory or disk  *)
(* has said so, it serves no report under that id until somebody stores    *)
(* there again, on disk under any id with the same file name.  (S3 says so *)
(* of a key that was not there to be deleted.)                             *)
DeletedIsGone ==
    \A w \in Workers : \A k \in DOMAIN results[w] :
        job[w].kind = "delete" /\ results[w][k] = "removed" =>
            \/ job[w].route[k] \in touched[w] \cup {"s3"}
            \/ Served(job[w].route[k], job[w].id) = {}

(* get() reads the sidecar and then the file, under no lock.  The checksum *)
(* and the content it returns are those of one report, unless somebody     *)
(* wrote the files meanwhile, or their last put failed or was cut short by *)
(* a crash and nobody has stored or deleted under that file name since.    *)
FoundIsWhole ==
    \A w \in Workers : reply[w].status = "found" /\ reply[w].content # reply[w].checksum =>
        /\ reply[w].backend = "local"
        /\ "local" \in touched[w] \/ FileOf[job[w].id] \in unsettled

(* What the service says of its backends is so: of every one of them, of   *)
(* the reports it says are stored, of those it says are removed, and of    *)
(* those it hands out.                                                     *)
AnswersAreTrue == SuccessMeansHeld /\ EveryBackendAnswers /\ DeletedIsGone /\ FoundIsWhole
=============================================================================
