---------------------------- MODULE ReportStores ----------------------------
(***************************************************************************)
(* The three places a rendered report is kept (report/storage): an LRU map *)
(* in memory, one file and a JSON sidecar on disk, one object per format   *)
(* in a bucket.  An operation below is what one uninterrupted piece of a   *)
(* backend's method does; what a caller may see between two such pieces is *)
(* the business of ReportService.                                          *)
(*                                                                         *)
(* Memory and bucket go by the id of a report.  The disk goes by a file    *)
(* name that is made of it (_safe_id), which several ids may share.        *)
(***************************************************************************)
EXTENDS Sequences, FiniteSets, Integers

Seqs == INSTANCE SequencesExt

CONSTANTS
    Ids,            \* report ids
    FileOf,         \* _safe_id: the file name of an id, the same for "a.b" and "a_b"
    Contents,       \* rendered reports: the same one has the same checksum
    Formats,        \* the extensions, in the order S3 tries them
    FormatOf,       \* the extension of a rendered report
    MemoryCap,      \* capacity of the memory backend
    NoContent,      \* where there is no report
    Damaged         \* what a write leaves in a file until, or unless, it ends

ASSUME StoresAssumption ==
    /\ Formats \in Seq(STRING)
    /\ FormatOf \in [Contents -> {Formats[k] : k \in DOMAIN Formats}]
    /\ MemoryCap \in Nat \ {0}
    /\ DOMAIN FileOf = Ids
    /\ NoContent \notin Contents /\ Damaged \notin Contents \cup {NoContent}

VARIABLES
    memory,         \* entries [id, content], the least recently used first
    body,           \* body[n][f]: what the file n.f holds
    sidecar,        \* sidecar[n]: the report that n.meta.json describes
    unsettled,      \* history: file names whose last put has not ended, or not well
    bucket          \* bucket[i][f]: the object i.f, with its own checksum

disk == <<body, sidecar, unsettled>>
stores == <<memory, disk, bucket>>

Extensions == {Formats[k] : k \in DOMAIN Formats}

Backends == {"memory", "local", "s3"}

Names == {FileOf[i] : i \in Ids}

\* The ids that share the file name of i.
Sharing(i) == {j \in Ids : FileOf[j] = FileOf[i]}

StoresInit ==
    /\ memory = <<>>
    /\ body = [n \in Names |-> [f \in Extensions |-> NoContent]]
    /\ sidecar = [n \in Names |-> NoContent]
    /\ unsettled = {}
    /\ bucket = [i \in Ids |-> [f \in Extensions |-> NoContent]]

-----------------------------------------------------------------------------
(* Memory.                                                                 *)

\* An ordered table without its entry of one key, which is at one of the places, if any.
Without(entries, places) ==
    IF places = {} THEN entries ELSE Seqs!RemoveAt(entries, CHOOSE k \in places : TRUE)

Places(i) == {k \in DOMAIN memory : memory[k].id = i}
InMemory(i) == Places(i) # {}

\* The entries of other reports.
Rest(i) == Without(memory, Places(i))

\* The entry a put pushes out, if any.
PushedOut(i) == IF Len(Rest(i)) < MemoryCap THEN {} ELSE {Rest(i)[1].id}

\* Mutant: the store grows to one entry more than its capacity.
MemoryPut_OffByOne(i, c) ==
    LET entries == Append(Rest(i), [id |-> i, content |-> c])
    IN  /\ memory' = IF Len(entries) > MemoryCap + 1 THEN Tail(entries) ELSE entries
        /\ UNCHANGED <<disk, bucket>>

MemoryPut(i, c) ==
    LET entries == Append(Rest(i), [id |-> i, content |-> c])
    IN  /\ memory' = IF Len(entries) > MemoryCap THEN Tail(entries) ELSE entries
        /\ UNCHANGED <<disk, bucket>>

MemoryGet(i, c) ==
    /\ [id |-> i, content |-> c] \in {memory[k] : k \in DOMAIN memory}
    /\ memory' = Append(Rest(i), [id |-> i, content |-> c])
    /\ UNCHANGED <<disk, bucket>>

MemoryDelete(i) ==
    /\ memory' = Rest(i)
    /\ UNCHANGED <<disk, bucket>>

-----------------------------------------------------------------------------
(* Disk.  A put opens and writes the file and then the sidecar, each of    *)
(* which is empty in between; a file of the same report in another format  *)
(* stays behind.                                                           *)

OpenBody(i, c) ==
    /\ body' = [body EXCEPT ![FileOf[i]][FormatOf[c]] = Damaged]
    /\ unsettled' = unsettled \cup {FileOf[i]}
    /\ UNCHANGED <<memory, sidecar, bucket>>

WriteBody(i, c) ==
    /\ body' = [body EXCEPT ![FileOf[i]][FormatOf[c]] = c]
    /\ UNCHANGED <<memory, sidecar, unsettled, bucket>>

OpenSidecar(i) ==
    /\ sidecar' = [sidecar EXCEPT ![FileOf[i]] = Damaged]
    /\ UNCHANGED <<memory, body, unsettled, bucket>>

WriteSidecar(i, c) ==
    /\ sidecar' = [sidecar EXCEPT ![FileOf[i]] = c]
    /\ unsettled' = unsettled \ {FileOf[i]}
    /\ UNCHANGED <<memory, body, bucket>>

OnDisk(i) == sidecar[FileOf[i]] # NoContent
Readable(i) == sidecar[FileOf[i]] \in Contents

\* Both files, or only the first when the second cannot be removed.
Unlink(i) ==
    /\ Readable(i)
    /\ body' = [body EXCEPT ![FileOf[i]][FormatOf[sidecar[FileOf[i]]]] = NoContent]
    /\ \/ /\ sidecar' = [sidecar EXCEPT ![FileOf[i]] = NoContent]
          /\ unsettled' = unsettled \ {FileOf[i]}
       \/ body # body' /\ UNCHANGED <<sidecar, unsettled>>
    /\ UNCHANGED <<memory, bucket>>

-----------------------------------------------------------------------------
(* Bucket.  Nothing but its key tells the objects of one report apart.     *)

BucketPut(i, c) ==
    /\ bucket' = [bucket EXCEPT ![i][FormatOf[c]] = c]
    /\ UNCHANGED <<memory, disk>>

Objects(i) == {k \in DOMAIN Formats : bucket[i][Formats[k]] # NoContent}

\* get tries the formats in their order, whatever was put last.
FirstObject(i) ==
    bucket[i][Formats[CHOOSE k \in Objects(i) : \A j \in Objects(i) : k <= j]]

\* Every key of the report is deleted, present or not; some calls may fail.
BucketDelete(i, gone) ==
    /\ bucket' = [bucket EXCEPT ![i] =
                    [f \in Extensions |-> IF f \in gone THEN NoContent ELSE @[f]]]
    /\ UNCHANGED <<memory, disk>>

-----------------------------------------------------------------------------
Exists(b, i) ==
    \/ b = "memory" /\ InMemory(i)
    \/ b = "local" /\ OnDisk(i)
    \/ b = "s3" /\ Objects(i) # {}

\* What backend b would serve under i.
Served(b, i) ==
    CASE b = "memory" -> {memory[k].content : k \in {j \in DOMAIN memory : memory[j].id = i}}
      [] b = "local" -> IF Readable(i)
                        THEN {body[FileOf[i]][FormatOf[sidecar[FileOf[i]]]]} \ {NoContent} ELSE {}
      [] b = "s3" -> IF Objects(i) = {} THEN {} ELSE {FirstObject(i)}
=============================================================================
