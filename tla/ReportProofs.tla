---------------------------- MODULE ReportProofs ----------------------------
(***************************************************************************)
(* Proofs about the report service, for any number of worker threads, jobs *)
(* and reports: what it says of its backends is so, and its unlocked cache *)
(* stays bounded.  And about the content of a report: the four renderers   *)
(* agree on it.                                                            *)
(***************************************************************************)
EXTENDS ReportService, ReportContent, FiniteSetTheorems, SequenceTheorems, TLAPS

(* Whatever is in an order, the four renderers agree on it. *)
LEMMA RenderersAgree == FormatsAgree
<1> SUFFICES ASSUME NEW t \in Templates, NEW f \in ReportFormats
             PROVE  /\ \A fact \in Matters :
                          Tells(f, t, order, fact) <=> Tells("markdown", t, order, fact)
                    /\ \A fact \in {"rules", "closing"} :
                          f # "json" => (Tells(f, t, order, fact) <=> Tells("markdown", t, order, fact))
                    /\ Tells(f, t, order, "rules") => order.trace
  BY DEF FormatsAgree
<1>1. ASSUME NEW fact \in Matters
      PROVE  Tells(f, t, order, fact) <=> Tells("markdown", t, order, fact)
  <2>1. MarkdownTells(t, order, fact) <=> HtmlTells(t, order, fact)
    BY DEF Matters, MarkdownTells, MarkdownEnding, HtmlTells
  <2>2. MarkdownTells(t, order, fact) <=> TextTells(t, order, fact)
    BY DEF Matters, MarkdownTells, MarkdownEnding, TextTells
  <2>3. MarkdownTells(t, order, fact) <=> JsonTells(t, order, fact)
    BY DEF Matters, MarkdownTells, MarkdownEnding, JsonTells, Wants, SectionsOf
  <2> QED
    BY <2>1, <2>2, <2>3 DEF Tells, ReportFormats
<1>2. ASSUME NEW fact \in {"rules", "closing"}, f # "json"
      PROVE  Tells(f, t, order, fact) <=> Tells("markdown", t, order, fact)
  BY <1>2 DEF Tells, ReportFormats, MarkdownTells, MarkdownEnding, HtmlTells, TextTells
<1>3. Tells(f, t, order, "rules") => order.trace
  BY DEF Tells, ReportFormats, MarkdownTells, MarkdownEnding, HtmlTells, TextTells, JsonTells
<1> QED
  BY <1>1, <1>2, <1>3

(* The four renderers tell the same of what matters, for every template    *)
(* and every order that comes in.                                          *)
THEOREM FormatsAgreeAlways == ContentSpec => []FormatsAgree
BY RenderersAgree, PTL

\* A report is made of what its key tells of the request, and of whose it is.
LEMMA RenderedFromKey ==
    ASSUME NEW given, NEW has, NEW r \in Requests(given, has), NEW q \in Requests(given, has),
           Fingerprint(r) = Fingerprint(q)
    PROVE  /\ Impersonal(Rendered(r)) = Impersonal(Rendered(q))
           /\ SameOwner(r.owner, q.owner, Rendered(r).format) => Rendered(r) = Rendered(q)
<1> DEFINE Fields == {"format", "audience", "template", "language", "given", "has", "trace"}
<1>1. DOMAIN r = Fields \cup {"owner"} /\ DOMAIN q = Fields \cup {"owner"}
  BY DEF Requests
<1>2. \A k \in Fields : k # "owner"
  OBVIOUS
<1>3. ASSUME NEW k \in Fields
      PROVE  r[k] = q[k]
  <2>1. Fingerprint(r)[k] = r[k] /\ Fingerprint(q)[k] = q[k]
    BY <1>1, <1>2 DEF Fingerprint
  <2> QED
    BY <2>1
<1>4. /\ r.format = q.format /\ r.audience = q.audience /\ r.template = q.template
      /\ r.language = q.language /\ r.given = q.given /\ r.has = q.has /\ r.trace = q.trace
  BY <1>3
<1>5. /\ FormatAsked(r) = FormatAsked(q) /\ TemplateAsked(r) = TemplateAsked(q)
      /\ LanguageAsked(r) = LanguageAsked(q)
  BY <1>4 DEF FormatAsked, TemplateAsked, LanguageAsked
<1>6. \A slice, detail : Told(r, slice, detail) <=> Told(q, slice, detail)
  BY <1>4 DEF Told
<1>7. ASSUME NEW format, NEW t, NEW fact
      PROVE  Tells(format, t, r, fact) <=> Tells(format, t, q, fact)
  <2>1. MarkdownTells(t, r, fact) <=> MarkdownTells(t, q, fact)
    BY <1>4, <1>6 DEF MarkdownTells, MarkdownEnding
  <2>2. HtmlTells(t, r, fact) <=> HtmlTells(t, q, fact)
    BY <1>4, <1>6 DEF HtmlTells
  <2>3. TextTells(t, r, fact) <=> TextTells(t, q, fact)
    BY <1>4, <1>6 DEF TextTells
  <2>4. JsonTells(t, r, fact) <=> JsonTells(t, q, fact)
    BY <1>4, <1>6 DEF JsonTells
  <2> QED
    BY <2>1, <2>2, <2>3, <2>4 DEF Tells
<1>8. {f \in Facts : Tells(FormatAsked(r), TemplateAsked(r), r, f)}
      = {f \in Facts : Tells(FormatAsked(q), TemplateAsked(q), q, f)}
  BY <1>5, <1>7
<1>9. Impersonal(Rendered(r)) = Impersonal(Rendered(q))
  <2> DEFINE Parts == {"format", "language", "target", "facts"}
  <2>1. \A s \in {r, q} : DOMAIN Rendered(s) \ {"personal"} = Parts
    BY DEF Rendered
  <2>2. Rendered(r).target = Rendered(q).target
    BY <1>4, <1>5 DEF Rendered
  <2>3. Rendered(r).facts = Rendered(q).facts
    BY <1>8 DEF Rendered
  <2>4. Rendered(r).format = Rendered(q).format /\ Rendered(r).language = Rendered(q).language
    BY <1>5 DEF Rendered
  <2> QED
    BY <2>1, <2>2, <2>3, <2>4 DEF Impersonal
<1>10. ASSUME SameOwner(r.owner, q.owner, Rendered(r).format)
       PROVE  Rendered(r) = Rendered(q)
  <2>1. Rendered(r).format = FormatAsked(r)
    BY DEF Rendered
  <2>2. Personal(r) = Personal(q)
    BY <1>5, <1>10, <2>1 DEF Personal, SameOwner, Or
  <2> QED
    BY <1>4, <1>5, <1>8, <2>2 DEF Rendered
<1> QED
  BY <1>9, <1>10

(* Two requests with the same key are told the same, for whatever they     *)
(* leave unset and whatever the defaults are, in a report that differs     *)
(* only in whose it is: not at all when that is the same.                  *)
THEOREM KeysDecideContent == ContentSpec => []KeyDecidesContent
<1>1. KeyDecidesContent
  <2> SUFFICES ASSUME order.given \in Givens, order.has \subseteq Details,
                      NEW r \in Requests(order.given, order.has),
                      NEW q \in Requests(order.given, order.has),
                      Fingerprint(r) = Fingerprint(q)
               PROVE  /\ Impersonal(Rendered(r)) = Impersonal(Rendered(q))
                      /\ SameOwner(r.owner, q.owner, Rendered(r).format) => Rendered(r) = Rendered(q)
    BY DEF KeyDecidesContent
  <2> QED
    BY RenderedFromKey
<1> QED
  BY <1>1, PTL

-----------------------------------------------------------------------------
(* The invariant of the service                                            *)

PutOutcomes == {"stored", "failed", "skipped"}
RemoveOutcomes == {"removed", "not_removed"}

Putting == {"ask", "put"} \cup Writing
Generating == {"lookup", "promote", "insert", "refresh", "trim"} \cup Putting
Getting == {"search", "read", "open"}
Deleting == {"remove", "unlink"}

\* The job, and how far the worker has come with it.
WorkInv(w) ==
    /\ job[w] \in Asked \cup {NoJob}
    /\ pc[w] \in Generating => job[w].kind = "generate"
    /\ pc[w] \in Getting => job[w].kind = "get"
    /\ pc[w] \in Deleting => job[w].kind = "delete"
    /\ job[w].kind = "generate" =>
          results[w] \in Seq(PutOutcomes) /\ Len(results[w]) <= Len(job[w].route)
    /\ job[w].kind = "delete" =>
          results[w] \in Seq(RemoveOutcomes) /\ Len(results[w]) <= Len(job[w].route)
    /\ pc[w] \in {"lookup", "promote"} => at[w] = 1 /\ results[w] = <<>>
    /\ pc[w] \in Putting \cup Deleting =>
          at[w] \in DOMAIN job[w].route /\ Len(results[w]) = at[w] - 1
    /\ pc[w] \in Getting => at[w] \in DOMAIN job[w].route
    /\ pc[w] \in {"insert", "refresh", "trim"} =>
          at[w] \in 1..(Len(Fanout) + 1) /\ Len(results[w]) = Len(job[w].route)

\* A complete response has an answer of every backend, or of none.
Complete(outcomes) == Len(outcomes) \in {0, Len(Fanout)}

\* The content of reply r is what its checksum says, or the disk is known to differ.
Overtaken(w) == "local" \in touched[w] \/ FileOf[job[w].id] \in unsettled
WholeOrExcused(w, r) == r.content # r.checksum => r.backend = "local" /\ Overtaken(w)

ReplyInv(w) ==
    /\ pc[w] = "promote" =>
          \E i \in Ids, outcomes \in Seq(PutOutcomes) :
              /\ Complete(outcomes)
              /\ reply[w] = [status |-> "none", cached |-> TRUE, id |-> i, results |-> outcomes]
    /\ reply[w].status = "report" =>
          /\ Complete(reply[w].results)
          /\ ~reply[w].cached => Len(reply[w].results) = Len(job[w].route)
    /\ pc[w] # "idle" => reply[w].status = "none"
    /\ reply[w].status = "found" => job[w].kind = "get" /\ WholeOrExcused(w, reply[w])

\* What an outcome says of backend b in a job is so.
IsSo(b, j, outcome) ==
    /\ j.kind = "generate" /\ outcome = "stored" => Holds(b, j.id, j.content)
    /\ j.kind = "delete" /\ outcome = "removed" => b = "s3" \/ Served(b, j.id) = {}

\* What the worker has reported as stored, or removed, is so or has been overtaken.
HeldInv(w) ==
    \A k \in DOMAIN results[w] :
        job[w].route[k] \in touched[w] \/ IsSo(job[w].route[k], job[w], results[w][k])

\* On disk.  Half of a put: the file is not settled, and from some point on written;
\* and half of a get: the sidecar that was read is still there.
HalfInv(w) ==
    /\ pc[w] \in Writing \cup {"open", "unlink"} => Backend(w) = "local"
    /\ pc[w] \in Writing => FileOf[job[w].id] \in unsettled
    /\ pc[w] \in {"described", "sidecar"} =>
          body[FileOf[job[w].id]][FormatOf[job[w].content]] = job[w].content
    /\ pc[w] = "open" =>
          /\ results[w][1] \in Contents
          /\ Overtaken(w) \/ sidecar[FileOf[job[w].id]] = results[w][1]

WorkerInv(w) == WorkInv(w) /\ ReplyInv(w) /\ HeldInv(w) /\ HalfInv(w)

OneWriter ==
    \A v, w \in Workers : pc[v] \in Writing /\ pc[w] \in Writing => v = w

\* A file whose last put has ended well holds what its sidecar describes, if anything.
Settled(n) ==
    n \notin unsettled /\ sidecar[n] \in Contents =>
        body[n][FormatOf[sidecar[n]]] \in {sidecar[n], NoContent}

DiskInv ==
    /\ body \in [Names -> [Extensions -> Contents \cup {NoContent, Damaged}]]
    /\ sidecar \in [Names -> Contents \cup {NoContent, Damaged}]
    /\ unsettled \subseteq Names
    /\ \A n \in Names : Settled(n)

MemoryEntries == [id : Ids, content : Contents]

StoresInv ==
    /\ memory \in Seq(MemoryEntries) /\ Len(memory) <= MemoryCap
    /\ \A j, k \in DOMAIN memory : memory[j].id = memory[k].id => j = k
    /\ DiskInv
    /\ bucket \in [Ids -> [Extensions -> Contents \cup {NoContent}]]

BreakersInv ==
    /\ circuit \in [Backends -> {"closed", "open", "half_open"}]
    /\ failures \in [Backends -> 0..Threshold]
    /\ \A b \in Backends : (circuit[b] = "closed") <=> (failures[b] < Threshold)

CacheEntries ==
    {e \in [key : Contents, id : Ids, results : Seq(PutOutcomes)] : Complete(e.results)}

Refreshing == {w \in Workers : pc[w] = "refresh"}
Trimming == {w \in Workers : pc[w] = "trim"}
Keys == {cache[k].key : k \in DOMAIN cache}

\* The keys of entries that are to be moved to the end, and are still there.
Fresh == Keys \cap {job[w].content : w \in Refreshing}

CacheInv ==
    /\ cache \in Seq(CacheEntries)
    /\ IsFiniteSet(Fresh) /\ IsFiniteSet(Trimming) /\ IsFiniteSet(Refreshing)
    /\ Len(cache) <= CacheCap + Cardinality(Trimming) + Cardinality(Fresh)

TablesInv ==
    /\ pc \in [Workers -> Steps]
    /\ DOMAIN job = Workers /\ DOMAIN at = Workers /\ DOMAIN results = Workers
    /\ DOMAIN reply = Workers /\ DOMAIN touched = Workers

ReportInv ==
    /\ StoresInv /\ BreakersInv /\ CacheInv /\ TablesInv /\ OneWriter
    /\ \A w \in Workers : WorkerInv(w)

-----------------------------------------------------------------------------
(* Ordered tables                                                          *)

LEMMA RemoveAtFacts ==
    ASSUME NEW S, NEW s \in Seq(S), NEW k \in DOMAIN s
    PROVE  /\ Seqs!RemoveAt(s, k) \in Seq(S)
           /\ Len(Seqs!RemoveAt(s, k)) = Len(s) - 1
           /\ \A j \in 1..(Len(s) - 1) :
                 Seqs!RemoveAt(s, k)[j] = IF j < k THEN s[j] ELSE s[j + 1]
<1> DEFINE a == SubSeq(s, 1, k - 1)
           b == SubSeq(s, k + 1, Len(s))
<1>1. Len(s) \in Nat /\ k \in 1..Len(s) /\ \A j \in 1..Len(s) : s[j] \in S
  BY LenProperties, ElementOfSeq
<1>2. a \in Seq(S) /\ Len(a) = k - 1 /\ \A j \in 1..(k - 1) : a[j] = s[j]
  BY <1>1, SubSeqProperties
<1>3. b \in Seq(S) /\ Len(b) = Len(s) - k /\ \A j \in 1..(Len(s) - k) : b[j] = s[k + j]
  BY <1>1, SubSeqProperties
<1>4. Seqs!RemoveAt(s, k) = a \o b
  BY DEF Seqs!RemoveAt
<1> HIDE DEF a, b
<1>5. /\ a \o b \in Seq(S) /\ Len(a \o b) = Len(a) + Len(b)
      /\ \A j \in 1..(Len(a) + Len(b)) : (a \o b)[j] = IF j <= Len(a) THEN a[j] ELSE b[j - Len(a)]
  BY <1>2, <1>3, ConcatProperties
<1>6. ASSUME NEW j \in 1..(Len(s) - 1)
      PROVE  (a \o b)[j] = IF j < k THEN s[j] ELSE s[j + 1]
  <2>1. CASE j < k
    BY <1>1, <1>2, <1>3, <1>5, <2>1
  <2>2. CASE ~(j < k)
    <3>1. (a \o b)[j] = b[j - (k - 1)]
      <4>1. Len(a) = k - 1 /\ ~(j <= Len(a)) /\ j \in 1..(Len(a) + Len(b))
        BY <1>1, <1>2, <1>3, <2>2
      <4> QED
        BY <1>5, <4>1
    <3>2. j - (k - 1) \in 1..(Len(s) - k) /\ k + (j - (k - 1)) = j + 1
      BY <1>1, <2>2
    <3> QED
      BY <1>3, <2>2, <3>1, <3>2
  <2> QED
    BY <2>1, <2>2
<1>7. Len(a \o b) = Len(s) - 1
  BY <1>1, <1>2, <1>3, <1>5
<1> QED
  BY <1>4, <1>5, <1>6, <1>7

Elements(s) == {s[k] : k \in DOMAIN s}
Unique(s) == \A j, k \in DOMAIN s : s[j].id = s[k].id => j = k

\* What is left of a table of reports when the one of id i is taken out.
LEMMA RestFacts ==
    ASSUME StoresInv, NEW i
    PROVE  /\ Rest(i) \in Seq(MemoryEntries) /\ Unique(Rest(i))
           /\ Len(Rest(i)) = IF InMemory(i) THEN Len(memory) - 1 ELSE Len(memory)
           /\ Elements(Rest(i)) = {e \in Elements(memory) : e.id # i}
<1>1. /\ memory \in Seq(MemoryEntries) /\ Unique(memory)
      /\ DOMAIN memory = 1..Len(memory) /\ Len(memory) \in Nat
  BY LenProperties DEF StoresInv, Unique
<1>2. CASE Places(i) = {}
  BY <1>1, <1>2 DEF Rest, Without, InMemory, Elements, Places
<1>3. CASE Places(i) # {}
  <2> DEFINE k == CHOOSE k \in Places(i) : TRUE
             r == Seqs!RemoveAt(memory, k)
  <2>1. k \in DOMAIN memory /\ memory[k].id = i /\ Rest(i) = r /\ InMemory(i)
    BY <1>3 DEF Places, Rest, Without, InMemory
  <2> HIDE DEF k
  <2>2. /\ r \in Seq(MemoryEntries) /\ Len(r) = Len(memory) - 1
        /\ \A j \in 1..(Len(memory) - 1) : r[j] = IF j < k THEN memory[j] ELSE memory[j + 1]
    BY <1>1, <2>1, RemoveAtFacts
  <2> HIDE DEF r
  <2>3. DOMAIN r = 1..(Len(memory) - 1)
    BY <2>2, LenProperties
  <2> DEFINE from(j) == IF j < k THEN j ELSE j + 1
  <2>4. \A j \in DOMAIN r : from(j) \in DOMAIN memory \ {k} /\ r[j] = memory[from(j)]
    BY <1>1, <2>1, <2>2, <2>3
  <2>5. \A j, m \in DOMAIN r : from(j) = from(m) => j = m
    BY <1>1, <2>1, <2>3
  <2>6. \A m \in DOMAIN memory \ {k} : \E j \in DOMAIN r : from(j) = m
    <3>1. ASSUME NEW m \in DOMAIN memory \ {k}
          PROVE  \E j \in DOMAIN r : from(j) = m
      <4>1. CASE m < k
        BY <1>1, <2>1, <2>3, <4>1
      <4>2. CASE ~(m < k)
        <5>1. m - 1 \in DOMAIN r /\ from(m - 1) = m
          BY <1>1, <2>1, <2>3, <4>2
        <5> QED
          BY <5>1
      <4> QED
        BY <4>1, <4>2
    <3> QED
      BY <3>1
  <2> HIDE DEF from
  <2>7. Unique(r)
    BY <1>1, <2>4, <2>5 DEF Unique
  <2>8. \A m \in DOMAIN memory : m # k <=> memory[m].id # i
    BY <1>1, <2>1 DEF Unique
  <2>9. Elements(r) = {e \in Elements(memory) : e.id # i}
    BY <2>4, <2>6, <2>8 DEF Elements
  <2> QED
    BY <2>1, <2>2, <2>7, <2>9
<1> QED
  BY <1>2, <1>3

\* A table that gets a report it did not have, at its end.
LEMMA AppendFacts ==
    ASSUME NEW s \in Seq(MemoryEntries), Unique(s), NEW e \in MemoryEntries,
           \A x \in Elements(s) : x.id # e.id
    PROVE  /\ Append(s, e) \in Seq(MemoryEntries) /\ Unique(Append(s, e))
           /\ Len(Append(s, e)) = Len(s) + 1
           /\ Elements(Append(s, e)) = Elements(s) \cup {e}
<1> DEFINE t == Append(s, e)
<1>1. /\ t \in Seq(MemoryEntries) /\ Len(t) = Len(s) + 1 /\ Len(s) \in Nat
      /\ \A k \in 1..Len(s) : t[k] = s[k]
      /\ t[Len(s) + 1] = e
      /\ DOMAIN s = 1..Len(s) /\ DOMAIN t = 1..(Len(s) + 1)
  BY AppendProperties, LenProperties
<1> HIDE DEF t
<1>2. \A k \in DOMAIN t : k \in DOMAIN s \/ k = Len(s) + 1
  BY <1>1
<1>3. \A k \in DOMAIN s : k \in DOMAIN t /\ t[k] = s[k] /\ t[k].id # e.id
  BY <1>1 DEF Elements
<1>4. Unique(t)
  BY <1>1, <1>2, <1>3 DEF Unique
<1>5. Elements(t) = Elements(s) \cup {e}
  <2>1. Len(s) + 1 \in DOMAIN t
    BY <1>1
  <2> QED
    BY <1>1, <1>2, <1>3, <2>1 DEF Elements
<1> QED
  BY <1>1, <1>4, <1>5 DEF t

LEMMA TailFacts ==
    ASSUME NEW s \in Seq(MemoryEntries), Unique(s), s # <<>>
    PROVE  /\ Tail(s) \in Seq(MemoryEntries) /\ Unique(Tail(s))
           /\ Len(Tail(s)) = Len(s) - 1
           /\ Elements(Tail(s)) = {e \in Elements(s) : e.id # s[1].id}
<1> DEFINE t == Tail(s)
<1>1. /\ t \in Seq(MemoryEntries) /\ Len(t) = Len(s) - 1 /\ Len(s) \in Nat \ {0}
      /\ \A k \in 1..Len(t) : t[k] = s[k + 1]
      /\ DOMAIN s = 1..Len(s) /\ DOMAIN t = 1..(Len(s) - 1)
  <2>1. t \in Seq(MemoryEntries) /\ Len(t) = Len(s) - 1 /\ \A k \in 1..Len(t) : t[k] = s[k + 1]
    BY HeadTailProperties
  <2>2. Len(s) \in Nat \ {0} /\ DOMAIN s = 1..Len(s) /\ DOMAIN t = 1..Len(t)
    BY <2>1, EmptySeq, LenProperties
  <2> QED
    BY <2>1, <2>2
<1> HIDE DEF t
<1>2. \A k \in DOMAIN t : k + 1 \in DOMAIN s /\ k + 1 # 1 /\ t[k] = s[k + 1]
  BY <1>1
<1>3. \A k \in DOMAIN s : k # 1 => k - 1 \in DOMAIN t /\ t[k - 1] = s[k]
  BY <1>1
<1>4. Unique(t)
  <2>1. ASSUME NEW j \in DOMAIN t, NEW k \in DOMAIN t, t[j].id = t[k].id
        PROVE  j = k
    <3>1. j + 1 = k + 1
      BY <1>2, <2>1 DEF Unique
    <3> QED
      BY <1>1, <3>1
  <2> QED
    BY <2>1 DEF Unique
<1>5. Elements(t) = {e \in Elements(s) : e.id # s[1].id}
  <2>1. 1 \in DOMAIN s /\ \A k \in DOMAIN s : k = 1 <=> s[k].id = s[1].id
    BY <1>1 DEF Unique
  <2>2. ASSUME NEW e \in Elements(t)
        PROVE  e \in Elements(s) /\ e.id # s[1].id
    BY <1>2, <2>1 DEF Elements
  <2>3. ASSUME NEW e \in Elements(s), e.id # s[1].id
        PROVE  e \in Elements(t)
    BY <1>3, <2>1, <2>3 DEF Elements
  <2> QED
    BY <2>2, <2>3
<1> QED
  BY <1>1, <1>4, <1>5 DEF t

-----------------------------------------------------------------------------
(* The stores                                                              *)

LEMMA DiskStays ==
    ASSUME UNCHANGED disk
    PROVE  DiskInv => DiskInv'
BY DEF disk, DiskInv, Settled

\* The reports in memory under id i.
Filed(i) == {e \in Elements(memory) : e.id = i}

LEMMA MemoryServes ==
    ASSUME NEW i
    PROVE  Served("memory", i) = {e.content : e \in Filed(i)}
BY DEF Served, Filed, Elements

LEMMA FiledIsServed ==
    ASSUME NEW i, Filed(i)' = Filed(i)
    PROVE  Served("memory", i)' = Served("memory", i)
<1>1. Served("memory", i) = {e.content : e \in Filed(i)}
  BY MemoryServes
<1>2. Served("memory", i)' = {e.content : e \in Filed(i)'}
  BY DEF Served, Filed, Elements
<1> QED
  BY <1>1, <1>2

LEMMA PutMemory ==
    ASSUME StoresInv, NEW i \in Ids, NEW c \in Contents, MemoryPut(i, c)
    PROVE  /\ StoresInv' /\ Served("memory", i)' = {c}
           /\ \A j : j \notin {i} \cup PushedOut(i) => Served("memory", j)' = Served("memory", j)
<1> DEFINE e == [id |-> i, content |-> c]
           rest == Rest(i)
           all == Append(rest, e)
<1>1. e \in MemoryEntries /\ e.id = i /\ e.content = c
  BY DEF MemoryEntries
<1>2. /\ rest \in Seq(MemoryEntries) /\ Unique(rest)
      /\ Len(rest) <= Len(memory) /\ Len(rest) \in Nat /\ Len(memory) \in Nat
      /\ Elements(rest) = {x \in Elements(memory) : x.id # i}
  <2>1. Len(memory) \in Nat
    BY LenProperties DEF StoresInv
  <2>2. rest \in Seq(MemoryEntries) /\ Len(rest) = IF InMemory(i) THEN Len(memory) - 1 ELSE Len(memory)
    BY RestFacts
  <2>3. Len(rest) \in Nat
    BY <2>2, LenProperties
  <2> QED
    BY <2>1, <2>2, <2>3, RestFacts
<1> HIDE DEF e
<1>3. /\ all \in Seq(MemoryEntries) /\ Unique(all) /\ Len(all) = Len(rest) + 1
      /\ Elements(all) = Elements(rest) \cup {e}
  BY <1>1, <1>2, AppendFacts
<1>4. /\ memory' = IF Len(all) > MemoryCap THEN Tail(all) ELSE all
      /\ UNCHANGED disk /\ bucket' = bucket
  BY DEF MemoryPut, e
<1>5. MemoryCap \in Nat \ {0} /\ Len(memory) <= MemoryCap
  BY StoresAssumption DEF StoresInv
<1>6. PushedOut(i) = IF Len(rest) < MemoryCap THEN {} ELSE {rest[1].id}
  BY DEF PushedOut
<1>7. rest # <<>> => all[1] = rest[1]
  BY <1>1, <1>2, AppendProperties, EmptySeq
<1> HIDE DEF rest, all
<1>8. /\ memory' \in Seq(MemoryEntries) /\ Unique(memory') /\ Len(memory') <= MemoryCap
      /\ Elements(memory') = {x \in Elements(all) : x.id \notin PushedOut(i)}
  <2>1. CASE Len(rest) < MemoryCap
    BY <1>2, <1>3, <1>4, <1>5, <1>6, <2>1
  <2>2. CASE ~(Len(rest) < MemoryCap)
    <3>1. Len(rest) = MemoryCap /\ Len(all) > MemoryCap /\ rest # <<>> /\ all # <<>>
      BY <1>2, <1>3, <1>5, <2>2, EmptySeq
    <3>2. /\ Tail(all) \in Seq(MemoryEntries) /\ Unique(Tail(all)) /\ Len(Tail(all)) = Len(all) - 1
          /\ Elements(Tail(all)) = {x \in Elements(all) : x.id # all[1].id}
      BY <1>3, <3>1, TailFacts
    <3>3. Len(Tail(all)) <= MemoryCap
      BY <1>3, <1>5, <3>1, <3>2
    <3> QED
      BY <1>4, <1>6, <1>7, <2>2, <3>1, <3>2, <3>3
  <2> QED
    BY <2>1, <2>2
<1>9. StoresInv'
  BY <1>4, <1>8, DiskStays DEF StoresInv, Unique
<1>10. Elements(memory') = {x \in {y \in Elements(memory) : y.id # i} \cup {e} : x.id \notin PushedOut(i)}
  BY <1>2, <1>3, <1>8
<1>11. i \notin PushedOut(i)
  <2>1. ~(Len(rest) < MemoryCap) => rest[1] \in Elements(rest)
    <3>1. ~(Len(rest) < MemoryCap) => 1 \in DOMAIN rest
      BY <1>2, <1>5, LenProperties
    <3> QED
      BY <3>1 DEF Elements
  <2> QED
    BY <1>2, <1>6, <2>1
<1>12. Filed(i)' = {e}
  BY <1>1, <1>10, <1>11 DEF Filed
<1>13. \A j : j \notin {i} \cup PushedOut(i) => Filed(j)' = Filed(j)
  BY <1>1, <1>10 DEF Filed
<1>14. Served("memory", i)' = {x.content : x \in Filed(i)'}
  BY DEF Served, Filed, Elements
<1> QED
  BY <1>1, <1>9, <1>12, <1>13, <1>14, FiledIsServed

LEMMA GetMemory ==
    ASSUME StoresInv, NEW i, NEW c, MemoryGet(i, c)
    PROVE  StoresInv' /\ \A j : Served("memory", j)' = Served("memory", j)
<1> DEFINE e == [id |-> i, content |-> c]
           rest == Rest(i)
           all == Append(rest, e)
<1>1. e \in Elements(memory) /\ e.id = i /\ memory' = all
      /\ UNCHANGED disk /\ bucket' = bucket
  BY DEF MemoryGet, Elements
<1>2. \A x \in Elements(memory) : x \in MemoryEntries
  <2>1. memory \in Seq(MemoryEntries)
    BY DEF StoresInv
  <2> QED
    BY <2>1, LenProperties, ElementOfSeq DEF Elements
<1> HIDE DEF e
<1>3. InMemory(i) /\ \A x \in Elements(memory) : x.id = i => x = e
  BY <1>1 DEF InMemory, Places, Elements, StoresInv
<1>4. /\ rest \in Seq(MemoryEntries) /\ Unique(rest) /\ Len(rest) = Len(memory) - 1
      /\ Elements(rest) = {x \in Elements(memory) : x.id # i}
  BY <1>3, RestFacts
<1>5. /\ all \in Seq(MemoryEntries) /\ Unique(all) /\ Len(all) = Len(rest) + 1
      /\ Elements(all) = Elements(rest) \cup {e}
  BY <1>1, <1>2, <1>4, AppendFacts
<1>6. Len(memory) \in Nat
  BY LenProperties DEF StoresInv
<1> HIDE DEF rest, all
<1>7. Len(memory') = Len(memory) /\ Elements(memory') = Elements(memory)
  BY <1>1, <1>3, <1>4, <1>5, <1>6
<1>8. StoresInv'
  BY <1>1, <1>5, <1>7, DiskStays DEF StoresInv, Unique
<1>9. \A j : Filed(j)' = Filed(j)
  BY <1>7 DEF Filed
<1> QED
  BY <1>8, <1>9, FiledIsServed

LEMMA DeleteMemory ==
    ASSUME StoresInv, NEW i, MemoryDelete(i)
    PROVE  /\ StoresInv' /\ Served("memory", i)' = {}
           /\ \A j : j # i => Served("memory", j)' = Served("memory", j)
<1>1. memory' = Rest(i) /\ UNCHANGED disk /\ bucket' = bucket
  BY DEF MemoryDelete
<1>2. /\ Rest(i) \in Seq(MemoryEntries) /\ Unique(Rest(i))
      /\ Len(Rest(i)) = IF InMemory(i) THEN Len(memory) - 1 ELSE Len(memory)
      /\ Elements(Rest(i)) = {e \in Elements(memory) : e.id # i}
  BY RestFacts
<1>3. Len(memory) \in Nat /\ Len(memory) <= MemoryCap /\ MemoryCap \in Nat
  BY LenProperties, StoresAssumption DEF StoresInv
<1>4. Len(memory') <= MemoryCap
  BY <1>1, <1>2, <1>3
<1>5. StoresInv'
  BY <1>1, <1>2, <1>4, DiskStays DEF StoresInv, Unique
<1>6. Filed(i)' = {} /\ \A j : j # i => Filed(j)' = Filed(j)
  BY <1>1, <1>2 DEF Filed
<1>7. Served("memory", i)' = {e.content : e \in Filed(i)'}
  BY DEF Served, Filed, Elements
<1> QED
  BY <1>5, <1>6, <1>7, FiledIsServed

SameFile(n) ==
    /\ body'[n] = body[n] /\ sidecar'[n] = sidecar[n]
    /\ n \in unsettled' <=> n \in unsettled

\* What backend b keeps under i is not changed.
Same(b, i) ==
    /\ b = "memory" => Served("memory", i)' = Served("memory", i)
    /\ b = "local" => SameFile(FileOf[i])
    /\ b = "s3" => bucket'[i] = bucket[i]

\* Of the backends, no other than b is changed.
Only(b) == \A d \in Backends \ {b}, i \in Ids : Same(d, i)

LEMMA SameIsSo ==
    ASSUME NEW b \in Backends, NEW j, NEW outcome, Same(b, j.id), IsSo(b, j, outcome)
    PROVE  IsSo(b, j, outcome)'
<1>1. CASE b = "memory"
  BY <1>1 DEF Same, Holds, IsSo
<1>2. CASE b = "local"
  <2>1. Served(b, j.id)' = Served(b, j.id)
    BY <1>2 DEF Same, SameFile, Served, Readable
  <2> QED
    BY <1>2, <2>1 DEF Same, SameFile, Holds, IsSo
<1>3. CASE b = "s3"
  BY <1>3 DEF Same, Holds, IsSo
<1> QED
  BY <1>1, <1>2, <1>3 DEF Backends

-----------------------------------------------------------------------------
(* Workers that the step of another one passes by                          *)

\* The step leaves worker v where it is.
Rests(v) ==
    /\ pc'[v] = pc[v] /\ job'[v] = job[v] /\ at'[v] = at[v]
    /\ results'[v] = results[v] /\ reply'[v] = reply[v]
    /\ touched[v] \subseteq touched'[v]

\* What the step changes of v's report is in touched[v].
Noted(v) == job[v].id \in Ids => \A b \in Backends : b \in touched'[v] \/ Same(b, job[v].id)

Alone(w) == \A v \in Workers \ {w} : Rests(v) /\ Noted(v)

LEMMA JobTypes ==
    ASSUME NEW j \in Asked \cup {NoJob}
    PROVE  /\ j.route \in Seq(Backends) /\ Len(j.route) \in Nat /\ DOMAIN j.route = 1..Len(j.route)
           /\ \A k \in DOMAIN j.route : j.route[k] \in Backends
           /\ j.kind \in {"generate", "get", "delete"} => j.id \in Ids
           /\ j.kind = "generate" => j.content \in Contents /\ j.route \in {Fanout, <<>>}
           /\ j.kind = "delete" => j.route = Fanout
           /\ j.kind = "get" => Len(j.route) \in 1..Len(Fanout)
           /\ Len(j.route) <= Len(Fanout)
           /\ \A k, m \in DOMAIN j.route : j.route[k] = j.route[m] => k = m
<1>1. /\ Fanout \in Seq(Backends) /\ Fanout # <<>> /\ Pins \subseteq Backends
      /\ \A k, m \in DOMAIN Fanout : Fanout[k] = Fanout[m] => k = m
      /\ Len(Fanout) \in Nat \ {0}
  <2>1. Fanout \in Seq(Backends) /\ Fanout # <<>>
        /\ \A k, m \in DOMAIN Fanout : Fanout[k] = Fanout[m] => k = m
    BY ServiceAssumption
  <2>2. Pins \subseteq {Fanout[k] : k \in DOMAIN Fanout}
    BY ServiceAssumption
  <2>3. \A k \in DOMAIN Fanout : Fanout[k] \in Backends
    BY <2>1, LenProperties, ElementOfSeq
  <2> QED
    BY <2>1, <2>2, <2>3, EmptySeq
<1>2. <<>> \in Seq(Backends) /\ Len(<<>>) = 0
  BY EmptySeq
<1>3. ASSUME NEW b \in Pins
      PROVE  <<b>> \in Seq(Backends) /\ Len(<<b>>) = 1 /\ DOMAIN <<b>> = 1..1
  BY <1>1
<1>4. CASE j = NoJob
  BY <1>1, <1>2, <1>4 DEF NoJob, Nowhere
<1>5. ASSUME NEW i \in Ids, NEW c \in Contents, NEW r \in {Fanout, Nowhere},
             j = [kind |-> "generate", id |-> i, content |-> c, route |-> r]
      PROVE  /\ j.kind = "generate" /\ j.id \in Ids /\ j.content \in Contents
             /\ j.route \in {Fanout, <<>>}
  BY <1>5 DEF Nowhere
<1>6. ASSUME NEW i \in Ids, NEW r \in {Fanout} \cup {<<b>> : b \in Pins},
             j = [kind |-> "get", id |-> i, content |-> NoContent, route |-> r]
      PROVE  j.kind = "get" /\ j.id \in Ids /\ (j.route = Fanout \/ \E b \in Pins : j.route = <<b>>)
  BY <1>6
<1>7. ASSUME NEW i \in Ids,
             j = [kind |-> "delete", id |-> i, content |-> NoContent, route |-> Fanout]
      PROVE  j.kind = "delete" /\ j.id \in Ids /\ j.route = Fanout
  BY <1>7
<1>8. j # NoJob =>
         \/ j.kind = "generate" /\ j.id \in Ids /\ j.content \in Contents /\ j.route \in {Fanout, <<>>}
         \/ j.kind = "get" /\ j.id \in Ids /\ (j.route = Fanout \/ \E b \in Pins : j.route = <<b>>)
         \/ j.kind = "delete" /\ j.id \in Ids /\ j.route = Fanout
  BY <1>5, <1>6, <1>7 DEF Asked
<1>9. /\ j.route \in Seq(Backends)
      /\ \A k, m \in DOMAIN j.route : j.route[k] = j.route[m] => k = m
      /\ Len(j.route) <= Len(Fanout)
      /\ j.kind = "get" => Len(j.route) \in 1..Len(Fanout)
  <2>1. CASE j.route = Fanout
    BY <1>1, <2>1
  <2>2. CASE j.route = <<>>
    BY <1>1, <1>2, <1>4, <1>8, <2>2 DEF NoJob
  <2>3. ASSUME NEW b \in Pins, j.route = <<b>>
        PROVE  /\ j.route \in Seq(Backends)
               /\ \A k, m \in DOMAIN j.route : j.route[k] = j.route[m] => k = m
               /\ Len(j.route) <= Len(Fanout)
               /\ j.kind = "get" => Len(j.route) \in 1..Len(Fanout)
    BY <1>1, <1>3, <2>3
  <2> QED
    BY <1>4, <1>8, <2>1, <2>2, <2>3 DEF NoJob, Nowhere
<1>10. Len(j.route) \in Nat /\ DOMAIN j.route = 1..Len(j.route)
       /\ \A k \in DOMAIN j.route : j.route[k] \in Backends
  BY <1>9, LenProperties, ElementOfSeq
<1>11. /\ j.kind \in {"generate", "get", "delete"} => j.id \in Ids
       /\ j.kind = "generate" => j.content \in Contents /\ j.route \in {Fanout, <<>>}
       /\ j.kind = "delete" => j.route = Fanout
  BY <1>4, <1>8 DEF NoJob
<1> QED
  BY <1>9, <1>10, <1>11

\* What holds of the answers so far, when none of the backends they are about changes.
LEMMA HeldStays ==
    ASSUME NEW w \in Workers, HeldInv(w), job[w] \in Asked \cup {NoJob},
           job'[w] = job[w], results'[w] = results[w], touched[w] \subseteq touched'[w],
           DOMAIN results[w] \subseteq DOMAIN job[w].route,
           \A k \in DOMAIN results[w] :
               job[w].route[k] \in touched'[w] \/ Same(job[w].route[k], job[w].id)
    PROVE  HeldInv(w)'
<1> PICK j : j = job[w] /\ j = job'[w]
  OBVIOUS
<1> PICK r : r = results[w] /\ r = results'[w]
  OBVIOUS
<1>1. SUFFICES ASSUME NEW k \in DOMAIN r
               PROVE  j.route[k] \in touched'[w] \/ IsSo(j.route[k], j, r[k])'
  BY DEF HeldInv
<1>2. j.route[k] \in Backends
  BY JobTypes
<1> PICK b \in Backends : b = j.route[k]
  BY <1>2
<1> PICK o : o = r[k]
  OBVIOUS
<1>3. b \in touched[w] \/ IsSo(b, j, o)
  BY DEF HeldInv
<1>4. b \in touched'[w] \/ Same(b, j.id)
  OBVIOUS
<1>5. b \in touched'[w] \/ IsSo(b, j, o)'
  BY <1>3, <1>4, SameIsSo
<1> QED
  BY <1>5

LEMMA Within ==
    ASSUME NEW w, WorkInv(w), job[w].kind \in {"generate", "delete"}
    PROVE  /\ DOMAIN results[w] = 1..Len(results[w]) /\ Len(results[w]) \in Nat
           /\ DOMAIN results[w] \subseteq DOMAIN job[w].route
<1>1. Len(results[w]) \in Nat /\ DOMAIN results[w] = 1..Len(results[w])
  BY LenProperties DEF WorkInv
<1>2. Len(results[w]) <= Len(job[w].route)
  BY DEF WorkInv
<1>3. job[w] \in Asked \cup {NoJob}
  BY DEF WorkInv
<1>4. Len(job[w].route) \in Nat /\ DOMAIN job[w].route = 1..Len(job[w].route)
  BY <1>3, JobTypes
<1> QED
  BY <1>1, <1>2, <1>4

\* Answers are about jobs that generate or delete.
LEMMA HeldOtherwise ==
    ASSUME NEW w, job[w].kind \notin {"generate", "delete"}
    PROVE  HeldInv(w)
BY DEF HeldInv, IsSo

LEMMA RestsKeeps ==
    ASSUME NEW v \in Workers, WorkerInv(v), Rests(v), Noted(v),
           UNCHANGED disk \/ pc[v] \notin Writing
    PROVE  WorkerInv(v)'
<1>1. /\ pc'[v] = pc[v] /\ job'[v] = job[v] /\ at'[v] = at[v]
      /\ results'[v] = results[v] /\ reply'[v] = reply[v]
      /\ touched[v] \subseteq touched'[v]
  BY DEF Rests
<1>2. WorkInv(v) /\ ReplyInv(v) /\ HeldInv(v) /\ HalfInv(v)
  BY DEF WorkerInv
<1>3. WorkInv(v)'
  BY <1>1, <1>2 DEF WorkInv
<1>4. ASSUME job[v].kind = "get"
      PROVE  Overtaken(v)' \/ SameFile(FileOf[job[v].id])
  <2>1. job[v].id \in Ids /\ "local" \in Backends
    BY <1>2, <1>4, JobTypes DEF WorkInv, Backends
  <2>2. "local" \in touched'[v] \/ Same("local", job[v].id)
    BY <2>1 DEF Noted
  <2> QED
    BY <2>2 DEF Overtaken, Same
<1>5. job[v].kind = "get" /\ Overtaken(v) => Overtaken(v)'
  BY <1>1, <1>4 DEF Overtaken, SameFile
<1>6. ReplyInv(v)'
  <2> PICK r : r = reply[v] /\ r = reply'[v]
    BY <1>1
  <2>1. ASSUME r.status = "found"
        PROVE  job[v].kind = "get" /\ WholeOrExcused(v, r)'
    <3>1. job[v].kind = "get" /\ WholeOrExcused(v, r)
      BY <1>2, <2>1 DEF ReplyInv
    <3> QED
      BY <1>5, <3>1 DEF WholeOrExcused
  <2> QED
    BY <1>1, <1>2, <2>1 DEF ReplyInv
<1>7. HalfInv(v)'
  <2>1. CASE pc[v] \in Writing
    BY <1>1, <1>2, <2>1 DEF HalfInv, Backend, Writing, disk
  <2>2. CASE pc[v] = "open"
    <3>1. job[v].kind = "get"
      BY <1>2, <2>2 DEF WorkInv, Getting
    <3>2. Overtaken(v)' \/ sidecar'[FileOf[job[v].id]] = results[v][1]
      BY <1>2, <1>4, <1>5, <2>2, <3>1 DEF HalfInv, SameFile
    <3> QED
      BY <1>1, <1>2, <2>2, <3>2 DEF HalfInv, Backend, Writing
  <2>3. CASE pc[v] \notin Writing \cup {"open"}
    BY <1>1, <1>2, <2>3 DEF HalfInv, Backend, Writing
  <2> QED
    BY <2>1, <2>2, <2>3
<1>8. HeldInv(v)'
  <2>1. CASE job[v].kind \in {"generate", "delete"}
    <3>1. DOMAIN results[v] \subseteq DOMAIN job[v].route
      BY <1>2, <2>1, Within
    <3>2. job[v] \in Asked \cup {NoJob}
      BY <1>2 DEF WorkInv
    <3>3. job[v].id \in Ids /\ \A k \in DOMAIN job[v].route : job[v].route[k] \in Backends
      BY <2>1, <3>2, JobTypes
    <3> QED
      BY <1>1, <1>2, <3>1, <3>2, <3>3, HeldStays DEF Noted
  <2>2. CASE job[v].kind \notin {"generate", "delete"}
    BY <1>1, <2>2 DEF HeldInv, IsSo
  <2> QED
    BY <2>1, <2>2
<1> QED
  BY <1>3, <1>6, <1>7, <1>8 DEF WorkerInv

\* An answer about the backend whose turn it is.
LEMMA HeldGrows ==
    ASSUME NEW w \in Workers, HeldInv(w), job[w] \in Asked \cup {NoJob},
           at[w] \in DOMAIN job[w].route, Len(results[w]) = at[w] - 1,
           NEW S, results[w] \in Seq(S), NEW outcome \in S,
           job'[w] = job[w], touched'[w] = touched[w],
           results'[w] = Append(results[w], outcome),
           NEW b \in Backends, b = Backend(w), Only(b),
           NEW j, j = job[w], j.id \in Ids, IsSo(b, j, outcome)'
    PROVE  HeldInv(w)'
<1> PICK r : r = results[w]
  OBVIOUS
<1>1. /\ j.route \in Seq(Backends) /\ Len(j.route) \in Nat /\ DOMAIN j.route = 1..Len(j.route)
      /\ \A k \in DOMAIN j.route : j.route[k] \in Backends
      /\ \A k, m \in DOMAIN j.route : j.route[k] = j.route[m] => k = m
  BY JobTypes
<1>2. /\ Len(r) \in Nat /\ DOMAIN r = 1..Len(r)
      /\ DOMAIN Append(r, outcome) = 1..(Len(r) + 1)
      /\ \A k \in 1..Len(r) : Append(r, outcome)[k] = r[k]
      /\ Append(r, outcome)[Len(r) + 1] = outcome
  BY AppendProperties, LenProperties
<1>3. at[w] = Len(r) + 1 /\ at[w] \in 1..Len(j.route) /\ b = j.route[Len(r) + 1]
  BY <1>1, <1>2 DEF Backend
<1> PICK s : s = Append(r, outcome) /\ s = results'[w]
  OBVIOUS
<1>4. SUFFICES ASSUME NEW k \in DOMAIN s
               PROVE  j.route[k] \in touched'[w] \/ IsSo(j.route[k], j, s[k])'
  BY DEF HeldInv
<1>5. CASE k = Len(r) + 1
  <2> PICK o : o = s[k]
    OBVIOUS
  <2> PICK d : d = j.route[k]
    OBVIOUS
  <2>1. o = outcome /\ d = b
    BY <1>2, <1>3, <1>5
  <2>2. IsSo(d, j, o)'
    BY <2>1
  <2> QED
    BY <2>2
<1>6. CASE k # Len(r) + 1
  <2>1. k \in DOMAIN r /\ k \in DOMAIN j.route /\ s[k] = r[k] /\ j.route[k] # b
    BY <1>1, <1>2, <1>3, <1>6
  <2> PICK d \in Backends : d = j.route[k]
    BY <1>1, <2>1
  <2> PICK o : o = s[k] /\ o = r[k]
    BY <2>1
  <2>2. d \in touched[w] \/ IsSo(d, j, o)
    BY <2>1 DEF HeldInv
  <2>3. Same(d, j.id)
    BY <2>1 DEF Only
  <2>4. d \in touched'[w] \/ IsSo(d, j, o)'
    BY <2>2, <2>3, SameIsSo
  <2> QED
    BY <2>4
<1> QED
  BY <1>5, <1>6

LEMMA StoresStay ==
    ASSUME UNCHANGED stores
    PROVE  /\ \A b, i : Same(b, i)
           /\ \A b : Only(b)
           /\ StoresInv => StoresInv'
           /\ UNCHANGED disk
<1>1. /\ memory' = memory /\ UNCHANGED disk /\ bucket' = bucket
      /\ body' = body /\ sidecar' = sidecar /\ unsettled' = unsettled
  BY DEF stores, disk
<1>2. \A b, i : Same(b, i)
  BY <1>1 DEF Same, SameFile, Served
<1> QED
  BY <1>1, <1>2, DiskStays DEF Only, StoresInv

\* The worker has the lock of the disk, or takes it.
HasDisk(w) == DiskLockFree \/ pc[w] \in Writing

LEMMA StepKeeps ==
    ASSUME ReportInv, NEW w \in Workers, Alone(w),
           StoresInv', BreakersInv', CacheInv', TablesInv', WorkerInv(w)',
           UNCHANGED disk \/ HasDisk(w), pc'[w] \in Writing => HasDisk(w)
    PROVE  ReportInv'
<1>1. \A v \in Workers \ {w} : HasDisk(w) => pc[v] \notin Writing
  BY DEF HasDisk, DiskLockFree, ReportInv, OneWriter
<1>2. ASSUME NEW v \in Workers
      PROVE  WorkerInv(v)'
  <2>1. CASE v = w
    BY <2>1
  <2>2. CASE v # w
    BY <1>1, <2>2, RestsKeeps DEF ReportInv, Alone
  <2> QED
    BY <2>1, <2>2
<1>3. OneWriter'
  <2>1. SUFFICES ASSUME NEW u \in Workers, NEW v \in Workers, pc'[u] \in Writing, pc'[v] \in Writing
                 PROVE  u = v
    BY DEF OneWriter
  <2>2. \A x \in Workers \ {w} : pc'[x] = pc[x]
    BY DEF Alone, Rests
  <2> QED
    BY <1>1, <2>1, <2>2 DEF ReportInv, OneWriter
<1> QED
  BY <1>2, <1>3 DEF ReportInv

\* The step changes only worker w's place, job and answers.
Moves(w) ==
    /\ TablesInv'
    /\ \A v \in Workers \ {w} :
          /\ pc'[v] = pc[v] /\ job'[v] = job[v] /\ at'[v] = at[v]
          /\ results'[v] = results[v] /\ reply'[v] = reply[v]

\* A step that changes nothing in the stores.
LEMMA QuietStep ==
    ASSUME ReportInv, NEW w \in Workers, Moves(w), UNCHANGED stores,
           \A v \in Workers \ {w} : touched'[v] = touched[v],
           CacheInv', BreakersInv', WorkerInv(w)', pc'[w] \notin Writing
    PROVE  ReportInv'
<1>1. Alone(w)
  BY StoresStay DEF Alone, Rests, Noted, Moves
<1>2. StoresInv' /\ UNCHANGED disk
  BY StoresStay DEF ReportInv
<1> QED
  BY <1>1, <1>2, StepKeeps DEF Moves

\* A step that tells the others of what it changes in the stores.
LEMMA TouchStep ==
    ASSUME ReportInv, NEW w \in Workers, Moves(w),
           NEW b \in Backends, NEW ids, Touch(w, b, ids), Only(b),
           \A i \in Ids \ ids : Same(b, i),
           StoresInv', CacheInv', BreakersInv', WorkerInv(w)',
           UNCHANGED disk \/ HasDisk(w), pc'[w] \in Writing => HasDisk(w)
    PROVE  ReportInv'
<1>1. ASSUME NEW v \in Workers \ {w}
      PROVE  touched[v] \subseteq touched'[v] /\ (job[v].id \in ids => b \in touched'[v])
  BY DEF Touch
<1>2. ASSUME NEW v \in Workers \ {w}, job[v].id \in Ids, NEW d \in Backends
      PROVE  d \in touched'[v] \/ Same(d, job[v].id)
  BY <1>1, <1>2 DEF Only
<1>3. Alone(w)
  BY <1>1, <1>2 DEF Alone, Rests, Noted, Moves
<1> QED
  BY <1>3, StepKeeps DEF Moves

LEMMA CacheStays ==
    ASSUME CacheInv, NEW w \in Workers, Moves(w), cache' = cache,
           pc[w] \notin {"refresh", "trim"}, pc'[w] \notin {"refresh", "trim"}
    PROVE  CacheInv'
<1>1. Refreshing' = Refreshing /\ Trimming' = Trimming
  BY DEF Refreshing, Trimming, Moves
<1>2. {job'[v].content : v \in Refreshing} = {job[v].content : v \in Refreshing}
  BY DEF Refreshing, Moves
<1>3. Fresh' = Fresh
  BY <1>1, <1>2 DEF Fresh, Keys
<1> QED
  BY <1>1, <1>3 DEF CacheInv

LEMMA SuccessKeepsBreakers ==
    ASSUME BreakersInv, NEW b \in Backends, RecordSuccess(b)
    PROVE  BreakersInv'
BY ServiceAssumption DEF BreakersInv, RecordSuccess

LEMMA FailureKeepsBreakers ==
    ASSUME BreakersInv, NEW b \in Backends, RecordFailure(b)
    PROVE  BreakersInv'
<1> DEFINE count == IF failures[b] < Threshold THEN failures[b] + 1 ELSE Threshold
<1>1. /\ failures' = [failures EXCEPT ![b] = count]
      /\ circuit' = [circuit EXCEPT ![b] =
            IF @ = "half_open" \/ count >= Threshold THEN "open" ELSE @]
  BY DEF RecordFailure
<1>2. failures[b] \in 0..Threshold /\ Threshold \in Nat \ {0}
      /\ circuit[b] \in {"closed", "open", "half_open"}
      /\ (circuit[b] = "closed" <=> failures[b] < Threshold)
  BY ServiceAssumption DEF BreakersInv
<1>3. count \in 0..Threshold
  BY <1>2
<1>4. circuit'[b] \in {"closed", "open", "half_open"} /\ failures'[b] = count
      /\ (circuit'[b] = "closed" <=> count < Threshold)
  BY <1>1, <1>2, <1>3 DEF BreakersInv
<1> HIDE DEF count
<1>5. \A d \in Backends \ {b} : circuit'[d] = circuit[d] /\ failures'[d] = failures[d]
  BY <1>1 DEF BreakersInv
<1>6. failures' \in [Backends -> 0..Threshold] /\ circuit' \in [Backends -> {"closed", "open", "half_open"}]
  BY <1>1, <1>2, <1>3 DEF BreakersInv
<1> QED
  BY <1>4, <1>5, <1>6 DEF BreakersInv

LEMMA HeldQuiet ==
    ASSUME ReportInv, NEW w \in Workers, UNCHANGED stores,
           job'[w] = job[w], results'[w] = results[w], touched'[w] = touched[w]
    PROVE  HeldInv(w)'
<1>1. HeldInv(w) /\ WorkInv(w) /\ job[w] \in Asked \cup {NoJob}
  BY DEF ReportInv, WorkerInv, WorkInv
<1>2. CASE job[w].kind \in {"generate", "delete"}
  <2>1. DOMAIN results[w] \subseteq DOMAIN job[w].route
    BY <1>1, <1>2, Within
  <2>2. \A b, i : Same(b, i)
    BY StoresStay
  <2> QED
    BY <1>1, <2>1, <2>2, HeldStays
<1>3. CASE job[w].kind \notin {"generate", "delete"}
  BY <1>3 DEF HeldInv, IsSo
<1> QED
  BY <1>2, <1>3

\* A worker whose turn it is with a backend.
LEMMA Turn ==
    ASSUME ReportInv, NEW w \in Workers,
           pc[w] \in Putting \cup Getting \cup Deleting
    PROVE  /\ Backend(w) \in Backends /\ job[w].id \in Ids
           /\ job[w] \in Asked \cup {NoJob}
           /\ at[w] \in DOMAIN job[w].route /\ at[w] \in 1..Len(job[w].route)
           /\ Len(job[w].route) \in Nat /\ Len(job[w].route) <= Len(Fanout) /\ Len(Fanout) \in Nat
           /\ pc[w] \in Putting =>
                 /\ job[w].kind = "generate" /\ job[w].content \in Contents
                 /\ Len(results[w]) = at[w] - 1 /\ results[w] \in Seq(PutOutcomes)
                 /\ Len(job[w].route) = Len(Fanout)
           /\ pc[w] \in Deleting =>
                 /\ job[w].kind = "delete" /\ Len(job[w].route) = Len(Fanout)
                 /\ Len(results[w]) = at[w] - 1 /\ results[w] \in Seq(RemoveOutcomes)
<1>1. WorkInv(w)
  BY DEF ReportInv, WorkerInv
<1>2. job[w] \in Asked \cup {NoJob}
  BY <1>1 DEF WorkInv
<1>3. job[w].kind \in {"generate", "get", "delete"}
  BY <1>1 DEF WorkInv, Generating, Putting, Writing, Getting, Deleting
<1>4. at[w] \in DOMAIN job[w].route
  BY <1>1 DEF WorkInv, Putting, Getting, Deleting
<1>5. Len(Fanout) \in Nat
  BY ServiceAssumption, LenProperties
<1>6. /\ job[w].id \in Ids /\ job[w].route[at[w]] \in Backends
      /\ Len(job[w].route) \in Nat /\ Len(job[w].route) <= Len(Fanout)
      /\ at[w] \in 1..Len(job[w].route)
  BY <1>2, <1>3, <1>4, JobTypes
<1>7. ASSUME pc[w] \in Putting
      PROVE  /\ job[w].kind = "generate" /\ job[w].content \in Contents
             /\ Len(results[w]) = at[w] - 1 /\ results[w] \in Seq(PutOutcomes)
             /\ Len(job[w].route) = Len(Fanout)
  <2>1. /\ job[w].kind = "generate" /\ Len(results[w]) = at[w] - 1
        /\ results[w] \in Seq(PutOutcomes)
    BY <1>1, <1>7 DEF WorkInv, Generating, Putting
  <2>2. job[w].content \in Contents /\ job[w].route \in {Fanout, <<>>}
    BY <1>2, <2>1, JobTypes
  <2>3. job[w].route # <<>>
    BY <1>6, EmptySeq
  <2> QED
    BY <2>1, <2>2, <2>3
<1>8. ASSUME pc[w] \in Deleting
      PROVE  /\ job[w].kind = "delete" /\ Len(job[w].route) = Len(Fanout)
             /\ Len(results[w]) = at[w] - 1 /\ results[w] \in Seq(RemoveOutcomes)
  <2>1. /\ job[w].kind = "delete" /\ Len(results[w]) = at[w] - 1
        /\ results[w] \in Seq(RemoveOutcomes)
    BY <1>1, <1>8 DEF WorkInv, Deleting
  <2> QED
    BY <1>2, <2>1, JobTypes
<1> QED
  BY <1>2, <1>4, <1>5, <1>6, <1>7, <1>8 DEF Backend

-----------------------------------------------------------------------------
(* The steps of a put                                                      *)

\* The worker has its answer of one backend, and goes on to the next one.
LEMMA ProceedKeepsWork ==
    ASSUME ReportInv, NEW w \in Workers, pc[w] \in Putting,
           NEW outcome \in PutOutcomes, Proceed(w, outcome), UNCHANGED <<job, reply>>,
           DOMAIN touched' = Workers
    PROVE  /\ Moves(w) /\ WorkInv(w)' /\ ReplyInv(w)' /\ HalfInv(w)'
           /\ job'[w] = job[w] /\ results'[w] = Append(results[w], outcome)
           /\ pc'[w] \in {"insert", "ask"}
<1>1. /\ pc' = [pc EXCEPT ![w] = IF Last(w) THEN "insert" ELSE "ask"]
      /\ results' = [results EXCEPT ![w] = Append(@, outcome)]
      /\ at' = [at EXCEPT ![w] = @ + 1]
      /\ job' = job /\ reply' = reply
  BY DEF Proceed, Goto
<1>2. TablesInv
  BY DEF ReportInv
<1>3. Moves(w)
  BY <1>1, <1>2 DEF Moves, TablesInv, Steps
<1>4. /\ pc'[w] = (IF Last(w) THEN "insert" ELSE "ask") /\ at'[w] = at[w] + 1
      /\ results'[w] = Append(results[w], outcome) /\ job'[w] = job[w] /\ reply'[w] = reply[w]
  BY <1>1, <1>2 DEF TablesInv
<1>5. /\ job[w] \in Asked \cup {NoJob} /\ job[w].kind = "generate"
      /\ at[w] \in 1..Len(job[w].route) /\ Len(job[w].route) = Len(Fanout) /\ Len(Fanout) \in Nat
      /\ Len(results[w]) = at[w] - 1 /\ results[w] \in Seq(PutOutcomes)
  BY Turn
<1>6. results'[w] \in Seq(PutOutcomes) /\ Len(results'[w]) = at[w]
  <2>1. Append(results[w], outcome) \in Seq(PutOutcomes)
        /\ Len(Append(results[w], outcome)) = Len(results[w]) + 1
    BY <1>5, AppendProperties
  <2> QED
    BY <1>4, <1>5, <2>1
<1>7. DOMAIN job[w].route = 1..Len(job[w].route)
  BY <1>5, JobTypes
<1>8. WorkInv(w)'
  BY <1>4, <1>5, <1>6, <1>7 DEF WorkInv, Last, Generating, Putting, Writing, Getting, Deleting
<1>9. ReplyInv(w)' /\ HalfInv(w)'
  BY <1>4 DEF ReportInv, WorkerInv, ReplyInv, HalfInv, Putting, Writing
<1> QED
  BY <1>3, <1>4, <1>8, <1>9

LEMMA AskKeeps ==
    ASSUME ReportInv, NEW w \in Workers, Ask(w)
    PROVE  ReportInv'
<1>1. /\ pc[w] = "ask" /\ pc' = [pc EXCEPT ![w] = "put"]
      /\ circuit' = [circuit EXCEPT ![Backend(w)] = IF @ = "open" THEN "half_open" ELSE @]
      /\ failures' = failures /\ job' = job /\ at' = at /\ results' = results /\ reply' = reply
      /\ touched' = touched /\ cache' = cache /\ UNCHANGED stores
  BY DEF Ask, Goto
<1>2. TablesInv /\ WorkInv(w) /\ ReplyInv(w) /\ CacheInv /\ BreakersInv
  BY DEF ReportInv, WorkerInv
<1>3. Moves(w) /\ pc'[w] = "put"
  BY <1>1, <1>2 DEF Moves, TablesInv, Steps
<1>4. CacheInv'
  BY <1>1, <1>2, <1>3, CacheStays
<1>5. BreakersInv'
  <2>1. Backend(w) \in Backends
    BY <1>1, Turn DEF Putting
  <2> QED
    BY <1>1, <1>2, <2>1 DEF BreakersInv
<1>6. HeldInv(w)'
  BY <1>1, HeldQuiet
<1>7. WorkInv(w)' /\ ReplyInv(w)' /\ HalfInv(w)'
  BY <1>1, <1>2, <1>3 DEF WorkInv, ReplyInv, HalfInv, Generating, Putting, Writing, Getting, Deleting
<1> QED
  BY <1>1, <1>3, <1>4, <1>5, <1>6, <1>7, QuietStep DEF WorkerInv, Writing

\* An answer that claims nothing.
LEMMA HeldUnclaimed ==
    ASSUME ReportInv, NEW w \in Workers, pc[w] \in Putting,
           NEW outcome \in {"failed", "skipped"}, UNCHANGED stores,
           job'[w] = job[w], touched'[w] = touched[w],
           results'[w] = Append(results[w], outcome)
    PROVE  HeldInv(w)'
<1> PICK j : j = job[w]
  OBVIOUS
<1>1. /\ Backend(w) \in Backends /\ j.id \in Ids /\ j \in Asked \cup {NoJob} /\ j.kind = "generate"
      /\ at[w] \in DOMAIN j.route /\ Len(results[w]) = at[w] - 1 /\ results[w] \in Seq(PutOutcomes)
  BY Turn
<1> PICK b \in Backends : b = Backend(w)
  BY <1>1
<1>2. IsSo(b, j, outcome)'
  BY <1>1 DEF IsSo
<1>3. Only(b)
  BY StoresStay
<1>4. HeldInv(w)
  BY DEF ReportInv, WorkerInv
<1>5. outcome \in PutOutcomes
  BY DEF PutOutcomes
<1> QED
  BY <1>1, <1>2, <1>3, <1>4, <1>5, HeldGrows

LEMMA SkipKeeps ==
    ASSUME ReportInv, NEW w \in Workers, Skip(w)
    PROVE  ReportInv'
<1>1. /\ pc[w] = "ask" /\ Proceed(w, "skipped") /\ UNCHANGED <<job, reply>>
      /\ UNCHANGED stores /\ cache' = cache /\ circuit' = circuit /\ failures' = failures
      /\ touched' = touched
  BY DEF Skip, shared
<1>2. "skipped" \in PutOutcomes /\ DOMAIN touched' = Workers
  BY <1>1 DEF PutOutcomes, ReportInv, TablesInv
<1>3. /\ Moves(w) /\ WorkInv(w)' /\ ReplyInv(w)' /\ HalfInv(w)'
      /\ job'[w] = job[w] /\ results'[w] = Append(results[w], "skipped")
      /\ pc'[w] \in {"insert", "ask"}
  BY <1>1, <1>2, ProceedKeepsWork DEF Putting
<1>4. HeldInv(w)'
  BY <1>1, <1>3, HeldUnclaimed DEF Putting
<1>5. CacheInv' /\ BreakersInv'
  BY <1>1, <1>3, CacheStays DEF ReportInv, BreakersInv
<1> QED
  BY <1>1, <1>3, <1>4, <1>5, QuietStep DEF WorkerInv, Writing

LEMMA PutFailsKeeps ==
    ASSUME ReportInv, NEW w \in Workers, PutFails(w)
    PROVE  ReportInv'
<1>1. /\ pc[w] \in {"put"} \cup Writing /\ Proceed(w, "failed") /\ UNCHANGED <<job, reply>>
      /\ UNCHANGED stores /\ cache' = cache /\ RecordFailure(Backend(w))
      /\ touched' = touched
  BY DEF PutFails
<1>2. "failed" \in PutOutcomes /\ DOMAIN touched' = Workers
  BY <1>1 DEF PutOutcomes, ReportInv, TablesInv
<1>3. /\ Moves(w) /\ WorkInv(w)' /\ ReplyInv(w)' /\ HalfInv(w)'
      /\ job'[w] = job[w] /\ results'[w] = Append(results[w], "failed")
      /\ pc'[w] \in {"insert", "ask"}
  BY <1>1, <1>2, ProceedKeepsWork DEF Putting
<1>4. HeldInv(w)'
  BY <1>1, <1>3, HeldUnclaimed DEF Putting
<1>5. CacheInv'
  BY <1>1, <1>3, CacheStays DEF ReportInv, Writing
<1>6. BreakersInv'
  BY <1>1, Turn, FailureKeepsBreakers DEF ReportInv, Putting
<1> QED
  BY <1>1, <1>3, <1>4, <1>5, <1>6, QuietStep DEF WorkerInv, Writing

\* A backend holds the report it has just stored.
LEMMA StoredKeeps ==
    ASSUME ReportInv, NEW w \in Workers, pc[w] \in {"put"} \cup Writing,
           NEW b \in Backends, b = Backend(w), NEW j, j = job[w],
           Stored(w), UNCHANGED <<job, reply>>, cache' = cache,
           NEW ids, Touch(w, b, ids), Only(b), \A i \in Ids \ ids : Same(b, i),
           StoresInv', UNCHANGED disk \/ HasDisk(w), Holds(b, j.id, j.content)'
    PROVE  ReportInv'
<1>1. DOMAIN touched' = Workers /\ touched'[w] = touched[w]
  BY DEF Touch
<1>2. "stored" \in PutOutcomes /\ Proceed(w, "stored") /\ RecordSuccess(b)
  BY DEF PutOutcomes, Stored
<1>3. /\ Moves(w) /\ WorkInv(w)' /\ ReplyInv(w)' /\ HalfInv(w)'
      /\ job'[w] = job[w] /\ results'[w] = Append(results[w], "stored")
      /\ pc'[w] \in {"insert", "ask"}
  BY <1>1, <1>2, ProceedKeepsWork DEF Putting
<1>4. HeldInv(w)'
  <2>1. /\ j.id \in Ids /\ j \in Asked \cup {NoJob} /\ j.kind = "generate"
        /\ at[w] \in DOMAIN j.route /\ Len(results[w]) = at[w] - 1 /\ results[w] \in Seq(PutOutcomes)
    BY Turn DEF Putting
  <2>2. IsSo(b, j, "stored")'
    BY <2>1 DEF IsSo
  <2>3. HeldInv(w)
    BY DEF ReportInv, WorkerInv
  <2> QED
    BY <1>1, <1>2, <1>3, <2>1, <2>2, <2>3, HeldGrows
<1>5. CacheInv'
  BY <1>3, CacheStays DEF ReportInv, Writing
<1>6. BreakersInv'
  BY <1>2, SuccessKeepsBreakers DEF ReportInv
<1>7. WorkerInv(w)' /\ pc'[w] \notin Writing
  BY <1>3, <1>4 DEF WorkerInv, Writing
<1> QED
  BY <1>3, <1>5, <1>6, <1>7, TouchStep

LEMMA PutBucket ==
    ASSUME StoresInv, NEW i \in Ids, NEW c \in Contents, BucketPut(i, c)
    PROVE  /\ StoresInv' /\ Holds("s3", i, c)'
           /\ \A j \in Ids \ {i} : bucket'[j] = bucket[j]
           /\ Only("s3")
<1>1. /\ bucket' = [bucket EXCEPT ![i][FormatOf[c]] = c]
      /\ memory' = memory /\ UNCHANGED disk
  BY DEF BucketPut
<1>2. FormatOf[c] \in Extensions
  BY StoresAssumption DEF Extensions
<1>3. /\ bucket' \in [Ids -> [Extensions -> Contents \cup {NoContent}]]
      /\ bucket'[i][FormatOf[c]] = c
      /\ \A j \in Ids \ {i} : bucket'[j] = bucket[j]
  BY <1>1, <1>2 DEF StoresInv
<1>4. StoresInv'
  BY <1>1, <1>3, DiskStays DEF StoresInv
<1>5. Only("s3")
  BY <1>1 DEF Only, Same, SameFile, Served, Backends, disk
<1>6. Holds("s3", i, c)'
  BY <1>3 DEF Holds
<1> QED
  BY <1>3, <1>4, <1>5, <1>6

LEMMA PutKeeps ==
    ASSUME ReportInv, NEW w \in Workers, Put(w)
    PROVE  ReportInv'
<1>1. /\ pc[w] = "put" /\ Stored(w) /\ UNCHANGED <<job, reply>> /\ cache' = cache /\ StoresInv
  BY DEF Put, ReportInv
<1> PICK j : j = job[w]
  OBVIOUS
<1> PICK b \in Backends : b = Backend(w)
  BY <1>1, Turn DEF Putting
<1>2. j.id \in Ids /\ j.content \in Contents
  BY <1>1, Turn DEF Putting
<1>3. CASE b = "memory"
  <2>1. MemoryPut(j.id, j.content) /\ Touch(w, b, {j.id} \cup PushedOut(j.id))
    BY <1>3 DEF Put, Touch
  <2>2. /\ StoresInv' /\ Served("memory", j.id)' = {j.content}
        /\ \A i : i \notin {j.id} \cup PushedOut(j.id) => Served("memory", i)' = Served("memory", i)
    BY <1>1, <1>2, <2>1, PutMemory
  <2>3. UNCHANGED disk /\ bucket' = bucket
    BY <2>1 DEF MemoryPut
  <2>4. Holds(b, j.id, j.content)'
    BY <1>3, <2>2 DEF Holds
  <2>5. Only(b)
    BY <1>3, <2>3 DEF Only, Same, SameFile, disk
  <2>6. \A i \in Ids \ ({j.id} \cup PushedOut(j.id)) : Same(b, i)
    BY <1>3, <2>2 DEF Same
  <2> QED
    BY <1>1, <2>1, <2>2, <2>3, <2>4, <2>5, <2>6, StoredKeeps
<1>4. CASE b # "memory"
  <2>1. BucketPut(j.id, j.content) /\ Touch(w, b, {j.id}) /\ b = "s3"
    BY <1>4 DEF Put
  <2>2. /\ StoresInv' /\ Holds(b, j.id, j.content)' /\ Only(b)
        /\ \A i \in Ids \ {j.id} : bucket'[i] = bucket[i]
    BY <1>1, <1>2, <2>1, PutBucket
  <2>3. \A i \in Ids \ {j.id} : Same(b, i)
    BY <2>1, <2>2 DEF Same
  <2>4. UNCHANGED disk
    BY <2>1 DEF BucketPut
  <2> QED
    BY <1>1, <2>1, <2>2, <2>3, <2>4, StoredKeeps
<1> QED
  BY <1>3, <1>4

\* The answers so far are about other backends than the one whose turn it is.
LEMMA HeldEarlier ==
    ASSUME ReportInv, NEW w \in Workers, pc[w] \in Putting \cup Deleting,
           NEW b \in Backends, b = Backend(w), Only(b),
           job'[w] = job[w], results'[w] = results[w], touched'[w] = touched[w]
    PROVE  HeldInv(w)'
<1> PICK j : j = job[w]
  OBVIOUS
<1>1. HeldInv(w) /\ WorkInv(w)
  BY DEF ReportInv, WorkerInv
<1>2. /\ j.id \in Ids /\ j \in Asked \cup {NoJob} /\ j.kind \in {"generate", "delete"}
      /\ at[w] \in DOMAIN j.route /\ Len(results[w]) = at[w] - 1 /\ at[w] \in 1..Len(j.route)
  BY Turn
<1>3. /\ \A k \in DOMAIN j.route : j.route[k] \in Backends
      /\ \A k, m \in DOMAIN j.route : j.route[k] = j.route[m] => k = m
  BY <1>2, JobTypes
<1>4. DOMAIN results[w] = 1..Len(results[w]) /\ DOMAIN results[w] \subseteq DOMAIN j.route
  BY <1>1, <1>2, Within
<1>5. \A k \in DOMAIN results[w] : k # at[w]
  BY <1>2, <1>4
<1>6. \A k \in DOMAIN results[w] : j.route[k] \in Backends \ {b}
  BY <1>2, <1>3, <1>4, <1>5 DEF Backend
<1>7. \A k \in DOMAIN results[w] : Same(j.route[k], j.id)
  BY <1>2, <1>6 DEF Only
<1> QED
  BY <1>1, <1>2, <1>4, <1>7, HeldStays

\* Nothing is changed but the files of one name.
OnlyFile(n) ==
    /\ memory' = memory /\ bucket' = bucket
    /\ \A m \in Names \ {n} : SameFile(m)

LEMMA OnlyFileMeans ==
    ASSUME NEW i \in Ids, OnlyFile(FileOf[i])
    PROVE  Only("local") /\ \A k \in Ids \ Sharing(i) : Same("local", k)
<1>1. Only("local")
  BY DEF Only, OnlyFile, Same, Served
<1>2. ASSUME NEW k \in Ids \ Sharing(i)
      PROVE  Same("local", k)
  <2>1. FileOf[k] # FileOf[i] /\ FileOf[k] \in Names
    BY DEF Sharing, Names
  <2> QED
    BY <2>1 DEF OnlyFile, Same
<1> QED
  BY <1>1, <1>2

\* What is settled elsewhere stays so.
LEMMA OnlyFileSettles ==
    ASSUME StoresInv, NEW n \in Names, OnlyFile(n), Settled(n)',
           body' \in [Names -> [Extensions -> Contents \cup {NoContent, Damaged}]],
           sidecar' \in [Names -> Contents \cup {NoContent, Damaged}],
           unsettled' \subseteq Names
    PROVE  StoresInv'
<1>1. ASSUME NEW m \in Names \ {n}
      PROVE  Settled(m)'
  BY DEF StoresInv, DiskInv, Settled, OnlyFile, SameFile
<1>2. DiskInv'
  BY <1>1 DEF DiskInv
<1> QED
  BY <1>2 DEF StoresInv, OnlyFile

\* A piece of a put on disk that is not the last one.
LEMMA WritesKeeps ==
    ASSUME ReportInv, NEW w \in Workers, pc[w] \in {"put"} \cup Writing, Backend(w) = "local",
           NEW step \in Writing, Writes(w, step), HasDisk(w), NEW j, j = job[w],
           StoresInv', OnlyFile(FileOf[j.id]), FileOf[j.id] \in unsettled',
           step \in {"described", "sidecar"} => body'[FileOf[j.id]][FormatOf[j.content]] = j.content
    PROVE  ReportInv'
<1>1. /\ pc' = [pc EXCEPT ![w] = step] /\ Touch(w, "local", Sharing(j.id))
      /\ job' = job /\ at' = at /\ results' = results /\ reply' = reply
      /\ cache' = cache /\ circuit' = circuit /\ failures' = failures
  BY DEF Writes, Goto
<1>2. pc[w] \in Putting /\ j.id \in Ids
  BY Turn DEF Putting
<1>3. TablesInv /\ WorkInv(w) /\ ReplyInv(w) /\ CacheInv /\ BreakersInv
  BY DEF ReportInv, WorkerInv
<1>4. DOMAIN touched' = Workers /\ touched'[w] = touched[w]
  BY <1>1 DEF Touch
<1>5. Moves(w) /\ pc'[w] = step
  BY <1>1, <1>3, <1>4 DEF Moves, TablesInv, Steps, Writing
<1>6. "local" \in Backends /\ Only("local") /\ \A k \in Ids \ Sharing(j.id) : Same("local", k)
  BY <1>2, OnlyFileMeans DEF Backends
<1>7. CacheInv' /\ BreakersInv'
  BY <1>1, <1>3, <1>5, CacheStays DEF BreakersInv, Writing
<1>8. WorkInv(w)'
  BY <1>1, <1>2, <1>3, <1>5 DEF WorkInv, Generating, Putting, Writing, Getting, Deleting
<1>9. ReplyInv(w)'
  BY <1>1, <1>3, <1>5 DEF ReplyInv, Writing
<1>10. HalfInv(w)'
  BY <1>1, <1>5 DEF HalfInv, Backend, Writing
<1>11. HeldInv(w)'
  BY <1>1, <1>2, <1>4, <1>6, HeldEarlier
<1> QED
  BY <1>1, <1>5, <1>6, <1>7, <1>8, <1>9, <1>10, <1>11, TouchStep DEF WorkerInv

LEMMA PutOpensKeeps ==
    ASSUME ReportInv, NEW w \in Workers, PutOpens(w)
    PROVE  ReportInv'
<1> PICK j : j = job[w]
  OBVIOUS
<1> PICK n : n = FileOf[j.id]
  OBVIOUS
<1>1. /\ pc[w] = "put" /\ Backend(w) = "local" /\ HasDisk(w) /\ OpenBody(j.id, j.content)
      /\ Writes(w, "body") /\ StoresInv /\ DiskInv
  BY DEF PutOpens, HasDisk, ReportInv, StoresInv
<1>2. j.id \in Ids /\ j.content \in Contents
  BY <1>1, Turn DEF Putting
<1>3. n \in Names /\ FormatOf[j.content] \in Extensions
  BY <1>2, StoresAssumption DEF Names, Extensions
<1>4. /\ body' = [body EXCEPT ![n][FormatOf[j.content]] = Damaged]
      /\ unsettled' = unsettled \cup {n} /\ sidecar' = sidecar /\ memory' = memory /\ bucket' = bucket
  BY <1>1 DEF OpenBody
<1>5. /\ body' \in [Names -> [Extensions -> Contents \cup {NoContent, Damaged}]]
      /\ OnlyFile(n) /\ unsettled' \subseteq Names
  BY <1>1, <1>3, <1>4 DEF DiskInv, OnlyFile, SameFile
<1>6. Settled(n)' /\ n \in unsettled' /\ sidecar' \in [Names -> Contents \cup {NoContent, Damaged}]
  BY <1>1, <1>4 DEF Settled, DiskInv
<1>7. StoresInv'
  BY <1>1, <1>3, <1>5, <1>6, OnlyFileSettles
<1>8. "body" \in Writing /\ "body" \notin {"described", "sidecar"}
  BY DEF Writing
<1> QED
  BY <1>1, <1>5, <1>6, <1>7, <1>8, WritesKeeps

LEMMA PutBodyKeeps ==
    ASSUME ReportInv, NEW w \in Workers, PutBody(w)
    PROVE  ReportInv'
<1> PICK j : j = job[w]
  OBVIOUS
<1> PICK n : n = FileOf[j.id]
  OBVIOUS
<1>1. /\ pc[w] = "body" /\ pc[w] \in Writing /\ WriteBody(j.id, j.content)
      /\ Writes(w, "described") /\ StoresInv /\ DiskInv
  BY DEF PutBody, ReportInv, StoresInv, Writing
<1>2. Backend(w) = "local" /\ n \in unsettled /\ HasDisk(w)
  BY <1>1 DEF ReportInv, WorkerInv, HalfInv, HasDisk
<1>3. j.id \in Ids /\ j.content \in Contents
  BY <1>1, Turn DEF Putting
<1>4. n \in Names /\ FormatOf[j.content] \in Extensions
  BY <1>3, StoresAssumption DEF Names, Extensions
<1>5. /\ body' = [body EXCEPT ![n][FormatOf[j.content]] = j.content]
      /\ unsettled' = unsettled /\ sidecar' = sidecar /\ memory' = memory /\ bucket' = bucket
  BY <1>1 DEF WriteBody
<1>6. /\ body' \in [Names -> [Extensions -> Contents \cup {NoContent, Damaged}]]
      /\ body'[n][FormatOf[j.content]] = j.content /\ OnlyFile(n)
  BY <1>1, <1>3, <1>4, <1>5 DEF DiskInv, OnlyFile, SameFile
<1>7. /\ Settled(n)' /\ n \in unsettled' /\ unsettled' \subseteq Names
      /\ sidecar' \in [Names -> Contents \cup {NoContent, Damaged}]
  BY <1>1, <1>2, <1>5 DEF Settled, DiskInv
<1>8. StoresInv'
  BY <1>1, <1>4, <1>6, <1>7, OnlyFileSettles
<1>9. "described" \in Writing
  BY DEF Writing
<1> QED
  BY <1>1, <1>2, <1>6, <1>7, <1>8, <1>9, WritesKeeps

LEMMA PutDescribesKeeps ==
    ASSUME ReportInv, NEW w \in Workers, PutDescribes(w)
    PROVE  ReportInv'
<1> PICK j : j = job[w]
  OBVIOUS
<1> PICK n : n = FileOf[j.id]
  OBVIOUS
<1>1. /\ pc[w] = "described" /\ pc[w] \in Writing /\ OpenSidecar(j.id)
      /\ Writes(w, "sidecar") /\ StoresInv /\ DiskInv
  BY DEF PutDescribes, ReportInv, StoresInv, Writing
<1>2. /\ Backend(w) = "local" /\ n \in unsettled /\ HasDisk(w)
      /\ body[n][FormatOf[j.content]] = j.content
  BY <1>1 DEF ReportInv, WorkerInv, HalfInv, HasDisk
<1>3. j.id \in Ids
  BY <1>1, Turn DEF Putting
<1>4. n \in Names
  BY <1>3 DEF Names
<1>5. /\ sidecar' = [sidecar EXCEPT ![n] = Damaged]
      /\ unsettled' = unsettled /\ body' = body /\ memory' = memory /\ bucket' = bucket
  BY <1>1 DEF OpenSidecar
<1>6. sidecar' \in [Names -> Contents \cup {NoContent, Damaged}] /\ OnlyFile(n)
  BY <1>1, <1>4, <1>5 DEF DiskInv, OnlyFile, SameFile
<1>7. /\ Settled(n)' /\ n \in unsettled' /\ unsettled' \subseteq Names
      /\ body' \in [Names -> [Extensions -> Contents \cup {NoContent, Damaged}]]
  BY <1>1, <1>2, <1>5 DEF Settled, DiskInv
<1>8. StoresInv'
  BY <1>1, <1>4, <1>6, <1>7, OnlyFileSettles
<1>9. "sidecar" \in Writing
  BY DEF Writing
<1> QED
  BY <1>1, <1>2, <1>5, <1>6, <1>7, <1>8, <1>9, WritesKeeps

LEMMA PutSidecarKeeps ==
    ASSUME ReportInv, NEW w \in Workers, PutSidecar(w)
    PROVE  ReportInv'
<1> PICK j : j = job[w]
  OBVIOUS
<1> PICK n : n = FileOf[j.id]
  OBVIOUS
<1>1. /\ pc[w] = "sidecar" /\ pc[w] \in Writing
      /\ Stored(w) /\ UNCHANGED <<job, reply>> /\ cache' = cache
      /\ WriteSidecar(j.id, j.content) /\ Touch(w, "local", Sharing(j.id)) /\ StoresInv /\ DiskInv
  BY DEF PutSidecar, ReportInv, StoresInv, Writing
<1>2. /\ Backend(w) = "local" /\ body[n][FormatOf[j.content]] = j.content /\ HasDisk(w)
  BY <1>1 DEF ReportInv, WorkerInv, HalfInv, HasDisk
<1>3. j.id \in Ids /\ j.content \in Contents
  BY <1>1, Turn DEF Putting
<1>4. n \in Names
  BY <1>3 DEF Names
<1>5. /\ sidecar' = [sidecar EXCEPT ![n] = j.content] /\ unsettled' = unsettled \ {n}
      /\ memory' = memory /\ body' = body /\ bucket' = bucket
  BY <1>1 DEF WriteSidecar
<1>6. /\ sidecar' \in [Names -> Contents \cup {NoContent, Damaged}] /\ sidecar'[n] = j.content
      /\ OnlyFile(n)
  BY <1>1, <1>3, <1>4, <1>5 DEF DiskInv, OnlyFile, SameFile
<1>7. /\ Settled(n)' /\ unsettled' \subseteq Names
      /\ body' \in [Names -> [Extensions -> Contents \cup {NoContent, Damaged}]]
  BY <1>1, <1>2, <1>5, <1>6 DEF Settled, DiskInv
<1>8. StoresInv'
  BY <1>1, <1>4, <1>6, <1>7, OnlyFileSettles
<1>9. "local" \in Backends /\ Only("local") /\ \A k \in Ids \ Sharing(j.id) : Same("local", k)
  BY <1>3, <1>6, OnlyFileMeans DEF Backends
<1>10. Holds("local", j.id, j.content)'
  <2>1. j.content # NoContent
    BY <1>3, StoresAssumption
  <2> QED
    BY <1>2, <1>3, <1>5, <1>6, <2>1 DEF Holds, Served, Readable
<1> QED
  BY <1>1, <1>2, <1>8, <1>9, <1>10, StoredKeeps

-----------------------------------------------------------------------------
(* The other steps that leave the response cache alone                     *)

LEMMA AcceptKeeps ==
    ASSUME ReportInv, NEW w \in Workers, Accept(w)
    PROVE  ReportInv'
<1> PICK j \in Asked : /\ job' = [job EXCEPT ![w] = j]
                       /\ Goto(w, CASE j.kind = "generate" -> "lookup"
                                    [] j.kind = "get" -> "search"
                                    [] j.kind = "delete" -> "remove")
  BY DEF Accept
<1>1. /\ pc[w] = "idle" /\ at' = [at EXCEPT ![w] = 1] /\ results' = [results EXCEPT ![w] = <<>>]
      /\ reply' = [reply EXCEPT ![w] = [status |-> "none"]]
      /\ touched' = [touched EXCEPT ![w] = {}]
      /\ UNCHANGED stores /\ cache' = cache /\ circuit' = circuit /\ failures' = failures
  BY DEF Accept, shared
<1>2. TablesInv /\ CacheInv /\ BreakersInv
  BY DEF ReportInv
<1>3. j.kind \in {"generate", "get", "delete"}
  BY DEF Asked
<1> DEFINE next == IF j.kind = "generate" THEN "lookup"
                   ELSE IF j.kind = "get" THEN "search" ELSE "remove"
<1>4. pc' = [pc EXCEPT ![w] = next]
  BY <1>3 DEF Goto
<1>5. Moves(w)
  BY <1>1, <1>2, <1>4 DEF Moves, TablesInv, Steps
<1>6. /\ pc'[w] = next /\ job'[w] = j /\ at'[w] = 1 /\ results'[w] = <<>>
      /\ reply'[w].status = "none"
  BY <1>1, <1>2, <1>4 DEF TablesInv
<1>7. /\ Len(j.route) \in Nat /\ DOMAIN j.route = 1..Len(j.route)
      /\ j.kind = "delete" => j.route = Fanout
      /\ j.kind = "get" => Len(j.route) \in 1..Len(Fanout)
  BY JobTypes
<1>8. Fanout # <<>> /\ Len(Fanout) \in Nat \ {0}
  BY ServiceAssumption, EmptySeq, LenProperties
<1>9. Len(<<>>) = 0 /\ <<>> \in Seq(PutOutcomes) /\ <<>> \in Seq(RemoveOutcomes)
      /\ \A k : k \notin DOMAIN <<>>
  OBVIOUS
<1>10. j.kind # "generate" => 1 \in DOMAIN j.route
  BY <1>3, <1>7, <1>8
<1>11. WorkInv(w)'
  BY <1>3, <1>6, <1>7, <1>9, <1>10 DEF WorkInv, Generating, Putting, Writing, Getting, Deleting
<1>12. ReplyInv(w)' /\ HeldInv(w)' /\ HalfInv(w)'
  BY <1>3, <1>6, <1>9 DEF ReplyInv, HeldInv, HalfInv, Writing
<1>13. CacheInv' /\ BreakersInv'
  BY <1>1, <1>2, <1>3, <1>5, <1>6, CacheStays DEF BreakersInv
<1>14. WorkerInv(w)' /\ pc'[w] \notin Writing
  BY <1>3, <1>6, <1>11, <1>12 DEF WorkerInv, Writing
<1>15. \A v \in Workers \ {w} : touched'[v] = touched[v]
  BY <1>1, <1>2 DEF TablesInv
<1> QED
  BY <1>1, <1>5, <1>13, <1>14, <1>15, QuietStep

LEMMA EntryOf ==
    ASSUME CacheInv, NEW key, NEW e \in Entries(key)
    PROVE  /\ e.key = key /\ e.id \in Ids /\ e.results \in Seq(PutOutcomes) /\ Complete(e.results)
<1>1. cache \in Seq(CacheEntries)
  BY DEF CacheInv
<1> PICK k \in DOMAIN cache : e = cache[k] /\ cache[k].key = key
  BY DEF Entries, Keyed
<1>2. e \in CacheEntries
  BY <1>1, LenProperties, ElementOfSeq
<1> QED
  BY <1>2 DEF CacheEntries

LEMMA HitKeeps ==
    ASSUME ReportInv, NEW w \in Workers, Hit(w)
    PROVE  ReportInv'
<1> PICK e \in Entries(job[w].content) :
        reply' = [reply EXCEPT ![w] =
            [status |-> "none", cached |-> TRUE, id |-> e.id, results |-> e.results]]
  BY DEF Hit
<1>1. /\ pc[w] = "lookup" /\ pc' = [pc EXCEPT ![w] = "promote"]
      /\ UNCHANGED stores /\ cache' = cache /\ circuit' = circuit /\ failures' = failures
      /\ job' = job /\ at' = at /\ results' = results /\ touched' = touched
  BY DEF Hit, Goto, shared
<1>2. TablesInv /\ WorkInv(w) /\ CacheInv /\ BreakersInv
  BY DEF ReportInv, WorkerInv
<1>3. Moves(w) /\ pc'[w] = "promote"
  BY <1>1, <1>2 DEF Moves, TablesInv, Steps
<1>4. e.id \in Ids /\ e.results \in Seq(PutOutcomes) /\ Complete(e.results)
  BY <1>2, EntryOf
<1>5. reply'[w] = [status |-> "none", cached |-> TRUE, id |-> e.id, results |-> e.results]
  BY <1>2 DEF TablesInv
<1>6. ReplyInv(w)'
  <2>1. \E i \in Ids, outcomes \in Seq(PutOutcomes) :
           /\ Complete(outcomes)
           /\ reply'[w] = [status |-> "none", cached |-> TRUE, id |-> i, results |-> outcomes]
    BY <1>4, <1>5
  <2>2. reply'[w].status = "none"
    BY <1>5
  <2> QED
    BY <2>1, <2>2 DEF ReplyInv, Complete
<1>7. WorkInv(w)' /\ HalfInv(w)'
  BY <1>1, <1>2, <1>3 DEF WorkInv, HalfInv, Generating, Putting, Writing, Getting, Deleting
<1>8. HeldInv(w)'
  BY <1>1, HeldQuiet
<1>9. CacheInv' /\ BreakersInv'
  BY <1>1, <1>2, <1>3, CacheStays DEF BreakersInv
<1> QED
  BY <1>1, <1>3, <1>6, <1>7, <1>8, <1>9, QuietStep DEF WorkerInv, Writing

\* A step of a worker that ends its job with an answer that is not a report.
LEMMA AnswerKeeps ==
    ASSUME ReportInv, NEW w \in Workers, NEW r, r.status # "report", Answer(w, r),
           r.status = "found" => job[w].kind = "get" /\ WholeOrExcused(w, r),
           job' = job, at' = at, results' = results, touched' = touched,
           UNCHANGED stores, cache' = cache, circuit' = circuit, failures' = failures,
           pc[w] \notin {"refresh", "trim"}
    PROVE  ReportInv'
<1>1. pc' = [pc EXCEPT ![w] = "idle"] /\ reply' = [reply EXCEPT ![w] = r]
  BY DEF Answer, Goto
<1>2. TablesInv /\ WorkInv(w) /\ CacheInv /\ BreakersInv
  BY DEF ReportInv, WorkerInv
<1>3. Moves(w) /\ pc'[w] = "idle" /\ reply'[w] = r
  BY <1>1, <1>2 DEF Moves, TablesInv, Steps
<1>4. WorkInv(w)' /\ HalfInv(w)'
  BY <1>2, <1>3 DEF WorkInv, HalfInv, Generating, Putting, Writing, Getting, Deleting
<1>5. HeldInv(w)'
  BY HeldQuiet
<1>6. ReplyInv(w)'
  <2>1. UNCHANGED disk
    BY StoresStay
  <2>2. r.status = "found" => job'[w].kind = "get" /\ WholeOrExcused(w, r)'
    BY <2>1 DEF WholeOrExcused, Overtaken, disk
  <2> QED
    BY <1>3, <2>2 DEF ReplyInv
<1>7. CacheInv' /\ BreakersInv'
  BY <1>2, <1>3, CacheStays DEF BreakersInv
<1> QED
  BY <1>3, <1>4, <1>5, <1>6, <1>7, QuietStep DEF WorkerInv, Writing

LEMMA RenderKeeps ==
    ASSUME ReportInv, NEW w \in Workers, Render(w)
    PROVE  ReportInv'
<1>1. /\ pc[w] = "lookup"
      /\ UNCHANGED stores /\ cache' = cache /\ circuit' = circuit /\ failures' = failures
      /\ job' = job /\ at' = at /\ results' = results /\ touched' = touched
  BY DEF Render, shared
<1>2. CASE Answer(w, Error)
  BY <1>1, <1>2, AnswerKeeps DEF Error
<1>3. CASE Goto(w, AfterRendering(w)) /\ reply' = reply
  <2>1. TablesInv /\ WorkInv(w) /\ ReplyInv(w) /\ CacheInv /\ BreakersInv
    BY DEF ReportInv, WorkerInv
  <2>2. pc' = [pc EXCEPT ![w] = AfterRendering(w)] /\ AfterRendering(w) \in {"insert", "ask"}
    BY <1>3 DEF Goto, AfterRendering
  <2>3. Moves(w) /\ pc'[w] = AfterRendering(w)
    BY <1>1, <1>3, <2>1, <2>2 DEF Moves, TablesInv, Steps
  <2>4. /\ job[w] \in Asked \cup {NoJob} /\ job[w].kind = "generate" /\ at[w] = 1
        /\ results[w] = <<>> /\ Len(<<>>) = 0 /\ Len(Fanout) \in Nat
    BY <1>1, <2>1, ServiceAssumption, LenProperties DEF WorkInv, Generating
  <2>5. /\ Len(job[w].route) \in Nat /\ DOMAIN job[w].route = 1..Len(job[w].route)
        /\ job[w].route \in Seq(Backends)
    BY <2>4, JobTypes
  <2>6. AfterRendering(w) = "insert" => Len(job[w].route) = 0
    BY DEF AfterRendering, Nowhere
  <2>7. AfterRendering(w) = "ask" => 1 \in DOMAIN job[w].route
    BY <2>5, EmptySeq DEF AfterRendering, Nowhere
  <2>8. WorkInv(w)'
    BY <1>1, <2>1, <2>2, <2>3, <2>4, <2>5, <2>6, <2>7 DEF WorkInv, Generating, Putting, Writing, Getting, Deleting
  <2>9. ReplyInv(w)' /\ HalfInv(w)'
    BY <1>3, <2>1, <2>2, <2>3, <1>1 DEF ReplyInv, HalfInv, Writing
  <2>10. HeldInv(w)'
    BY <1>1, HeldQuiet
  <2>11. CacheInv' /\ BreakersInv'
    BY <1>1, <2>1, <2>2, <2>3, CacheStays DEF BreakersInv
  <2> QED
    BY <1>1, <2>2, <2>3, <2>8, <2>9, <2>10, <2>11, QuietStep DEF WorkerInv, Writing
<1> QED
  BY <1>2, <1>3 DEF Render

LEMMA SearchKeeps ==
    ASSUME ReportInv, NEW w \in Workers, Search(w)
    PROVE  ReportInv'
<1>1. /\ pc[w] = "search"
      /\ UNCHANGED stores /\ cache' = cache /\ circuit' = circuit /\ failures' = failures
      /\ job' = job /\ results' = results /\ touched' = touched
  BY DEF Search, shared
<1>2. CASE Answer(w, NotFound) /\ at' = at
  BY <1>1, <1>2, AnswerKeeps DEF NotFound
<1>3. CASE ~(Answer(w, NotFound) /\ at' = at)
  <2>1. TablesInv /\ WorkInv(w) /\ ReplyInv(w) /\ CacheInv /\ BreakersInv
    BY DEF ReportInv, WorkerInv
  <2>2. /\ at[w] \in 1..Len(job[w].route) /\ job[w] \in Asked \cup {NoJob}
        /\ Len(job[w].route) \in Nat
    BY <1>1, Turn DEF Getting
  <2>3. DOMAIN job[w].route = 1..Len(job[w].route)
    BY <2>2, JobTypes
  <2>4. /\ reply' = reply
        /\ \/ Goto(w, "read") /\ at' = at
           \/ pc' = pc /\ ~Last(w) /\ at' = [at EXCEPT ![w] = @ + 1]
    BY <1>3 DEF Search
  <2>5. Moves(w) /\ pc'[w] \in {"read", "search"} /\ at'[w] \in DOMAIN job[w].route
    <3>1. CASE Goto(w, "read") /\ at' = at
      BY <1>1, <2>1, <2>2, <2>3, <2>4, <3>1 DEF Moves, TablesInv, Steps, Goto
    <3>2. CASE pc' = pc /\ ~Last(w) /\ at' = [at EXCEPT ![w] = @ + 1]
      BY <1>1, <2>1, <2>2, <2>3, <2>4, <3>2 DEF Moves, TablesInv, Last
    <3> QED
      BY <2>4, <3>1, <3>2
  <2>6. WorkInv(w)' /\ ReplyInv(w)' /\ HalfInv(w)'
    BY <1>1, <2>1, <2>4, <2>5 DEF WorkInv, ReplyInv, HalfInv, Generating, Putting, Writing, Getting, Deleting
  <2>7. HeldInv(w)'
    BY <1>1, HeldQuiet
  <2>8. CacheInv' /\ BreakersInv'
    BY <1>1, <2>1, <2>5, CacheStays DEF BreakersInv
  <2> QED
    BY <1>1, <2>5, <2>6, <2>7, <2>8, QuietStep DEF WorkerInv, Writing
<1> QED
  BY <1>2, <1>3

\* The content of a settled file is that of the sidecar that has been read.
LEMMA OpenKeeps ==
    ASSUME ReportInv, NEW w \in Workers, Open(w)
    PROVE  ReportInv'
<1>1. /\ pc[w] = "open"
      /\ UNCHANGED stores /\ cache' = cache /\ circuit' = circuit /\ failures' = failures
      /\ job' = job /\ at' = at /\ results' = results /\ touched' = touched
  BY DEF Open, shared
<1> PICK n : n = FileOf[job[w].id]
  OBVIOUS
<1> PICK d : d = results[w][1]
  OBVIOUS
<1> PICK c : c = body[n][FormatOf[d]]
  OBVIOUS
<1>2. CASE Answer(w, NotFound)
  BY <1>1, <1>2, AnswerKeeps DEF NotFound
<1>3. CASE c # NoContent /\ Found(w, c, d)
  <2> DEFINE r == [status |-> "found", backend |-> Backend(w), content |-> c, checksum |-> d]
  <2>1. /\ job[w].kind = "get" /\ Backend(w) = "local" /\ job[w].id \in Ids /\ d \in Contents
        /\ Overtaken(w) \/ sidecar[n] = d
    BY <1>1, Turn DEF ReportInv, WorkerInv, WorkInv, HalfInv, Getting
  <2>2. n \in Names /\ Settled(n)
    BY <2>1 DEF Names, ReportInv, StoresInv, DiskInv
  <2>3. ~Overtaken(w) => c = d
    BY <1>3, <2>1, <2>2 DEF Settled, Overtaken
  <2>4. WholeOrExcused(w, r)
    BY <2>1, <2>3 DEF WholeOrExcused
  <2>5. Answer(w, r) /\ r.status = "found"
    BY <1>3 DEF Found
  <2> HIDE DEF r
  <2> QED
    BY <1>1, <2>1, <2>4, <2>5, AnswerKeeps
<1> QED
  BY <1>2, <1>3 DEF Open

LEMMA ReadMemoryKeeps ==
    ASSUME ReportInv, NEW w \in Workers, ReadMemory(w)
    PROVE  ReportInv'
<1>1. /\ pc[w] = "read" /\ cache' = cache /\ circuit' = circuit /\ failures' = failures
      /\ job' = job /\ at' = at /\ results' = results /\ touched' = touched
  BY DEF ReadMemory
<1>2. TablesInv /\ WorkInv(w) /\ CacheInv /\ BreakersInv /\ StoresInv
  BY DEF ReportInv, WorkerInv
<1>3. job[w].kind = "get" /\ at[w] \in DOMAIN job[w].route
  BY <1>1, <1>2 DEF WorkInv, Getting
<1>4. CASE Answer(w, NotFound) /\ UNCHANGED stores
  BY <1>1, <1>4, AnswerKeeps DEF NotFound
<1>5. CASE \E c : MemoryGet(job[w].id, c) /\ Found(w, c, c)
  <2> PICK c : MemoryGet(job[w].id, c) /\ Found(w, c, c)
    BY <1>5
  <2>1. StoresInv' /\ \A i : Served("memory", i)' = Served("memory", i)
    BY <1>2, GetMemory
  <2>2. UNCHANGED disk /\ bucket' = bucket
    BY DEF MemoryGet
  <2>3. \A b \in Backends : \A i : Same(b, i)
    BY <2>1, <2>2 DEF Same, SameFile, disk
  <2> PICK r : r = [status |-> "found", backend |-> Backend(w), content |-> c, checksum |-> c]
    OBVIOUS
  <2>4. pc' = [pc EXCEPT ![w] = "idle"] /\ reply' = [reply EXCEPT ![w] = r]
    BY DEF Answer, Goto, Found
  <2>5. r.status = "found" /\ WholeOrExcused(w, r)'
    BY DEF WholeOrExcused
  <2>6. Moves(w) /\ pc'[w] = "idle" /\ reply'[w] = r
    BY <1>1, <1>2, <2>4 DEF Moves, TablesInv, Steps
  <2>7. Alone(w)
    BY <1>1, <2>3, <2>6 DEF Alone, Rests, Noted, Moves
  <2>8. WorkInv(w)' /\ HalfInv(w)' /\ HeldInv(w)'
    BY <1>1, <1>2, <1>3, <2>6
       DEF WorkInv, HalfInv, HeldInv, IsSo, Generating, Putting, Writing, Getting, Deleting
  <2>9. ReplyInv(w)'
    BY <1>1, <1>3, <2>5, <2>6 DEF ReplyInv
  <2>10. CacheInv' /\ BreakersInv'
    BY <1>1, <1>2, <2>6, CacheStays DEF BreakersInv
  <2> QED
    BY <2>1, <2>2, <2>6, <2>7, <2>8, <2>9, <2>10, StepKeeps DEF Moves, WorkerInv, Writing
<1> QED
  BY <1>4, <1>5 DEF ReadMemory

LEMMA ReadBucketKeeps ==
    ASSUME ReportInv, NEW w \in Workers, ReadBucket(w)
    PROVE  ReportInv'
<1>1. /\ pc[w] = "read"
      /\ UNCHANGED stores /\ cache' = cache /\ circuit' = circuit /\ failures' = failures
      /\ job' = job /\ at' = at /\ results' = results /\ touched' = touched
  BY DEF ReadBucket, shared
<1>2. job[w].kind = "get"
  BY <1>1 DEF ReportInv, WorkerInv, WorkInv, Getting
<1>3. CASE Answer(w, NotFound)
  BY <1>1, <1>3, AnswerKeeps DEF NotFound
<1>4. ASSUME NEW c, Found(w, c, c)
      PROVE  ReportInv'
  <2> DEFINE r == [status |-> "found", backend |-> Backend(w), content |-> c, checksum |-> c]
  <2>1. Answer(w, r) /\ r.status = "found" /\ WholeOrExcused(w, r)
    BY <1>4 DEF Found, WholeOrExcused
  <2> HIDE DEF r
  <2> QED
    BY <1>1, <1>2, <2>1, AnswerKeeps
<1> QED
  BY <1>3, <1>4 DEF ReadBucket

LEMMA ReadSidecarKeeps ==
    ASSUME ReportInv, NEW w \in Workers, ReadSidecar(w)
    PROVE  ReportInv'
<1>1. /\ pc[w] = "read" /\ Backend(w) = "local"
      /\ UNCHANGED stores /\ cache' = cache /\ circuit' = circuit /\ failures' = failures
      /\ job' = job /\ at' = at /\ touched' = touched
  BY DEF ReadSidecar, shared
<1>2. TablesInv /\ WorkInv(w) /\ ReplyInv(w) /\ CacheInv /\ BreakersInv
  BY DEF ReportInv, WorkerInv
<1>3. job[w].kind = "get" /\ at[w] \in DOMAIN job[w].route
  BY <1>1, <1>2 DEF WorkInv, Getting
<1>4. CASE results' = results /\ (Answer(w, NotFound) \/ Answer(w, Error))
  BY <1>1, <1>4, AnswerKeeps DEF NotFound, Error
<1>5. CASE /\ Readable(job[w].id) /\ reply' = reply /\ Goto(w, "open")
           /\ results' = [results EXCEPT ![w] = <<sidecar[FileOf[job[w].id]]>>]
  <2>1. pc' = [pc EXCEPT ![w] = "open"] /\ UNCHANGED disk
    BY <1>1, <1>5, StoresStay DEF Goto
  <2>2. Moves(w) /\ pc'[w] = "open" /\ results'[w] = <<sidecar[FileOf[job[w].id]]>>
    BY <1>1, <1>2, <1>5, <2>1 DEF Moves, TablesInv, Steps
  <2>3. WorkInv(w)' /\ HeldInv(w)'
    BY <1>1, <1>2, <1>3, <2>2
       DEF WorkInv, HeldInv, IsSo, Generating, Putting, Writing, Getting, Deleting
  <2>4. ReplyInv(w)'
    BY <1>1, <1>2, <1>5, <2>2 DEF ReplyInv
  <2>5. HalfInv(w)'
    BY <1>1, <1>5, <2>1, <2>2 DEF HalfInv, Backend, Writing, Readable, disk
  <2>6. CacheInv' /\ BreakersInv'
    BY <1>1, <1>2, <2>2, CacheStays DEF BreakersInv
  <2> QED
    BY <1>1, <2>2, <2>3, <2>4, <2>5, <2>6, QuietStep DEF WorkerInv, Writing
<1> QED
  BY <1>4, <1>5 DEF ReadSidecar

LEMMA ReadFailsKeeps ==
    ASSUME ReportInv, NEW w \in Workers, ReadFails(w) \/ RemoveUnreadable(w)
    PROVE  ReportInv'
<1>1. /\ pc[w] \notin {"refresh", "trim"} /\ Answer(w, Error)
      /\ UNCHANGED stores /\ cache' = cache /\ circuit' = circuit /\ failures' = failures
      /\ job' = job /\ at' = at /\ results' = results /\ touched' = touched
  BY DEF ReadFails, RemoveUnreadable, shared
<1> QED
  BY <1>1, AnswerKeeps DEF Error

\* The worker has its answer of one backend, and goes on to the next one.
LEMMA RemovedKeepsWork ==
    ASSUME ReportInv, NEW w \in Workers, pc[w] \in Deleting,
           NEW outcome \in RemoveOutcomes, Removed(w, outcome), job' = job,
           DOMAIN touched' = Workers
    PROVE  /\ Moves(w) /\ WorkInv(w)' /\ ReplyInv(w)' /\ HalfInv(w)'
           /\ job'[w] = job[w] /\ results'[w] = Append(results[w], outcome)
           /\ pc'[w] \in {"idle", "remove"}
<1>1. /\ results' = [results EXCEPT ![w] = Append(@, outcome)]
      /\ at' = [at EXCEPT ![w] = @ + 1] /\ job' = job
      /\ \/ /\ Last(w) /\ pc' = [pc EXCEPT ![w] = "idle"]
            /\ reply' = [reply EXCEPT ![w] = [status |-> "deleted"]]
         \/ ~Last(w) /\ pc' = [pc EXCEPT ![w] = "remove"] /\ reply' = reply
  BY DEF Removed, Goto, Answer
<1>2. TablesInv /\ ReplyInv(w) /\ WorkInv(w)
  BY DEF ReportInv, WorkerInv
<1>3. Moves(w)
  BY <1>1, <1>2 DEF Moves, TablesInv, Steps
<1>4. /\ at'[w] = at[w] + 1 /\ results'[w] = Append(results[w], outcome) /\ job'[w] = job[w]
      /\ \/ Last(w) /\ pc'[w] = "idle" /\ reply'[w].status = "deleted"
         \/ ~Last(w) /\ pc'[w] = "remove" /\ reply'[w] = reply[w]
  BY <1>1, <1>2 DEF TablesInv
<1>5. /\ job[w] \in Asked \cup {NoJob} /\ job[w].kind = "delete"
      /\ at[w] \in 1..Len(job[w].route) /\ Len(job[w].route) = Len(Fanout) /\ Len(Fanout) \in Nat
      /\ Len(results[w]) = at[w] - 1 /\ results[w] \in Seq(RemoveOutcomes)
  BY Turn
<1>6. results'[w] \in Seq(RemoveOutcomes) /\ Len(results'[w]) = at[w]
  <2>1. Append(results[w], outcome) \in Seq(RemoveOutcomes)
        /\ Len(Append(results[w], outcome)) = Len(results[w]) + 1
    BY <1>5, AppendProperties
  <2> QED
    BY <1>4, <1>5, <2>1
<1>7. DOMAIN job[w].route = 1..Len(job[w].route)
  BY <1>5, JobTypes
<1>8. WorkInv(w)'
  BY <1>4, <1>5, <1>6, <1>7 DEF WorkInv, Last, Generating, Putting, Writing, Getting, Deleting
<1>9. ReplyInv(w)' /\ HalfInv(w)'
  BY <1>2, <1>4 DEF ReplyInv, HalfInv, Deleting, Writing, Complete, WorkInv
<1> QED
  BY <1>3, <1>4, <1>8, <1>9

\* A backend that says it has removed the report no longer serves it.
LEMMA RemovedKeeps ==
    ASSUME ReportInv, NEW w \in Workers, pc[w] \in Deleting,
           NEW b \in Backends, b = Backend(w), NEW j, j = job[w],
           NEW outcome \in RemoveOutcomes, Removed(w, outcome), job' = job,
           cache' = cache, circuit' = circuit, failures' = failures,
           NEW ids, Touch(w, b, ids), Only(b), \A i \in Ids \ ids : Same(b, i),
           StoresInv', UNCHANGED disk \/ HasDisk(w),
           outcome = "removed" => b = "s3" \/ Served(b, j.id)' = {}
    PROVE  ReportInv'
<1>1. DOMAIN touched' = Workers /\ touched'[w] = touched[w]
  BY DEF Touch
<1>2. /\ Moves(w) /\ WorkInv(w)' /\ ReplyInv(w)' /\ HalfInv(w)'
      /\ job'[w] = job[w] /\ results'[w] = Append(results[w], outcome)
      /\ pc'[w] \in {"idle", "remove"}
  BY <1>1, RemovedKeepsWork
<1>3. /\ j.id \in Ids /\ j \in Asked \cup {NoJob} /\ j.kind = "delete"
      /\ at[w] \in DOMAIN j.route /\ Len(results[w]) = at[w] - 1 /\ results[w] \in Seq(RemoveOutcomes)
  BY Turn
<1>4. IsSo(b, j, outcome)'
  BY <1>3 DEF IsSo
<1>5. HeldInv(w)
  BY DEF ReportInv, WorkerInv
<1>6. HeldInv(w)'
  BY <1>1, <1>2, <1>3, <1>4, <1>5, HeldGrows
<1>7. CacheInv' /\ BreakersInv'
  BY <1>2, CacheStays DEF ReportInv, BreakersInv, Deleting
<1>8. WorkerInv(w)' /\ pc'[w] \notin Writing
  BY <1>2, <1>6 DEF WorkerInv, Writing
<1> QED
  BY <1>2, <1>7, <1>8, TouchStep

\* An answer of a backend that has changed nothing.
LEMMA NotRemovedKeeps ==
    ASSUME ReportInv, NEW w \in Workers, pc[w] \in Deleting,
           Removed(w, "not_removed"), job' = job, UNCHANGED stores, touched' = touched,
           cache' = cache, circuit' = circuit, failures' = failures
    PROVE  ReportInv'
<1>1. DOMAIN touched' = Workers /\ touched'[w] = touched[w] /\ "not_removed" \in RemoveOutcomes
  BY DEF ReportInv, TablesInv, RemoveOutcomes
<1>2. /\ Moves(w) /\ WorkInv(w)' /\ ReplyInv(w)' /\ HalfInv(w)'
      /\ job'[w] = job[w] /\ results'[w] = Append(results[w], "not_removed")
      /\ pc'[w] \in {"idle", "remove"}
  BY <1>1, RemovedKeepsWork
<1> PICK j : j = job[w]
  OBVIOUS
<1>3. /\ j.id \in Ids /\ j \in Asked \cup {NoJob} /\ j.kind = "delete" /\ Backend(w) \in Backends
      /\ at[w] \in DOMAIN j.route /\ Len(results[w]) = at[w] - 1 /\ results[w] \in Seq(RemoveOutcomes)
  BY Turn
<1> PICK b \in Backends : b = Backend(w)
  BY <1>3
<1>4. IsSo(b, j, "not_removed")'
  BY <1>3 DEF IsSo
<1>5. HeldInv(w) /\ Only(b)
  BY StoresStay DEF ReportInv, WorkerInv
<1>6. HeldInv(w)'
  BY <1>1, <1>2, <1>3, <1>4, <1>5, HeldGrows
<1>7. CacheInv' /\ BreakersInv'
  BY <1>2, CacheStays DEF ReportInv, BreakersInv, Deleting
<1>8. WorkerInv(w)' /\ pc'[w] \notin Writing
  BY <1>2, <1>6 DEF WorkerInv, Writing
<1> QED
  BY <1>2, <1>7, <1>8, QuietStep

LEMMA DeleteBucket ==
    ASSUME StoresInv, NEW i \in Ids, NEW gone \in SUBSET Extensions, BucketDelete(i, gone)
    PROVE  /\ StoresInv' /\ Only("s3")
           /\ \A j \in Ids \ {i} : Same("s3", j)
<1>1. /\ bucket' = [bucket EXCEPT ![i] =
                      [f \in Extensions |-> IF f \in gone THEN NoContent ELSE @[f]]]
      /\ memory' = memory /\ UNCHANGED disk
  BY DEF BucketDelete
<1>2. /\ bucket' \in [Ids -> [Extensions -> Contents \cup {NoContent}]]
      /\ \A j \in Ids \ {i} : bucket'[j] = bucket[j]
  BY <1>1 DEF StoresInv
<1> QED
  BY <1>1, <1>2, DiskStays DEF StoresInv, Only, Same, SameFile, Served, Backends, disk

LEMMA RemoveEntryKeeps ==
    ASSUME ReportInv, NEW w \in Workers, RemoveEntry(w)
    PROVE  ReportInv'
<1> PICK j : j = job[w]
  OBVIOUS
<1>1. /\ pc[w] \in Deleting /\ Backend(w) = "memory" /\ job' = job
      /\ cache' = cache /\ circuit' = circuit /\ failures' = failures
      /\ MemoryDelete(j.id) /\ Touch(w, "memory", {j.id}) /\ StoresInv
      /\ \E outcome \in RemoveOutcomes : Removed(w, outcome)
  BY DEF RemoveEntry, RemoveOutcomes, Deleting, ReportInv
<1>2. /\ StoresInv' /\ Served("memory", j.id)' = {}
      /\ \A i : i # j.id => Served("memory", i)' = Served("memory", i)
  BY <1>1, DeleteMemory
<1>3. UNCHANGED disk /\ bucket' = bucket
  BY <1>1 DEF MemoryDelete
<1>4. "memory" \in Backends /\ Only("memory") /\ \A i \in Ids \ {j.id} : Same("memory", i)
  BY <1>2, <1>3 DEF Only, Same, SameFile, Backends, disk
<1> QED
  BY <1>1, <1>2, <1>3, <1>4, RemovedKeeps

LEMMA RemoveObjectsKeeps ==
    ASSUME ReportInv, NEW w \in Workers, RemoveObjects(w)
    PROVE  ReportInv'
<1> PICK j : j = job[w]
  OBVIOUS
<1>1. /\ pc[w] = "remove" /\ pc[w] \in Deleting /\ Backend(w) = "s3" /\ job' = job
      /\ cache' = cache /\ circuit' = circuit /\ failures' = failures
      /\ Touch(w, "s3", {j.id}) /\ StoresInv
  BY DEF RemoveObjects, Deleting, ReportInv
<1>2. j.id \in Ids /\ "s3" \in Backends
  BY <1>1, Turn DEF Backends
<1> PICK gone \in SUBSET Extensions :
        /\ BucketDelete(j.id, gone)
        /\ \/ Removed(w, IF gone = {} THEN "not_removed" ELSE "removed")
           \/ Answer(w, Error) /\ UNCHANGED <<at, results>>
  BY DEF RemoveObjects
<1>3. StoresInv' /\ Only("s3") /\ \A i \in Ids \ {j.id} : Same("s3", i)
  BY <1>1, <1>2, DeleteBucket
<1>4. UNCHANGED disk
  BY DEF BucketDelete
<1>5. ASSUME NEW outcome \in RemoveOutcomes, Removed(w, outcome)
      PROVE  ReportInv'
  BY <1>1, <1>2, <1>3, <1>4, <1>5, RemovedKeeps
<1>6. CASE Answer(w, Error) /\ UNCHANGED <<at, results>>
  <2>1. TablesInv /\ WorkInv(w) /\ CacheInv /\ BreakersInv
    BY DEF ReportInv, WorkerInv
  <2>2. DOMAIN touched' = Workers /\ touched'[w] = touched[w]
    BY <1>1 DEF Touch
  <2>3. Moves(w) /\ pc'[w] = "idle" /\ reply'[w] = Error
    BY <1>1, <1>6, <2>1, <2>2 DEF Answer, Goto, Moves, TablesInv, Steps
  <2>4. WorkInv(w)' /\ ReplyInv(w)' /\ HalfInv(w)'
    BY <1>1, <1>6, <2>1, <2>3
       DEF WorkInv, ReplyInv, HalfInv, Error, Generating, Putting, Writing, Getting, Deleting
  <2>5. HeldInv(w)'
    BY <1>1, <1>2, <1>3, <1>6, <2>2, HeldEarlier
  <2>6. CacheInv' /\ BreakersInv'
    BY <1>1, <2>1, <2>3, CacheStays DEF BreakersInv
  <2> QED
    BY <1>1, <1>2, <1>3, <1>4, <2>3, <2>4, <2>5, <2>6, TouchStep DEF WorkerInv, Writing
<1>7. CASE Removed(w, IF gone = {} THEN "not_removed" ELSE "removed")
  <2> PICK outcome \in RemoveOutcomes : Removed(w, outcome)
    BY <1>7 DEF RemoveOutcomes
  <2> QED
    BY <1>5
<1> QED
  BY <1>6, <1>7

LEMMA FindFilesKeeps ==
    ASSUME ReportInv, NEW w \in Workers, FindFiles(w)
    PROVE  ReportInv'
<1>1. /\ pc[w] = "remove" /\ pc[w] \in Deleting /\ Backend(w) = "local"
      /\ UNCHANGED stores /\ cache' = cache /\ circuit' = circuit /\ failures' = failures
      /\ job' = job /\ touched' = touched
  BY DEF FindFiles, Deleting, shared
<1>2. CASE Removed(w, "not_removed")
  BY <1>1, <1>2, NotRemovedKeeps
<1>3. CASE Goto(w, "unlink") /\ UNCHANGED <<results, at, reply>>
  <2>1. pc' = [pc EXCEPT ![w] = "unlink"] /\ results' = results /\ at' = at /\ reply' = reply
    BY <1>3 DEF Goto
  <2>2. TablesInv /\ WorkInv(w) /\ ReplyInv(w) /\ CacheInv /\ BreakersInv
    BY DEF ReportInv, WorkerInv
  <2>3. Moves(w) /\ pc'[w] = "unlink"
    BY <1>1, <2>1, <2>2 DEF Moves, TablesInv, Steps
  <2>4. WorkInv(w)' /\ ReplyInv(w)' /\ HalfInv(w)'
    BY <1>1, <2>1, <2>2, <2>3
       DEF WorkInv, ReplyInv, HalfInv, Backend, Generating, Putting, Writing, Getting, Deleting
  <2>5. HeldInv(w)'
    BY <1>1, <2>1, HeldQuiet
  <2>6. CacheInv' /\ BreakersInv'
    BY <1>1, <2>2, <2>3, CacheStays DEF BreakersInv
  <2> QED
    BY <1>1, <2>3, <2>4, <2>5, <2>6, QuietStep DEF WorkerInv, Writing
<1> QED
  BY <1>2, <1>3 DEF FindFiles

LEMMA UnlinkFiles ==
    ASSUME StoresInv, NEW i \in Ids, Unlink(i)
    PROVE  /\ StoresInv' /\ OnlyFile(FileOf[i]) /\ Served("local", i)' = {}
<1> PICK n : n = FileOf[i]
  OBVIOUS
<1> PICK f : f = FormatOf[sidecar[n]]
  OBVIOUS
<1>1. /\ sidecar[n] \in Contents /\ memory' = memory /\ bucket' = bucket
      /\ body' = [body EXCEPT ![n][f] = NoContent]
      /\ \/ sidecar' = [sidecar EXCEPT ![n] = NoContent] /\ unsettled' = unsettled \ {n}
         \/ sidecar' = sidecar /\ unsettled' = unsettled
  BY DEF Unlink, Readable
<1>2. n \in Names /\ f \in Extensions /\ NoContent \notin Contents
  BY <1>1, StoresAssumption DEF Names, Extensions
<1>3. DiskInv
  BY DEF StoresInv
<1>4. /\ body' \in [Names -> [Extensions -> Contents \cup {NoContent, Damaged}]]
      /\ sidecar' \in [Names -> Contents \cup {NoContent, Damaged}] /\ unsettled' \subseteq Names
      /\ body'[n][f] = NoContent /\ sidecar'[n] \in {NoContent, sidecar[n]}
      /\ \A m \in Names \ {n} : SameFile(m)
  BY <1>1, <1>2, <1>3 DEF DiskInv, SameFile
<1>5. OnlyFile(n) /\ Settled(n)'
  BY <1>1, <1>2, <1>4 DEF OnlyFile, Settled
<1>6. StoresInv'
  BY <1>2, <1>4, <1>5, OnlyFileSettles
<1>7. Served("local", i)' = {}
  BY <1>2, <1>4 DEF Served, Readable
<1> QED
  BY <1>5, <1>6, <1>7

LEMMA RemoveFilesKeeps ==
    ASSUME ReportInv, NEW w \in Workers, RemoveFiles(w)
    PROVE  ReportInv'
<1>1. /\ pc[w] = "unlink" /\ pc[w] \in Deleting /\ job' = job /\ HasDisk(w)
      /\ cache' = cache /\ circuit' = circuit /\ failures' = failures
  BY DEF RemoveFiles, Deleting, HasDisk
<1> PICK j : j = job[w]
  OBVIOUS
<1>2. j.id \in Ids /\ StoresInv
  BY <1>1, Turn DEF ReportInv
<1>3. CASE Unlink(j.id) /\ Touch(w, "local", Sharing(j.id)) /\ Removed(w, "removed")
  <2>1. Backend(w) = "local"
    BY <1>1 DEF ReportInv, WorkerInv, HalfInv
  <2>2. StoresInv' /\ OnlyFile(FileOf[j.id]) /\ Served("local", j.id)' = {}
    BY <1>2, <1>3, UnlinkFiles
  <2>3. Only("local") /\ \A k \in Ids \ Sharing(j.id) : Same("local", k)
    BY <1>2, <2>2, OnlyFileMeans
  <2>4. "removed" \in RemoveOutcomes /\ "local" \in Backends
    BY DEF RemoveOutcomes, Backends
  <2> QED
    BY <1>1, <1>3, <2>1, <2>2, <2>3, <2>4, RemovedKeeps
<1>4. CASE UNCHANGED stores /\ touched' = touched /\ Removed(w, "not_removed")
  BY <1>1, <1>4, NotRemovedKeeps
<1> QED
  BY <1>3, <1>4 DEF RemoveFiles

-----------------------------------------------------------------------------
(* The response cache: a worker that has inserted has yet to refresh its   *)
(* entry and then to trim.  Entries that are too many are either fresh, or *)
(* somebody is trimming.                                                   *)

LEMMA MovedFacts ==
    ASSUME NEW S, cache \in Seq(S), NEW key, Keyed(key) # {}
    PROVE  /\ Moved(key) \in Seq(S) /\ Len(Moved(key)) = Len(cache)
           /\ Elements(Moved(key)) = Elements(cache)
<1> DEFINE k == CHOOSE k \in Keyed(key) : TRUE
           r == Seqs!RemoveAt(cache, k)
           m == Append(r, cache[k])
<1>1. k \in DOMAIN cache /\ Moved(key) = m
  BY DEF Keyed, Moved, Without
<1> HIDE DEF k
<1>2. Len(cache) \in Nat /\ DOMAIN cache = 1..Len(cache) /\ cache[k] \in S
  BY <1>1, LenProperties, ElementOfSeq
<1>3. /\ r \in Seq(S) /\ Len(r) = Len(cache) - 1
      /\ \A j \in 1..(Len(cache) - 1) : r[j] = IF j < k THEN cache[j] ELSE cache[j + 1]
  BY <1>1, RemoveAtFacts
<1> HIDE DEF r
<1>4. /\ m \in Seq(S) /\ Len(m) = Len(r) + 1 /\ m[Len(r) + 1] = cache[k]
      /\ \A j \in 1..Len(r) : m[j] = r[j]
  <2> PICK e \in S : e = cache[k]
    BY <1>2
  <2>1. /\ Append(r, e) \in Seq(S) /\ Len(Append(r, e)) = Len(r) + 1 /\ Append(r, e)[Len(r) + 1] = e
        /\ \A j \in 1..Len(r) : Append(r, e)[j] = r[j]
    BY <1>3, AppendProperties
  <2> QED
    BY <2>1
<1> HIDE DEF m
<1>5. Len(m) = Len(cache) /\ DOMAIN m = 1..Len(cache)
  <2>1. DOMAIN m = 1..Len(m)
    BY <1>4, LenProperties
  <2> QED
    BY <1>2, <1>3, <1>4, <2>1
<1>6. ASSUME NEW j \in DOMAIN m
      PROVE  \E i \in DOMAIN cache : m[j] = cache[i]
  <2>1. CASE j = Len(cache)
    BY <1>1, <1>2, <1>3, <1>4, <2>1
  <2>2. CASE j # Len(cache)
    <3>1. j \in 1..(Len(cache) - 1) /\ j + 1 \in DOMAIN cache /\ j \in DOMAIN cache
      BY <1>2, <1>5, <2>2
    <3>2. m[j] = r[j]
      BY <1>2, <1>3, <1>4, <3>1
    <3> QED
      BY <1>3, <3>1, <3>2
  <2> QED
    BY <2>1, <2>2
<1>7. ASSUME NEW i \in DOMAIN cache
      PROVE  \E j \in DOMAIN m : m[j] = cache[i]
  <2>1. CASE i = k
    <3>1. Len(r) + 1 \in DOMAIN m
      BY <1>1, <1>2, <1>3, <1>5
    <3> QED
      BY <1>4, <2>1, <3>1
  <2>2. CASE i < k
    <3>1. i \in 1..(Len(cache) - 1) /\ i \in 1..Len(r) /\ i \in DOMAIN m
      BY <1>1, <1>2, <1>3, <1>5, <2>2
    <3>2. m[i] = cache[i]
      BY <1>3, <1>4, <2>2, <3>1
    <3> QED
      BY <3>1, <3>2
  <2>3. CASE i > k
    <3>1. i - 1 \in 1..(Len(cache) - 1) /\ i - 1 \in 1..Len(r) /\ i - 1 \in DOMAIN m
          /\ ~(i - 1 < k) /\ (i - 1) + 1 = i
      BY <1>1, <1>2, <1>3, <1>5, <2>3
    <3>2. m[i - 1] = cache[i]
      BY <1>3, <1>4, <3>1
    <3> QED
      BY <3>1, <3>2
  <2> QED
    BY <1>1, <1>2, <2>1, <2>2, <2>3
<1>8. Elements(m) = Elements(cache)
  BY <1>6, <1>7 DEF Elements
<1> QED
  BY <1>1, <1>4, <1>5, <1>8

LEMMA KeysOf == Keys = {e.key : e \in Elements(cache)}
BY DEF Keys, Elements

LEMMA OneLess ==
    ASSUME NEW S, NEW T, IsFiniteSet(S), IsFiniteSet(T), NEW x, S \ {x} \subseteq T
    PROVE  Cardinality(S) \in Nat /\ Cardinality(T) \in Nat /\ Cardinality(S) - 1 <= Cardinality(T)
<1>1. IsFiniteSet(S \ {x}) /\ Cardinality(S \ {x}) >= Cardinality(S) - 1 /\ Cardinality(S) \in Nat
  <2>1. Cardinality(S) \in Nat
    BY FS_CardinalityType
  <2>2. /\ IsFiniteSet(S \ {x})
        /\ Cardinality(S \ {x}) = IF x \in S THEN Cardinality(S) - 1 ELSE Cardinality(S)
    BY FS_RemoveElement
  <2> QED
    BY <2>1, <2>2
<1>2. Cardinality(S \ {x}) <= Cardinality(T) /\ Cardinality(T) \in Nat
  BY FS_Subset, FS_CardinalityType
<1>3. Cardinality(S \ {x}) \in Nat
  BY <1>1, FS_CardinalityType
<1> QED
  BY <1>1, <1>2, <1>3

\* The sets that are counted stay finite.
LEMMA StaysFinite ==
    ASSUME CacheInv, NEW w \in Workers, Moves(w), job'[w] = job[w],
           Keys' \subseteq Keys \cup {job[w].content}
    PROVE  /\ IsFiniteSet(Fresh') /\ IsFiniteSet(Trimming') /\ IsFiniteSet(Refreshing')
           /\ Cardinality(Fresh') \in Nat /\ Cardinality(Trimming') \in Nat
           /\ Cardinality(Fresh) \in Nat /\ Cardinality(Trimming) \in Nat
<1>1. IsFiniteSet(Fresh) /\ IsFiniteSet(Trimming) /\ IsFiniteSet(Refreshing)
  BY DEF CacheInv
<1>2. Trimming' \subseteq Trimming \cup {w} /\ Refreshing' \subseteq Refreshing \cup {w}
  BY DEF Trimming, Refreshing, Moves
<1>3. Fresh' \subseteq Fresh \cup {job[w].content}
  BY <1>2 DEF Fresh, Refreshing, Moves
<1>4. /\ IsFiniteSet(Trimming \cup {w}) /\ IsFiniteSet(Refreshing \cup {w})
      /\ IsFiniteSet(Fresh \cup {job[w].content})
  BY <1>1, FS_AddElement
<1>5. IsFiniteSet(Fresh') /\ IsFiniteSet(Trimming') /\ IsFiniteSet(Refreshing')
  BY <1>2, <1>3, <1>4, FS_Subset
<1> QED
  BY <1>1, <1>5, FS_CardinalityType

\* A worker that works on the cache, and may end its job with a complete response.
LEMMA CacheStep ==
    ASSUME ReportInv, NEW w \in Workers, UNCHANGED stores,
           circuit' = circuit, failures' = failures,
           job' = job, at' = at, results' = results, touched' = touched,
           pc[w] \in {"promote", "insert", "refresh", "trim"},
           NEW s \in {"idle", "refresh", "trim"}, Goto(w, s),
           pc[w] = "promote" => s = "idle",
           \/ reply' = reply
           \/ \E r : /\ reply' = [reply EXCEPT ![w] = r] /\ r.status # "found" /\ s = "idle"
                     /\ r.status = "report" =>
                           /\ Complete(r.results)
                           /\ ~r.cached => Len(r.results) = Len(job[w].route),
           CacheInv'
    PROVE  ReportInv'
<1>1. TablesInv /\ WorkInv(w) /\ ReplyInv(w) /\ BreakersInv
  BY DEF ReportInv, WorkerInv
<1>2. pc' = [pc EXCEPT ![w] = s]
  BY DEF Goto
<1>3. Moves(w) /\ pc'[w] = s
  BY <1>1, <1>2 DEF Moves, TablesInv, Steps
<1>4. WorkInv(w)' /\ HalfInv(w)'
  BY <1>1, <1>3 DEF WorkInv, HalfInv, Generating, Putting, Writing, Getting, Deleting
<1>5. ReplyInv(w)'
  <2>1. CASE reply' = reply
    BY <1>1, <1>3, <2>1 DEF ReplyInv
  <2>2. ASSUME NEW r, reply' = [reply EXCEPT ![w] = r], r.status # "found", s = "idle",
               r.status = "report" =>
                   /\ Complete(r.results)
                   /\ ~r.cached => Len(r.results) = Len(job[w].route)
        PROVE  ReplyInv(w)'
    <3>1. reply'[w] = r
      BY <1>1, <2>2 DEF TablesInv
    <3> QED
      BY <1>3, <2>2, <3>1 DEF ReplyInv, Complete
  <2> QED
    BY <2>1, <2>2
<1>6. HeldInv(w)'
  BY HeldQuiet
<1>7. BreakersInv'
  BY <1>1 DEF BreakersInv
<1> QED
  BY <1>3, <1>4, <1>5, <1>6, <1>7, QuietStep DEF WorkerInv, Writing

LEMMA PromoteKeeps ==
    ASSUME ReportInv, NEW w \in Workers, Promote(w)
    PROVE  ReportInv'
<1> PICK key : key = job[w].content
  OBVIOUS
<1>1. /\ pc[w] = "promote" /\ UNCHANGED stores /\ circuit' = circuit /\ failures' = failures
      /\ job' = job /\ at' = at /\ results' = results /\ touched' = touched
  BY DEF Promote
<1>2. CacheInv /\ TablesInv /\ ReplyInv(w)
  BY DEF ReportInv, WorkerInv
<1>3. \E r : /\ Answer(w, r) /\ r.status # "found"
             /\ r.status = "report" => Complete(r.results) /\ r.cached
  <2>1. CASE Answer(w, Error)
    BY <2>1 DEF Error
  <2>2. CASE Answer(w, [reply[w] EXCEPT !.status = "report"])
    <3> PICK i \in Ids, outcomes \in Seq(PutOutcomes) :
            /\ Complete(outcomes)
            /\ reply[w] = [status |-> "none", cached |-> TRUE, id |-> i, results |-> outcomes]
      BY <1>1, <1>2 DEF ReplyInv
    <3> DEFINE r == [reply[w] EXCEPT !.status = "report"]
    <3>1. r.results = outcomes /\ r.cached = TRUE /\ r.status = "report"
      OBVIOUS
    <3>2. Complete(r.results)
      BY <3>1
    <3> QED
      BY <2>2, <3>1, <3>2
  <2> QED
    BY <2>1, <2>2 DEF Promote
<1> PICK r : /\ Answer(w, r) /\ r.status # "found"
             /\ r.status = "report" => Complete(r.results) /\ r.cached
  BY <1>3
<1>4. Goto(w, "idle") /\ reply' = [reply EXCEPT ![w] = r]
  BY DEF Answer
<1>5. Moves(w) /\ pc'[w] = "idle"
  BY <1>1, <1>2, <1>4 DEF Moves, TablesInv, Steps, Goto
<1>6. CacheInv'
  <2>1. CASE cache' = cache
    BY <1>1, <1>2, <1>5, <2>1, CacheStays
  <2>2. CASE Keyed(key) # {} /\ cache' = Moved(key)
    <3>1. /\ cache' \in Seq(CacheEntries) /\ Len(cache') = Len(cache)
          /\ Elements(cache') = Elements(cache)
      BY <1>2, <2>2, MovedFacts DEF CacheInv
    <3>2. Keys' = {e.key : e \in Elements(cache')}
      BY DEF Keys, Elements
    <3>3. Keys' = Keys
      BY <3>1, <3>2, KeysOf
    <3>4. Refreshing' = Refreshing /\ Trimming' = Trimming
      BY <1>1, <1>5 DEF Refreshing, Trimming, Moves
    <3>5. Fresh' = Fresh
      BY <1>1, <3>3, <3>4 DEF Fresh
    <3> QED
      BY <1>2, <3>1, <3>4, <3>5 DEF CacheInv
  <2> QED
    BY <2>1, <2>2 DEF Promote, Entries
<1> QED
  BY <1>1, <1>4, <1>6, CacheStep

\* A worker that has inserted can say what it has to say.
LEMMA MadeIsComplete ==
    ASSUME ReportInv, NEW w \in Workers, pc[w] \in {"insert", "refresh", "trim"}
    PROVE  /\ Complete(results[w]) /\ Len(results[w]) = Len(job[w].route)
           /\ results[w] \in Seq(PutOutcomes) /\ job[w].content \in Contents /\ job[w].id \in Ids
<1>1. /\ job[w] \in Asked \cup {NoJob} /\ job[w].kind = "generate"
      /\ results[w] \in Seq(PutOutcomes) /\ Len(results[w]) = Len(job[w].route)
  BY DEF ReportInv, WorkerInv, WorkInv, Generating
<1>2. job[w].route \in {Fanout, <<>>} /\ job[w].content \in Contents /\ job[w].id \in Ids
  BY <1>1, JobTypes
<1>3. Len(<<>>) = 0
  OBVIOUS
<1> QED
  BY <1>1, <1>2, <1>3 DEF Complete

LEMMA InsertKeeps ==
    ASSUME ReportInv, NEW w \in Workers, Insert(w)
    PROVE  ReportInv'
<1> PICK e : e = [key |-> job[w].content, id |-> job[w].id, results |-> results[w]]
  OBVIOUS
<1>1. /\ pc[w] = "insert" /\ UNCHANGED stores /\ circuit' = circuit /\ failures' = failures
      /\ job' = job /\ at' = at /\ results' = results /\ reply' = reply /\ touched' = touched
      /\ Goto(w, "refresh")
  BY DEF Insert
<1>2. cache' = IF Entries(e.key) = {} THEN Append(cache, e)
               ELSE [k \in DOMAIN cache |-> IF cache[k].key = e.key THEN e ELSE cache[k]]
  BY DEF Insert
<1>3. CacheInv /\ TablesInv
  BY DEF ReportInv
<1>4. e \in CacheEntries /\ e.key = job[w].content
  <2>1. /\ Complete(results[w]) /\ results[w] \in Seq(PutOutcomes)
        /\ job[w].content \in Contents /\ job[w].id \in Ids
    BY <1>1, MadeIsComplete
  <2> QED
    BY <2>1 DEF CacheEntries
<1>5. Moves(w) /\ pc'[w] = "refresh"
  BY <1>1, <1>3 DEF Moves, TablesInv, Steps, Goto
<1>6. cache \in Seq(CacheEntries) /\ Len(cache) \in Nat /\ DOMAIN cache = 1..Len(cache)
      /\ cache \in [1..Len(cache) -> CacheEntries]
  BY <1>3, LenProperties DEF CacheInv
<1>7. /\ cache' \in Seq(CacheEntries) /\ Keys' = Keys \cup {e.key}
      /\ Len(cache') = IF e.key \in Keys THEN Len(cache) ELSE Len(cache) + 1
  <2>1. CASE Entries(e.key) = {}
    <3>1. /\ cache' \in Seq(CacheEntries) /\ Len(cache') = Len(cache) + 1
          /\ \A k \in 1..Len(cache) : cache'[k] = cache[k]
          /\ cache'[Len(cache) + 1] = e
      BY <1>2, <1>4, <1>6, <2>1, AppendProperties
    <3>2. DOMAIN cache' = 1..(Len(cache) + 1)
      BY <3>1, LenProperties
    <3>3. e.key \notin Keys
      BY <2>1 DEF Keys, Entries, Keyed
    <3>4. \A k \in DOMAIN cache' : (k \in DOMAIN cache /\ cache'[k] = cache[k]) \/ k = Len(cache) + 1
      BY <1>6, <3>1, <3>2
    <3>5. DOMAIN cache \subseteq DOMAIN cache' /\ Len(cache) + 1 \in DOMAIN cache'
      BY <1>6, <3>2
    <3>6. Keys' = Keys \cup {e.key}
      BY <1>6, <3>1, <3>4, <3>5 DEF Keys
    <3> QED
      BY <3>1, <3>3, <3>6
  <2>2. CASE Entries(e.key) # {}
    <3>1. /\ DOMAIN cache' = 1..Len(cache)
          /\ \A k \in 1..Len(cache) : cache'[k] = IF cache[k].key = e.key THEN e ELSE cache[k]
      BY <1>2, <1>6, <2>2
    <3>2. cache' \in [1..Len(cache) -> CacheEntries]
      BY <1>2, <1>4, <1>6, <2>2
    <3>3. cache' \in Seq(CacheEntries)
      BY <1>6, <3>2, SeqDef
    <3>4. Len(cache') = Len(cache)
      <4>1. Len(cache') \in Nat /\ 1..Len(cache') = 1..Len(cache)
        BY <3>1, <3>3, LenProperties
      <4> QED
        BY <1>6, <4>1
    <3>5. e.key \in Keys
      BY <2>2 DEF Keys, Entries, Keyed
    <3>6. \A k \in 1..Len(cache) : cache'[k].key = cache[k].key
      BY <3>1
    <3>7. Keys' = Keys
      BY <1>6, <3>1, <3>6 DEF Keys
    <3> QED
      BY <3>3, <3>4, <3>5, <3>7
  <2> QED
    BY <2>1, <2>2
<1>8. /\ IsFiniteSet(Fresh') /\ IsFiniteSet(Trimming') /\ IsFiniteSet(Refreshing')
      /\ Cardinality(Fresh') \in Nat /\ Cardinality(Trimming') \in Nat
      /\ Cardinality(Fresh) \in Nat /\ Cardinality(Trimming) \in Nat
  BY <1>1, <1>3, <1>4, <1>5, <1>7, StaysFinite
<1>9. Refreshing' = Refreshing \cup {w} /\ Trimming' = Trimming
  BY <1>1, <1>5 DEF Refreshing, Trimming, Moves
<1>10. Fresh \cup {e.key} \subseteq Fresh' /\ (e.key \in Fresh => e.key \in Keys)
  BY <1>1, <1>4, <1>7, <1>9 DEF Fresh
<1>11. CacheInv'
  <2>1. IsFiniteSet(Fresh)
    BY <1>3 DEF CacheInv
  <2>2. Cardinality(Fresh \cup {e.key}) = IF e.key \in Fresh THEN Cardinality(Fresh) ELSE Cardinality(Fresh) + 1
    BY <2>1, FS_AddElement
  <2>3. Cardinality(Fresh \cup {e.key}) <= Cardinality(Fresh')
    BY <1>8, <1>10, FS_Subset
  <2>4. Len(cache) <= CacheCap + Cardinality(Trimming) + Cardinality(Fresh) /\ CacheCap \in Nat
    BY <1>3, ServiceAssumption DEF CacheInv
  <2>5. Len(cache') <= CacheCap + Cardinality(Trimming') + Cardinality(Fresh')
    BY <1>6, <1>7, <1>8, <1>9, <1>10, <2>2, <2>3, <2>4
  <2> QED
    BY <1>7, <1>8, <2>5 DEF CacheInv
<1> QED
  BY <1>1, <1>11, CacheStep

LEMMA TailOfCache ==
    ASSUME NEW S, NEW s \in Seq(S), s # <<>>
    PROVE  /\ Tail(s) \in Seq(S) /\ Len(Tail(s)) = Len(s) - 1
           /\ Elements(Tail(s)) \subseteq Elements(s)
           /\ Elements(s) \subseteq Elements(Tail(s)) \cup {s[1]}
<1>1. Tail(s) \in Seq(S) /\ Len(Tail(s)) = Len(s) - 1 /\ \A k \in 1..Len(Tail(s)) : Tail(s)[k] = s[k + 1]
  BY HeadTailProperties
<1> DEFINE t == Tail(s)
<1> HIDE DEF t
<1>2. Len(s) \in Nat \ {0} /\ DOMAIN s = 1..Len(s) /\ DOMAIN t = 1..(Len(s) - 1)
  BY <1>1, EmptySeq, LenProperties DEF t
<1>3. \A k \in DOMAIN t : k + 1 \in DOMAIN s /\ t[k] = s[k + 1]
  BY <1>1, <1>2 DEF t
<1>4. \A k \in DOMAIN s : k = 1 \/ (k - 1 \in DOMAIN t /\ t[k - 1] = s[k])
  <2>1. ASSUME NEW k \in DOMAIN s, k # 1
        PROVE  k - 1 \in DOMAIN t /\ (k - 1) + 1 = k
    BY <1>2, <2>1
  <2> QED
    BY <1>3, <2>1
<1>5. Elements(t) \subseteq Elements(s)
  BY <1>3 DEF Elements
<1>6. Elements(s) \subseteq Elements(t) \cup {s[1]}
  BY <1>4 DEF Elements
<1> QED
  BY <1>1, <1>5, <1>6 DEF t

\* The entries are too many by no more than those who are still at work.
WithinReach(entries) ==
    TooLong(entries) => Len(entries) <= CacheCap + Cardinality(Trimming') + Cardinality(Fresh')

\* Refresh and PopOldest: what is left is trimmed further, or it will do.
LEMMA TrimKeeps ==
    ASSUME ReportInv, NEW w \in Workers, pc[w] \in {"refresh", "trim"},
           UNCHANGED stores, circuit' = circuit, failures' = failures,
           job' = job, at' = at, results' = results, touched' = touched,
           NEW entries \in Seq(CacheEntries), Trim(w, entries),
           Elements(entries) \subseteq Elements(cache), WithinReach(entries)
    PROVE  ReportInv'
<1>1. cache' = entries /\ CacheInv /\ TablesInv
  BY DEF Trim, ReportInv
<1> DEFINE made == [status |-> "report", cached |-> FALSE, id |-> job[w].id, results |-> results[w]]
<1>2. \/ TooLong(entries) /\ Goto(w, "trim") /\ reply' = reply
      \/ ~TooLong(entries) /\ Goto(w, "idle") /\ reply' = [reply EXCEPT ![w] = made]
  BY DEF Trim, Made, Answer
<1>3. PICK s \in {"idle", "trim"} : Goto(w, s) /\ (reply' = reply \/ (s = "idle" /\ ~TooLong(entries)))
  BY <1>2
<1>4. Moves(w) /\ pc'[w] = s
  <2>1. pc' = [pc EXCEPT ![w] = s] /\ DOMAIN reply' = Workers
        /\ \A v \in Workers \ {w} : reply'[v] = reply[v]
    BY <1>1, <1>2, <1>3 DEF Goto, TablesInv
  <2> QED
    BY <1>1, <2>1 DEF Moves, TablesInv, Steps
<1>5. Keys' \subseteq Keys
  <2>1. Keys' = {e.key : e \in Elements(cache')}
    BY DEF Keys, Elements
  <2> QED
    BY <1>1, <2>1, KeysOf
<1>6. /\ IsFiniteSet(Fresh') /\ IsFiniteSet(Trimming') /\ IsFiniteSet(Refreshing')
      /\ Cardinality(Fresh') \in Nat /\ Cardinality(Trimming') \in Nat
  BY <1>1, <1>4, <1>5, StaysFinite
<1>7. Len(entries) \in Nat /\ CacheCap \in Nat
  BY LenProperties, ServiceAssumption
<1>8. Len(entries) <= CacheCap + Cardinality(Trimming') + Cardinality(Fresh')
  BY <1>6, <1>7 DEF WithinReach, TooLong
<1>9. CacheInv'
  BY <1>1, <1>6, <1>8 DEF CacheInv
<1>10. Complete(results[w]) /\ Len(results[w]) = Len(job[w].route)
  BY MadeIsComplete
<1>11. \/ reply' = reply
       \/ \E r : /\ reply' = [reply EXCEPT ![w] = r] /\ r.status # "found" /\ s = "idle"
                 /\ r.status = "report" =>
                       /\ Complete(r.results)
                       /\ ~r.cached => Len(r.results) = Len(job[w].route)
  <2>1. made.results = results[w] /\ made.status = "report"
    OBVIOUS
  <2>2. Complete(made.results) /\ Len(made.results) = Len(job[w].route)
    BY <1>10, <2>1
  <2> HIDE DEF made
  <2> QED
    BY <1>2, <1>3, <2>1, <2>2
<1> QED
  BY <1>3, <1>9, <1>11, CacheStep

LEMMA RefreshKeeps ==
    ASSUME ReportInv, NEW w \in Workers, Refresh(w)
    PROVE  ReportInv'
<1> PICK key : key = job[w].content
  OBVIOUS
<1>1. /\ pc[w] = "refresh" /\ UNCHANGED stores /\ circuit' = circuit /\ failures' = failures
      /\ job' = job /\ at' = at /\ results' = results /\ touched' = touched
  BY DEF Refresh
<1>2. CacheInv /\ TablesInv /\ cache \in Seq(CacheEntries)
  BY DEF ReportInv, CacheInv
<1>3. CASE Keyed(key) = {}
  <2>1. Answer(w, Error) /\ cache' = cache
    BY <1>3 DEF Refresh, Entries
  <2>2. Goto(w, "idle") /\ reply' = [reply EXCEPT ![w] = Error] /\ Error.status = "error"
    BY <2>1 DEF Answer, Error
  <2> PICK r : reply' = [reply EXCEPT ![w] = r] /\ r.status = "error"
    BY <2>2
  <2>3. Moves(w) /\ pc'[w] = "idle"
    BY <1>1, <1>2, <2>2 DEF Moves, TablesInv, Steps, Goto
  <2>4. Keys' = Keys /\ key \notin Keys
    BY <1>3, <2>1 DEF Keys, Keyed
  <2>5. Trimming' = Trimming /\ Refreshing' = Refreshing \ {w}
    BY <1>1, <2>3 DEF Trimming, Refreshing, Moves
  <2>6. Fresh' = Fresh
    BY <1>1, <2>4, <2>5 DEF Fresh
  <2>7. IsFiniteSet(Refreshing')
    BY <1>1, <1>2, <2>3, <2>4, StaysFinite
  <2>8. CacheInv'
    BY <1>2, <2>1, <2>5, <2>6, <2>7 DEF CacheInv
  <2> QED
    BY <1>1, <2>2, <2>8, CacheStep
<1>4. CASE Keyed(key) # {}
  <2>1. Trim(w, Moved(key))
    BY <1>4 DEF Refresh, Entries
  <2>2. /\ Moved(key) \in Seq(CacheEntries) /\ Len(Moved(key)) = Len(cache)
        /\ Elements(Moved(key)) = Elements(cache)
    BY <1>2, <1>4, MovedFacts
  <2>3. cache' = Moved(key)
    BY <2>1 DEF Trim
  <2>4. WithinReach(Moved(key))
    <3>1. SUFFICES ASSUME TooLong(Moved(key))
                   PROVE  Len(cache) <= CacheCap + Cardinality(Trimming') + Cardinality(Fresh')
      BY <2>2 DEF WithinReach
    <3>2. Goto(w, "trim") /\ reply' = reply
      BY <2>1, <3>1 DEF Trim
    <3>3. Moves(w) /\ pc'[w] = "trim"
      BY <1>1, <1>2, <3>2 DEF Moves, TablesInv, Steps, Goto
    <3>4. Keys' = Keys
      <4>1. Keys' = {e.key : e \in Elements(cache')}
        BY DEF Keys, Elements
      <4> QED
        BY <2>2, <2>3, <4>1, KeysOf
    <3>5. /\ IsFiniteSet(Fresh') /\ IsFiniteSet(Trimming')
          /\ Cardinality(Fresh') \in Nat /\ Cardinality(Trimming') \in Nat
          /\ Cardinality(Fresh) \in Nat /\ Cardinality(Trimming) \in Nat
      BY <1>1, <1>2, <3>3, <3>4, StaysFinite
    <3>6. Trimming' = Trimming \cup {w} /\ w \notin Trimming /\ Refreshing' = Refreshing \ {w}
      BY <1>1, <3>3 DEF Trimming, Refreshing, Moves
    <3>7. Cardinality(Trimming') = Cardinality(Trimming) + 1
      BY <1>2, <3>6, FS_AddElement DEF CacheInv
    <3>8. Fresh \ {key} \subseteq Fresh'
      BY <1>1, <3>4, <3>6 DEF Fresh
    <3>9. Cardinality(Fresh) - 1 <= Cardinality(Fresh')
      BY <1>2, <3>5, <3>8, OneLess DEF CacheInv
    <3>10. Len(cache) <= CacheCap + Cardinality(Trimming) + Cardinality(Fresh)
           /\ Len(cache) \in Nat /\ CacheCap \in Nat
      BY <1>2, LenProperties, ServiceAssumption DEF CacheInv
    <3> QED
      BY <3>5, <3>7, <3>9, <3>10
  <2> QED
    BY <1>1, <2>1, <2>2, <2>4, TrimKeeps
<1> QED
  BY <1>3, <1>4

LEMMA PopOldestKeeps ==
    ASSUME ReportInv, NEW w \in Workers, PopOldest(w)
    PROVE  ReportInv'
<1>1. /\ pc[w] = "trim" /\ UNCHANGED stores /\ circuit' = circuit /\ failures' = failures
      /\ job' = job /\ at' = at /\ results' = results /\ touched' = touched
  BY DEF PopOldest
<1>2. CacheInv /\ TablesInv /\ cache \in Seq(CacheEntries)
  BY DEF ReportInv, CacheInv
<1>3. CASE cache = <<>>
  <2>1. Answer(w, Error) /\ cache' = cache
    BY <1>3 DEF PopOldest
  <2>2. Goto(w, "idle") /\ reply' = [reply EXCEPT ![w] = Error] /\ Error.status = "error"
    BY <2>1 DEF Answer, Error
  <2> PICK r : reply' = [reply EXCEPT ![w] = r] /\ r.status = "error"
    BY <2>2
  <2>3. Moves(w)
    BY <1>1, <1>2, <2>2 DEF Moves, TablesInv, Steps, Goto
  <2>4. Keys' = Keys
    BY <2>1 DEF Keys
  <2>5. /\ IsFiniteSet(Fresh') /\ IsFiniteSet(Trimming') /\ IsFiniteSet(Refreshing')
        /\ Cardinality(Fresh') \in Nat /\ Cardinality(Trimming') \in Nat
    BY <1>1, <1>2, <2>3, <2>4, StaysFinite
  <2>6. Len(cache) = 0 /\ CacheCap \in Nat
    BY <1>3, ServiceAssumption
  <2>7. Len(cache') <= CacheCap + Cardinality(Trimming') + Cardinality(Fresh')
    BY <2>1, <2>5, <2>6
  <2>8. CacheInv'
    BY <1>2, <2>1, <2>5, <2>7 DEF CacheInv
  <2> QED
    BY <1>1, <2>2, <2>8, CacheStep
<1>4. CASE cache # <<>>
  <2>1. Trim(w, Tail(cache)) /\ cache' = Tail(cache)
    BY <1>4 DEF PopOldest, Trim
  <2>2. /\ Tail(cache) \in Seq(CacheEntries) /\ Len(Tail(cache)) = Len(cache) - 1
        /\ Elements(Tail(cache)) \subseteq Elements(cache)
        /\ Elements(cache) \subseteq Elements(Tail(cache)) \cup {cache[1]}
    BY <1>2, <1>4, TailOfCache
  <2>3. WithinReach(Tail(cache))
    <3>1. SUFFICES ASSUME TooLong(Tail(cache))
                   PROVE  Len(cache) - 1 <= CacheCap + Cardinality(Trimming') + Cardinality(Fresh')
      BY <2>2 DEF WithinReach
    <3>2. Goto(w, "trim") /\ reply' = reply
      BY <2>1, <3>1 DEF Trim
    <3>3. Moves(w) /\ pc'[w] = "trim"
      BY <1>1, <1>2, <3>2 DEF Moves, TablesInv, Steps, Goto
    <3>4. Keys' \subseteq Keys /\ Keys \ {cache[1].key} \subseteq Keys'
      <4>1. Keys' = {e.key : e \in Elements(cache')}
        BY DEF Keys, Elements
      <4> QED
        BY <2>1, <2>2, <4>1, KeysOf
    <3>5. /\ IsFiniteSet(Fresh') /\ IsFiniteSet(Trimming')
          /\ Cardinality(Fresh') \in Nat /\ Cardinality(Trimming') \in Nat
          /\ Cardinality(Fresh) \in Nat /\ Cardinality(Trimming) \in Nat
      BY <1>1, <1>2, <3>3, <3>4, StaysFinite
    <3>6. Trimming' = Trimming /\ Refreshing' = Refreshing
      BY <1>1, <3>3 DEF Trimming, Refreshing, Moves
    <3>7. Fresh \ {cache[1].key} \subseteq Fresh'
      BY <1>1, <3>4, <3>6 DEF Fresh
    <3>8. Cardinality(Fresh) - 1 <= Cardinality(Fresh')
      BY <1>2, <3>5, <3>7, OneLess DEF CacheInv
    <3>9. Len(cache) <= CacheCap + Cardinality(Trimming) + Cardinality(Fresh)
          /\ Len(cache) \in Nat /\ CacheCap \in Nat
      BY <1>2, LenProperties, ServiceAssumption DEF CacheInv
    <3> QED
      BY <3>5, <3>6, <3>8, <3>9
  <2> QED
    BY <1>1, <2>1, <2>2, <2>3, TrimKeeps
<1> QED
  BY <1>3, <1>4

-----------------------------------------------------------------------------
(* The theorems                                                            *)

\* The process has been started, on whatever disk and bucket it finds.
Started ==
    /\ memory = <<>> /\ cache = <<>>
    /\ circuit = [b \in Backends |-> "closed"] /\ failures = [b \in Backends |-> 0]
    /\ pc = [w \in Workers |-> "idle"] /\ job = [w \in Workers |-> NoJob]
    /\ at = [w \in Workers |-> 0] /\ results = [w \in Workers |-> <<>>]
    /\ reply = [w \in Workers |-> [status |-> "none"]] /\ touched = [w \in Workers |-> {}]

LEMMA StartedWell == Started /\ StoresInv => ReportInv
<1> SUFFICES ASSUME Started, StoresInv
             PROVE  ReportInv
  OBVIOUS
<1>1. BreakersInv
  BY ServiceAssumption DEF Started, BreakersInv
<1>2. TablesInv
  BY DEF Started, TablesInv, Steps
<1>3. CacheInv
  <2>1. Refreshing = {} /\ Trimming = {} /\ cache = <<>>
    BY DEF Started, Refreshing, Trimming
  <2>2. Fresh = {}
    BY <2>1 DEF Fresh
  <2>3. Len(<<>>) = 0 /\ <<>> \in Seq(CacheEntries) /\ CacheCap \in Nat
    BY ServiceAssumption
  <2> QED
    BY <2>1, <2>2, <2>3, FS_EmptySet DEF CacheInv
<1>4. ASSUME NEW w \in Workers
      PROVE  WorkerInv(w) /\ pc[w] = "idle"
  <2>1. /\ pc[w] = "idle" /\ job[w] = NoJob /\ results[w] = <<>> /\ reply[w].status = "none"
    BY DEF Started
  <2>2. \A k : k \notin DOMAIN <<>>
    OBVIOUS
  <2> QED
    BY <2>1, <2>2 DEF WorkerInv, WorkInv, ReplyInv, HeldInv, HalfInv, NoJob,
                      Generating, Putting, Writing, Getting, Deleting
<1>5. OneWriter
  BY <1>4 DEF OneWriter, Writing
<1> QED
  BY <1>1, <1>2, <1>3, <1>4, <1>5 DEF ReportInv

LEMMA ReportInvInit == Init => ReportInv
<1> SUFFICES ASSUME Init
             PROVE  ReportInv
  OBVIOUS
<1>1. /\ memory = <<>> /\ bucket = [i \in Ids |-> [f \in Extensions |-> NoContent]]
      /\ body = [n \in Names |-> [f \in Extensions |-> NoContent]]
      /\ sidecar = [n \in Names |-> NoContent] /\ unsettled = {}
  BY DEF Init, StoresInit
<1>2. DiskInv
  BY <1>1, StoresAssumption DEF DiskInv, Settled
<1>3. <<>> \in Seq(MemoryEntries) /\ Len(<<>>) <= MemoryCap /\ \A k : k \notin DOMAIN <<>>
  BY StoresAssumption
<1>4. StoresInv
  BY <1>1, <1>2, <1>3 DEF StoresInv
<1>5. Started
  BY <1>1 DEF Init, Started
<1> QED
  BY <1>4, <1>5, StartedWell

LEMMA RestartKeeps == ReportInv /\ Restart => ReportInv'
<1> SUFFICES ASSUME ReportInv, Restart
             PROVE  ReportInv'
  OBVIOUS
<1>1. memory' = <<>> /\ UNCHANGED disk /\ bucket' = bucket /\ StoresInv
  BY DEF Restart, ReportInv
<1>2. <<>> \in Seq(MemoryEntries) /\ Len(<<>>) <= MemoryCap /\ \A k : k \notin DOMAIN <<>>
  BY StoresAssumption
<1>3. StoresInv'
  BY <1>1, <1>2, DiskStays DEF StoresInv
<1>4. Started'
  BY DEF Restart, Started
<1>5. (Started /\ StoresInv => ReportInv)'
  BY StartedWell, PTL
<1> QED
  BY <1>3, <1>4, <1>5

LEMMA ReportInvStutters == ReportInv /\ UNCHANGED vars => ReportInv'
<1> SUFFICES ASSUME ReportInv, UNCHANGED vars
             PROVE  ReportInv'
  OBVIOUS
<1>1. /\ UNCHANGED stores /\ cache' = cache /\ circuit' = circuit /\ failures' = failures
      /\ pc' = pc /\ job' = job /\ at' = at /\ results' = results /\ reply' = reply
      /\ touched' = touched
  BY DEF vars, shared, workers
<1>2. StoresInv' /\ BreakersInv' /\ TablesInv' /\ OneWriter'
  BY <1>1, StoresStay DEF ReportInv, BreakersInv, TablesInv, OneWriter
<1>3. CacheInv'
  BY <1>1 DEF ReportInv, CacheInv, Fresh, Keys, Refreshing, Trimming
<1>4. ASSUME NEW v \in Workers
      PROVE  WorkerInv(v)'
  BY <1>1, RestsKeeps, StoresStay DEF Rests, Noted, ReportInv
<1> QED
  BY <1>2, <1>3, <1>4 DEF ReportInv

LEMMA ReportInvSteps == ReportInv /\ [Next]_vars => ReportInv'
<1> SUFFICES ASSUME ReportInv, [Next]_vars
             PROVE  ReportInv'
  OBVIOUS
<1>1. ASSUME NEW w \in Workers,
             \/ Accept(w)
             \/ Hit(w) \/ Promote(w) \/ Render(w)
             \/ Ask(w) \/ Skip(w) \/ Put(w) \/ PutFails(w)
             \/ PutOpens(w) \/ PutBody(w) \/ PutDescribes(w) \/ PutSidecar(w)
             \/ Insert(w) \/ Refresh(w) \/ PopOldest(w)
             \/ Search(w) \/ ReadMemory(w) \/ ReadBucket(w) \/ ReadSidecar(w) \/ Open(w) \/ ReadFails(w)
             \/ RemoveEntry(w) \/ RemoveObjects(w)
             \/ FindFiles(w) \/ RemoveFiles(w) \/ RemoveUnreadable(w)
      PROVE  ReportInv'
  BY <1>1, AcceptKeeps, HitKeeps, PromoteKeeps, RenderKeeps, AskKeeps, SkipKeeps, PutKeeps,
     PutOpensKeeps, PutBodyKeeps, PutDescribesKeeps, PutSidecarKeeps, PutFailsKeeps,
     InsertKeeps, RefreshKeeps, PopOldestKeeps, SearchKeeps, ReadMemoryKeeps, ReadBucketKeeps,
     ReadSidecarKeeps, OpenKeeps, ReadFailsKeeps, RemoveEntryKeeps, RemoveObjectsKeeps,
     FindFilesKeeps, RemoveFilesKeeps
<1> QED
  BY <1>1, RestartKeeps, ReportInvStutters DEF Next

THEOREM ReportInvHolds == Spec => []ReportInv
BY ReportInvInit, ReportInvSteps, PTL DEF Spec

\* Every fresh key has a worker of its own that is about to refresh it.
LEMMA FreshAreFew ==
    ASSUME CacheInv
    PROVE  /\ Cardinality(Fresh) <= Cardinality(Refreshing)
           /\ Cardinality(Fresh) \in Nat /\ Cardinality(Refreshing) \in Nat
<1>1. /\ IsFiniteSet(Fresh) /\ IsFiniteSet(Refreshing)
      /\ Cardinality(Fresh) \in Nat /\ Cardinality(Refreshing) \in Nat
  BY FS_CardinalityType DEF CacheInv
<1> DEFINE of == [key \in Fresh |-> CHOOSE w \in Refreshing : job[w].content = key]
<1>2. \A key \in Fresh : of[key] \in Refreshing /\ job[of[key]].content = key
  BY DEF Fresh
<1>3. of \in [Fresh -> Refreshing]
  BY <1>2
<1>4. \A x, y \in Fresh : of[x] = of[y] => x = y
  BY <1>2
<1> HIDE DEF of
<1>5. ~(Cardinality(Refreshing) < Cardinality(Fresh))
  BY <1>1, <1>3, <1>4, FS_PigeonHole
<1> QED
  BY <1>1, <1>5

LEMMA CacheInvBounds ==
    ASSUME CacheInv
    PROVE  CacheIsBounded
<1>1. {w \in Workers : pc[w] \in {"refresh", "trim"}} = Refreshing \cup Trimming
      /\ Refreshing \cap Trimming = {}
  BY DEF Refreshing, Trimming
<1>2. IsFiniteSet(Refreshing) /\ IsFiniteSet(Trimming)
  BY DEF CacheInv
<1>3. Cardinality({w \in Workers : pc[w] \in {"refresh", "trim"}})
        = Cardinality(Refreshing) + Cardinality(Trimming) - Cardinality({})
  BY <1>1, <1>2, FS_Union
<1>4. Cardinality({}) = 0 /\ Cardinality(Refreshing) \in Nat /\ Cardinality(Trimming) \in Nat
  BY <1>2, FS_EmptySet, FS_CardinalityType
<1>5. Len(cache) <= CacheCap + Cardinality(Trimming) + Cardinality(Fresh)
      /\ Len(cache) \in Nat /\ CacheCap \in Nat
  BY LenProperties, ServiceAssumption DEF CacheInv
<1>6. Cardinality(Fresh) <= Cardinality(Refreshing) /\ Cardinality(Fresh) \in Nat
  BY FreshAreFew
<1>7. Len(cache) <= CacheCap + (Cardinality(Refreshing) + Cardinality(Trimming) - Cardinality({}))
  BY <1>4, <1>5, <1>6
<1> QED
  BY <1>3, <1>7 DEF CacheIsBounded

(* The shared tables keep their types and their capacities, a backend's    *)
(* circuit is closed exactly below the threshold, and the unlocked cache   *)
(* is longer than its capacity by no more than the threads that have yet   *)
(* to trim it: for any number of threads, in every order of their steps.   *)
THEOREM ServiceTables == Spec => []TypeOK
<1>1. ASSUME ReportInv
      PROVE  TypeOK
  <2>1. StoresInv /\ BreakersInv /\ CacheInv /\ TablesInv /\ \A w \in Workers : WorkInv(w)
    BY <1>1 DEF ReportInv, WorkerInv
  <2>2. \A k \in DOMAIN memory : memory[k] \in [id : Ids, content : Contents]
    <3>1. memory \in Seq(MemoryEntries)
      BY <2>1 DEF StoresInv
    <3> QED
      BY <3>1, LenProperties, ElementOfSeq DEF MemoryEntries
  <2>3. \A k \in DOMAIN cache : cache[k].key \in Contents /\ cache[k].id \in Ids
    <3>1. cache \in Seq(CacheEntries)
      BY <2>1 DEF CacheInv
    <3>2. \A k \in DOMAIN cache : cache[k] \in CacheEntries
      BY <3>1, LenProperties, ElementOfSeq
    <3> QED
      BY <3>2 DEF CacheEntries
  <2>4. ASSUME NEW w \in Workers, pc[w] # "idle"
        PROVE  at[w] \in 1..Len(Fanout) + 1
    <3>1. job[w] \in Asked \cup {NoJob} /\ WorkInv(w)
      BY <2>1 DEF WorkInv
    <3>2. /\ DOMAIN job[w].route = 1..Len(job[w].route) /\ Len(job[w].route) <= Len(Fanout)
          /\ Len(job[w].route) \in Nat
      BY <3>1, JobTypes
    <3>3. Len(Fanout) \in Nat
      BY ServiceAssumption, LenProperties
    <3>4. pc[w] \in Steps
      BY <2>1 DEF TablesInv
    <3> QED
      BY <2>4, <3>1, <3>2, <3>3, <3>4 DEF WorkInv, Steps, Putting, Writing, Getting, Deleting
  <2>5. CacheIsBounded
    BY <2>1, CacheInvBounds
  <2> QED
    BY <2>1, <2>2, <2>3, <2>4, <2>5 DEF TypeOK, StoresInv, DiskInv, BreakersInv, TablesInv
<1> QED
  BY <1>1, ReportInvHolds, PTL

(* What the service says is so.  A backend that an answer lists as stored  *)
(* holds that very report, and one that has removed a report serves none,  *)
(* until somebody else changes it under the same id or, on disk, under any *)
(* id with the same file name.  Every backend answers for a report that    *)
(* was to be stored, in cached responses as well.  What is found has the   *)
(* checksum that comes with it, unless the files were written meanwhile or *)
(* their last put did not end well: through every crash and failure.       *)
THEOREM ServiceAnswers == Spec => []AnswersAreTrue
<1>1. ASSUME ReportInv
      PROVE  AnswersAreTrue
  <2>1. \A w \in Workers : HeldInv(w) /\ ReplyInv(w)
    BY <1>1 DEF ReportInv, WorkerInv
  <2>2. SuccessMeansHeld
    BY <2>1 DEF SuccessMeansHeld, HeldInv, IsSo
  <2>3. EveryBackendAnswers
    BY <2>1 DEF EveryBackendAnswers, ReplyInv, Complete
  <2>4. DeletedIsGone
    BY <2>1 DEF DeletedIsGone, HeldInv, IsSo
  <2>5. FoundIsWhole
    BY <2>1 DEF FoundIsWhole, ReplyInv, WholeOrExcused, Overtaken
  <2> QED
    BY <2>2, <2>3, <2>4, <2>5 DEF AnswersAreTrue
<1> QED
  BY <1>1, ReportInvHolds, PTL
=============================================================================
