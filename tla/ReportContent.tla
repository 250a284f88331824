--------------------------- MODULE ReportContent ---------------------------
(***************************************************************************)
(* What a report tells (report/engine.py, report/catalog.py and the four   *)
(* renderers).  A report is the set of facts a reader finds in it; their   *)
(* wording and layout are left out.                                        *)
(*                                                                         *)
(* A request gives some of five slices, each with or without its optional  *)
(* details, and leaves other things unset.  Its owner stands for what says *)
(* whose it is: its ids and its metadata.                                  *)
(***************************************************************************)
EXTENDS FiniteSets

CONSTANTS
    DefaultFormat, DefaultAudience, DefaultLanguage,
    Supported,      \* supported_languages
    Givens,         \* the sets of slices that requests may give
    Details,        \* the details that slices may have
    Owners          \* whose requests may be: their request id, session id and metadata,
                    \* and the report id that uuid4 draws if they have no request id

VARIABLE order      \* what a request gives: slices, their details, and whether it wants the trace

ReportFormats == {"markdown", "html", "json", "text"}
Audiences == {"executive", "technical", "customer"}
Slices == {"buyer", "product", "intent", "decision", "llm"}

\* The details of each slice.
DetailsOf ==
    [buyer |-> {}, product |-> {}, intent |-> {"backend"}, llm |-> {"model"},
     decision |-> {"candidates", "rationale", "steps", "rules"}]

Unset == "unset"

\* TEMPLATE_REGISTRY and default_template_for
Templates == {"executive_summary", "technical_detail", "customer_friendly"}

TemplateFor ==
    [executive |-> "executive_summary", technical |-> "technical_detail",
     customer |-> "customer_friendly"]

ASSUME ContentAssumption ==
    /\ DefaultFormat \in ReportFormats
    /\ DefaultAudience \in Audiences
    /\ DefaultLanguage \in Supported
    /\ Givens \subseteq (SUBSET Slices) \ {{}}
    /\ Details \subseteq UNION {DetailsOf[s] : s \in Slices}
    /\ \A o \in Owners : DOMAIN o = {"request", "session", "metadata", "drawn"}

Orders ==
    [given : SUBSET Slices, has : SUBSET UNION {DetailsOf[s] : s \in Slices}, trace : BOOLEAN]

NoOrder == [given |-> {}, has |-> {}, trace |-> FALSE]

\* Requests with these slices.  The validators let no other format or audience
\* through, and no request without a slice.
Requests(given, has) ==
    [format : ReportFormats \cup {Unset}, audience : Audiences \cup {Unset},
     template : Templates \cup {Unset, "unlisted"}, language : Supported \cup {Unset, "unlisted"},
     given : {given}, has : {has}, trace : BOOLEAN, owner : Owners]

-----------------------------------------------------------------------------
(* _resolve_targets                                                        *)

Or(value, default) == IF value = Unset THEN default ELSE value

FormatAsked(r) == Or(r.format, DefaultFormat)

\* A template may be asked for together with another's audience.
TemplateAsked(r) == Or(r.template, TemplateFor[Or(r.audience, DefaultAudience)])

LanguageAsked(r) ==
    IF Or(r.language, DefaultLanguage) \in Supported
    THEN Or(r.language, DefaultLanguage) ELSE DefaultLanguage

Renderable(r) == TemplateAsked(r) \in Templates

-----------------------------------------------------------------------------
\* sections_for_template
SectionsOf(template) ==
    {"subject", "decision", "rationale", "next_steps"}
    \cup (IF template = "technical_detail" THEN {"intent", "trace", "llm"} ELSE {})
    \cup (IF template = "customer_friendly" THEN {"closing"} ELSE {})

Facts ==
    {"buyer", "product", "intent", "backend", "action", "candidates", "rationale", "rules",
     "narrative", "origin", "narrative_confidence", "steps", "closing"}

Wants(template, section) == section \in SectionsOf(template)

\* A slice that is given has this detail.
Told(r, slice, detail) == slice \in r.given /\ detail \in r.has

(* What each renderer writes of request r with the sections of template t. *)

\* Its last blocks.
MarkdownEnding(t, r, fact) ==
    \/ fact = "narrative" /\ Wants(t, "llm") /\ "llm" \in r.given
    \/ fact \in {"origin", "narrative_confidence"} /\ Wants(t, "llm") /\ Told(r, "llm", "model")
    \/ fact = "steps" /\ Wants(t, "next_steps") /\ Told(r, "decision", "steps")
    \/ fact = "closing" /\ Wants(t, "closing")

MarkdownTells(t, r, fact) ==
    \/ fact \in {"buyer", "product"} /\ Wants(t, "subject") /\ fact \in r.given
    \/ fact = "intent" /\ Wants(t, "intent") /\ "intent" \in r.given
    \/ fact = "backend" /\ Wants(t, "intent") /\ Told(r, "intent", "backend")
    \/ fact = "action" /\ Wants(t, "decision") /\ "decision" \in r.given
    \/ fact = "candidates" /\ Wants(t, "decision") /\ Told(r, "decision", "candidates")
    \/ fact = "rationale" /\ Wants(t, "rationale") /\ Told(r, "decision", "rationale")
    \/ fact = "rules" /\ Wants(t, "trace") /\ r.trace /\ Told(r, "decision", "rules")
    \/ MarkdownEnding(t, r, fact)

\* An origin that is not known is told as such.
HtmlTells(t, r, fact) ==
    \/ fact \in {"buyer", "product"} /\ Wants(t, "subject") /\ fact \in r.given
    \/ fact = "intent" /\ Wants(t, "intent") /\ "intent" \in r.given
    \/ fact = "action" /\ Wants(t, "decision") /\ "decision" \in r.given
    \/ fact = "candidates" /\ Wants(t, "decision") /\ Told(r, "decision", "candidates")
    \/ fact = "rationale" /\ Wants(t, "rationale") /\ Told(r, "decision", "rationale")
    \/ fact = "rules" /\ Wants(t, "trace") /\ r.trace /\ Told(r, "decision", "rules")
    \/ fact \in {"narrative", "origin", "narrative_confidence"} /\ Wants(t, "llm") /\ "llm" \in r.given
    \/ fact = "steps" /\ Wants(t, "next_steps") /\ Told(r, "decision", "steps")
    \/ fact = "closing" /\ Wants(t, "closing")

\* Mutant: include_trace is forgotten.
TextTells_AlwaysTraced(t, r, fact) ==
    IF fact = "rules" THEN Wants(t, "trace") /\ Told(r, "decision", "rules")
    ELSE MarkdownTells(t, r, fact) /\ fact \notin {"backend", "narrative_confidence"}

TextTells(t, r, fact) ==
    \/ fact \in {"buyer", "product"} /\ Wants(t, "subject") /\ fact \in r.given
    \/ fact = "intent" /\ Wants(t, "intent") /\ "intent" \in r.given
    \/ fact = "action" /\ Wants(t, "decision") /\ "decision" \in r.given
    \/ fact = "candidates" /\ Wants(t, "decision") /\ Told(r, "decision", "candidates")
    \/ fact = "rationale" /\ Wants(t, "rationale") /\ Told(r, "decision", "rationale")
    \/ fact = "rules" /\ Wants(t, "trace") /\ r.trace /\ Told(r, "decision", "rules")
    \/ fact = "narrative" /\ Wants(t, "llm") /\ "llm" \in r.given
    \/ fact = "origin" /\ Wants(t, "llm") /\ Told(r, "llm", "model")
    \/ fact = "steps" /\ Wants(t, "next_steps") /\ Told(r, "decision", "steps")
    \/ fact = "closing" /\ Wants(t, "closing")

\* Whole slices: the decision with its trace, and with whatever else it has.
JsonTells(t, r, fact) ==
    \/ fact \in {"buyer", "product"} /\ Wants(t, "subject") /\ fact \in r.given
    \/ fact = "intent" /\ Wants(t, "intent") /\ "intent" \in r.given
    \/ fact = "backend" /\ Wants(t, "intent") /\ Told(r, "intent", "backend")
    \/ fact = "action" /\ Wants(t, "decision") /\ "decision" \in r.given
    \/ fact \in {"candidates", "rationale", "steps"} /\ Wants(t, "decision") /\ Told(r, "decision", fact)
    \/ fact = "rules" /\ Wants(t, "decision") /\ r.trace /\ Told(r, "decision", "rules")
    \/ fact \in {"narrative", "narrative_confidence"} /\ Wants(t, "llm") /\ "llm" \in r.given
    \/ fact = "origin" /\ Wants(t, "llm") /\ Told(r, "llm", "model")

Tells(format, t, r, fact) ==
    \/ format = "markdown" /\ MarkdownTells(t, r, fact)
    \/ format = "html" /\ HtmlTells(t, r, fact)
    \/ format = "text" /\ TextTells(t, r, fact)
    \/ format = "json" /\ JsonTells(t, r, fact)

\* What a report says of whose it is.
Personal(r) ==
    LET id == Or(r.owner.request, r.owner.drawn)
    IN  IF FormatAsked(r) = "json"
        THEN [report |-> id, request |-> r.owner.request, session |-> r.owner.session,
              metadata |-> r.owner.metadata]
        ELSE [report |-> id]

\* What the report of request r is, apart from its time.
Rendered(r) ==
    [format |-> FormatAsked(r), language |-> LanguageAsked(r),
     target |-> IF FormatAsked(r) = "json"
                THEN <<Or(r.audience, DefaultAudience), TemplateAsked(r)>> ELSE <<>>,
     facts |-> {f \in Facts : Tells(FormatAsked(r), TemplateAsked(r), r, f)},
     personal |-> Personal(r)]

\* Mutant: include_trace is not part of the key.
Fingerprint_AnyTrace(r) == [k \in DOMAIN r \ {"owner", "trace"} |-> r[k]]

\* fingerprint: who asks is not part of the key, though reports say it.
Fingerprint(r) == [k \in DOMAIN r \ {"owner"} |-> r[k]]

-----------------------------------------------------------------------------
ContentInit == order = NoOrder

\* Another order comes in.
ContentNext == order = NoOrder /\ order' \in Orders

ContentSpec == ContentInit /\ [][ContentNext]_order

-----------------------------------------------------------------------------
\* What a reader acts upon, as opposed to where it came from.
Matters ==
    {"buyer", "product", "intent", "action", "candidates", "rationale", "narrative", "steps"}

(* Whoever reads a report in another format reads the same: all four tell  *)
(* the same of what matters, the three documents also agree on the trace   *)
(* and the closing words, and no format traces unless it is asked to.      *)
FormatsAgree ==
    order # NoOrder => \A t \in Templates, f \in ReportFormats :
        /\ \A fact \in Matters : Tells(f, t, order, fact) <=> Tells("markdown", t, order, fact)
        /\ \A fact \in {"rules", "closing"} :
              f # "json" => (Tells(f, t, order, fact) <=> Tells("markdown", t, order, fact))
        /\ Tells(f, t, order, "rules") => order.trace

\* A report without what it says of whose it is.
Impersonal(report) == [k \in DOMAIN report \ {"personal"} |-> report[k]]

\* Nothing in a report of the one would be otherwise in a report of the other.
SameOwner(o, p, format) ==
    /\ o.request = p.request /\ o.request # Unset
    /\ format = "json" => o.session = p.session /\ o.metadata = p.metadata

(* The key under which a report is cached decides what is in it: a request *)
(* that is answered from the cache is told what it would have been told    *)
(* itself, whichever of its fields are unset, unsupported or at odds with  *)
(* each other.  It is told so in a report of whoever asked first, with the *)
(* report id of that request, and in JSON its request id, session id and   *)
(* metadata.  Only when those are its own is it the very report.           *)
KeyDecidesContent ==
    order.given \in Givens /\ order.has \subseteq Details =>
        LET made == {r \in Requests(order.given, order.has) : Renderable(r)}
            reports == {[key |-> Fingerprint(r), owner |-> r.owner, report |-> Rendered(r)] : r \in made}
        IN  \A p, q \in reports : p.key = q.key =>
                /\ Impersonal(p.report) = Impersonal(q.report)
                /\ SameOwner(p.owner, q.owner, p.report.format) => p.report = q.report
=============================================================================
