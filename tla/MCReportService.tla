-------------------------- MODULE MCReportService --------------------------
(* ReportService and, beside it, ReportContent on small instances.         *)
EXTENDS ReportService, ReportContent, TLC

CONSTANTS x, y

OneName == [i \in Ids |-> "file"]
TwoFormats == <<"md", "html">>
TheirFormats == (x :> "md") @@ (y :> "html")
AllBackends == <<"memory", "local", "s3">>
Symmetry == Permutations(Ids) \cup Permutations(Workers)

SomeGivens == {{"buyer"}, {"product", "llm"}, {"intent", "decision"}}

\* One request, the same in another session, and one without an id.
ThreeOwners ==
    {[request |-> "m", session |-> "m", metadata |-> "m", drawn |-> "d"],
     [request |-> "m", session |-> "n", metadata |-> "m", drawn |-> "e"],
     [request |-> Unset, session |-> "m", metadata |-> "m", drawn |-> "f"]}

\* The two share nothing, so that it shows no more if both move: one does.
MCInit == Init /\ ContentInit
MCNext ==
    \/ order = NoOrder /\ Next /\ UNCHANGED order
    \/ Init /\ ContentNext /\ UNCHANGED vars

MCSpec == MCInit /\ [][MCNext]_<<vars, order>>
=============================================================================
