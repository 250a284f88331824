---------------------------- MODULE MCLlmService ----------------------------
(* An instance of LlmService for TLC. *)
EXTENDS LlmService, TLC

CONSTANTS a, b

Symmetry == Permutations(Requests)

\* The chain does not begin with the default model, a.
ChainOfTwo == <<b, a>>

AskFor(p, s, m, l) ==
    [prompt |-> p, strategy |-> s, model |-> m, list |-> l]

\* A model named or not, two targets of one provider, and a prompt that is too long.
SharingAsks ==
    {AskFor("p", "fallback", a, <<>>), AskFor("p", "fallback", Unnamed, <<>>),
     AskFor("p", "any", Unnamed, <<>>), AskFor("p", "any", Unnamed, <<a, a>>),
     AskFor("p", "vote", a, <<>>), AskFor("p", "vote", Unnamed, <<a, a>>),
     AskFor("long", "any", a, <<>>)}

SingleAsks == {AskFor("p", "single", m, <<>>) : m \in {a, Unnamed}}

ListsOf(asks) == {Resolve(ask) : ask \in asks}
SharingLists == ListsOf(SharingAsks)
SingleLists == ListsOf(SingleAsks)

OneAnswer == {[content |-> "x", confidence |-> 1]}

SharingStrategies == {"fallback", "any", "vote"}
=============================================================================
