---------------------------- MODULE MCLlmRouter ----------------------------
(* An instance of LlmRouter for TLC. *)
EXTENDS LlmRouter

CONSTANTS a, b, c, d

\* A list longer than the fanout.
FiveTargets == {<<d, a, b, c, a>>}

FourAnswers == [content : {"x", "y"}, confidence : {1, 2}]

AllStrategies == {"single", "fallback", "any", "vote", "confidence"}
=============================================================================
