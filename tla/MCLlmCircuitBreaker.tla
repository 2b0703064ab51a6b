------------------------- MODULE MCLlmCircuitBreaker -------------------------
(* Instances of LlmCircuitBreaker for TLC.                                   *)
EXTENDS LlmCircuitBreaker

CONSTANTS c1, c2, c3

ThreeCalls == {c1, c2, c3}

=============================================================================
