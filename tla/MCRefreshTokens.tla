--------------------------- MODULE MCRefreshTokens ---------------------------
(* Instances of RefreshTokens and TokenHistory for TLC.                      *)
EXTENDS TokenHistory, TLC

CONSTANTS r1, r2, u1

TwoRequests == {r1, r2}
OneUser     == {u1}

RequestSymmetry == Permutations(TwoRequests)

=============================================================================
