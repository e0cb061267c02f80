--------------------------- MODULE MCOAuthTokens ---------------------------
(* Instances of OAuthTokens for TLC. *)
EXTENDS OAuthTokens, TLC

TokenSymmetry == Permutations(Tokens)
CallSymmetry == Permutations(Calls)
Symmetry == TokenSymmetry \cup CallSymmetry
=============================================================================
