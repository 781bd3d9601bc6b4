------------------------- MODULE MCConnectionTokens -------------------------
(* Instances of ConnectionTokens for TLC. *)
EXTENDS ConnectionTokens, TLC

CallerSymmetry == Permutations(Callers)
TokenSymmetry == CallerSymmetry \cup Permutations(Consents)
=============================================================================
