---------------------------- MODULE MCAuthTokens ----------------------------
(* Two requests at a time; three tokens, three passwords, one reset link.   *)
EXTENDS AuthTokens, TLC

Symmetry == Permutations(Requests)
=============================================================================
