---------------------------- MODULE MCRefreshTokens ----------------------------
(* Small instances of RefreshTokens. *)
EXTENDS RefreshTokens, TLC

Symmetry == Permutations(Requests) \cup Permutations(Users) \cup Permutations(Tokens)
================================================================================
