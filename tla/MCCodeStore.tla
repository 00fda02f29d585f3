----------------------------- MODULE MCCodeStore -----------------------------
(* Small instances of CodeStore. *)
EXTENDS CodeStore, TLC

Symmetry == Permutations(Requests) \cup Permutations(Codes)
==============================================================================
