----------------------------- MODULE MCAuthorize -----------------------------
(* Small instances of Authorize. *)
EXTENDS Authorize, TLC

Symmetry == Permutations(Users) \cup Permutations(Requests) \cup Permutations(Challenges)
              \cup Permutations(Sessions) \cup Permutations(Codes)
==============================================================================
