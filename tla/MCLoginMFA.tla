----------------------------- MODULE MCLoginMFA -----------------------------
(* Small instances of LoginMFA: rows are model values, interchangeable. *)
EXTENDS LoginMFA, TLC

Symmetry == Permutations(Requests) \cup Permutations(Challenges)
              \cup Permutations(Sessions) \cup Permutations(Users)
=============================================================================
