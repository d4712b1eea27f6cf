-------------------------- MODULE MCActionApproval --------------------------
(***************************************************************************)
(* ActionApproval for TLC: three people, a request, three calls in flight  *)
(***************************************************************************)
EXTENDS ActionApproval, TLC

Symmetry == Permutations(Users) \cup Permutations(Requests)
              \cup Permutations(Calls)
=============================================================================
