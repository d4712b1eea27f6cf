---------------------------- MODULE MCShieldAuth ---------------------------
(***************************************************************************)
(* ShieldAuth for TLC: callers t1 and t2 and the administrator a1, in one  *)
(* worker or with t2 in a second one.                                      *)
(***************************************************************************)
EXTENDS ShieldAuth, TLC

CONSTANTS w1, w2, t1, t2, a1, k1, k2, k3, k4, k5

OneWorker == [t \in Threads |-> w1]
TwoWorkers == [t \in Threads |-> IF t = t2 THEN w2 ELSE w1]

\* Tokens are told apart only by equality.
TokenSymmetry == Permutations(Tokens)
=============================================================================
