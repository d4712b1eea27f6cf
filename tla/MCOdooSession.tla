--------------------------- MODULE MCOdooSession ----------------------------
(***************************************************************************)
(* OdooSession for TLC: threads t1 and t2 in process p1, t3 and the        *)
(* administrator's a1 in p2.                                               *)
(***************************************************************************)
EXTENDS OdooSession

CONSTANTS p1, p2, t1, t2, t3, a1

TwoProcesses == [t \in Threads |-> IF t \in {t1, t2} THEN p1 ELSE p2]
OneProcess == [t \in Threads |-> p1]
=============================================================================
