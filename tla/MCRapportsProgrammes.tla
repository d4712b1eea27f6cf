------------------------ MODULE MCRapportsProgrammes ------------------------
(***************************************************************************)
(* RapportsProgrammes for TLC: two reports, of which the rendering of r2   *)
(* raises, two workers and one edit.                                       *)
(***************************************************************************)
EXTENDS RapportsProgrammes

CONSTANTS r1, r2, u1, w1, w2, e1
=============================================================================
