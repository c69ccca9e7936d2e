--------------------------- MODULE MCJobRegistry ----------------------------
(***************************************************************************)
(* JobRegistry on small instances.  Three jobs and a retention of one let  *)
(* a job wait behind another, be cancelled from the middle of the queue,   *)
(* and be evicted while a poller still holds its Job object.               *)
(***************************************************************************)
EXTENDS JobRegistry, TLC

Symmetry == Permutations(Jobs)
=============================================================================
