--------------------------- MODULE MCJobPipeline ---------------------------
(***************************************************************************)
(* Model checking of JobPipeline.  With capacities of 1 and two jobs the   *)
(* handlers meet a full queue and the consumer a full pool; with two       *)
(* workers results come in any order.  There is no symmetry set: TLC's     *)
(* liveness checking is not sound with one.                                *)
(***************************************************************************)
EXTENDS JobPipeline
=============================================================================
