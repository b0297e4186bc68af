------------------------------- MODULE MCHub -------------------------------
(***************************************************************************)
(* Model checking of Hub.  A client's channel holds one event, so that     *)
(* slow clients are met.                                                   *)
(***************************************************************************)
EXTENDS Hub
=============================================================================
