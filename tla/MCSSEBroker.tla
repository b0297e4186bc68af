---------------------------- MODULE MCSSEBroker ----------------------------
(***************************************************************************)
(* Model checking of SSEBroker.  Three subscribers make arrays of one, two *)
(* and four places, with and without room at the end.                      *)
(***************************************************************************)
EXTENDS SSEBroker
=============================================================================
