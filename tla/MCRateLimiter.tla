--------------------------- MODULE MCRateLimiter ---------------------------
(***************************************************************************)
(* Model checking of RateLimiter: a burst of two tokens, half tokens, and  *)
(* a purge age at which a bucket is just full.                             *)
(***************************************************************************)
EXTENDS RateLimiter, TLC

CONSTANTS c1, c2, h1

(* A direct connection and one through a proxy. *)
OneProxied == (c1 :> NoHeader) @@ (c2 :> h1)
=============================================================================
