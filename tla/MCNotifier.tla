----------------------------- MODULE MCNotifier -----------------------------
EXTENDS Notifier, TLC

CONSTANTS a, b

(* What the analysis service sends, and a request with every kind of target. *)
Mixed == (a :> <<"slack">>) @@ (b :> <<"email", "slack", "other", "slack">>)
=============================================================================
