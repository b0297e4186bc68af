---------------------------- MODULE MCAuditStore ----------------------------
EXTENDS AuditStore

CONSTANTS r1, r2, r3, j1, j2, pushed, bot

Payload(job, event, actor) == ("job_id" :> job) @@ ("event_type" :> event) @@ ("actor" :> actor)

(* Two entries of one job, one without an event type, and one of another    *)
(* without an actor.                                                        *)
Payloads == (r1 :> Payload(j1, pushed, bot)) @@ (r2 :> Payload(j1, Empty, bot)) @@
            (r3 :> Payload(j2, pushed, Empty))
=============================================================================
