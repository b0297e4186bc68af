------------------------------ MODULE Notifier ------------------------------
(***************************************************************************)
(* The notification service (services/notification-service/main.go with    *)
(* notifier/notifier.go and notifier/slack.go): for each POST to           *)
(* /api/v1/notify a handler, and the goroutine running Dispatch that it    *)
(* leaves behind with the context of the request.                          *)
(*                                                                         *)
(* Outside: net/http cancels that context when the handler has returned or *)
(* the client is gone, and Slack accepts a message, refuses it or never    *)
(* answers.                                                                *)
(***************************************************************************)
EXTENDS Naturals, Sequences, FiniteSets

CONSTANTS Notices,       \* the requests
          Targets,       \* [Notices -> their sequence of targets]
          SlackEnabled   \* is SLACK_WEBHOOK_URL set

ASSUME TargetsAssumption ==
    \A r \in Notices : Targets[r] \in Seq({"slack", "email", "other"})
ASSUME EnabledAssumption == SlackEnabled \in BOOLEAN

VARIABLES handler,    \* [Notices -> where the handler is]
          cancelled,  \* the requests whose context is cancelled
          dispatch,   \* [Notices -> "none", "loop", "posting", "done"]
          next,       \* [Notices -> index of the target Dispatch looks at]
          attempts,   \* [Notices -> messages Send tried to post]
          received,   \* [Notices -> messages that reached Slack]
          notifSent   \* counter notifications_sent_total

handlerVars  == <<handler, notifSent>>
dispatchVars == <<dispatch, next, attempts, received>>
notifierVars == <<handlerVars, cancelled, dispatchVars>>

NotifierInit ==
    /\ handler = [r \in Notices |-> "idle"]
    /\ cancelled = {}
    /\ dispatch = [r \in Notices |-> "none"]
    /\ next = [r \in Notices |-> 1]
    /\ attempts = [r \in Notices |-> 0]
    /\ received = [r \in Notices |-> 0]
    /\ notifSent = 0

(***************************************************************************)
(* The handler                                                             *)
(***************************************************************************)

(* The body is decoded and Dispatch started. *)
ReceiveNotice(r) ==
    /\ handler[r] = "idle"
    /\ \/ /\ handler' = [handler EXCEPT ![r] = "spawned"]
          /\ dispatch' = [dispatch EXCEPT ![r] = "loop"]
       \/ /\ handler' = [handler EXCEPT ![r] = "badRequest"]
          /\ UNCHANGED dispatch
    /\ UNCHANGED <<cancelled, next, attempts, received, notifSent>>

(* The notification counts as sent, and 202 is written. *)
Accept(r) ==
    /\ handler[r] = "spawned"
    /\ notifSent' = notifSent + 1
    /\ handler' = [handler EXCEPT ![r] = "accepted"]
    /\ UNCHANGED <<cancelled, dispatchVars>>

(* Mutant: Dispatch is given a context of its own. *)
CancelNever(r) == handler[r] = "accepted" /\ r \notin cancelled /\ UNCHANGED notifierVars

(* net/http ends the context of a request that has been handled. *)
CancelContext(r) ==
    /\ handler[r] = "accepted"
    /\ r \notin cancelled
    /\ cancelled' = cancelled \cup {r}
    /\ UNCHANGED <<handlerVars, dispatchVars>>

(* The client closes the connection before it is answered. *)
ClientGone(r) ==
    /\ handler[r] = "spawned"
    /\ r \notin cancelled
    /\ cancelled' = cancelled \cup {r}
    /\ UNCHANGED <<handlerVars, dispatchVars>>

(***************************************************************************)
(* Dispatch                                                                *)
(***************************************************************************)
Target(r) == Targets[r][next[r]]
InLoop(r) == dispatch[r] = "loop" /\ next[r] <= Len(Targets[r])
NextTarget(r) == next' = [next EXCEPT ![r] = @ + 1]

(* Nothing is sent: Slack is not enabled, e-mail has no recipients, and     *)
(* other targets have no case.                                              *)
Skip(r) ==
    /\ InLoop(r)
    /\ Target(r) # "slack" \/ ~SlackEnabled
    /\ NextTarget(r)
    /\ UNCHANGED <<handlerVars, cancelled, dispatch, attempts, received>>

(* Send posts the message, ... *)
SlackPost(r) ==
    /\ InLoop(r)
    /\ Target(r) = "slack" /\ SlackEnabled
    /\ r \notin cancelled
    /\ dispatch' = [dispatch EXCEPT ![r] = "posting"]
    /\ attempts' = [attempts EXCEPT ![r] = @ + 1]
    /\ UNCHANGED <<handlerVars, cancelled, next, received>>

(* ... or the client refuses to, as the context is cancelled already. *)
SlackTooLate(r) ==
    /\ InLoop(r)
    /\ Target(r) = "slack" /\ SlackEnabled
    /\ r \in cancelled
    /\ NextTarget(r)
    /\ UNCHANGED <<handlerVars, cancelled, dispatch, attempts, received>>

(* Slack answers: it has the message, or reports a status or breaks the     *)
(* connection, which is logged.                                             *)
SlackAnswers(r) ==
    /\ dispatch[r] = "posting"
    /\ \E got \in {0, 1} : received' = [received EXCEPT ![r] = @ + got]
    /\ dispatch' = [dispatch EXCEPT ![r] = "loop"]
    /\ NextTarget(r)
    /\ UNCHANGED <<handlerVars, cancelled, attempts>>

(* Mutant: a post that was cut off is sent again. *)
SlackCutRepeated(r) ==
    /\ dispatch[r] = "posting"
    /\ r \in cancelled
    /\ \E got \in 0 .. 2 : received' = [received EXCEPT ![r] = @ + got]
    /\ dispatch' = [dispatch EXCEPT ![r] = "loop"]
    /\ NextTarget(r)
    /\ UNCHANGED <<handlerVars, cancelled, attempts>>

(* The context is cancelled meanwhile; Slack may have got the message. *)
SlackCut(r) ==
    /\ dispatch[r] = "posting"
    /\ r \in cancelled
    /\ \E got \in {0, 1} : received' = [received EXCEPT ![r] = @ + got]
    /\ dispatch' = [dispatch EXCEPT ![r] = "loop"]
    /\ NextTarget(r)
    /\ UNCHANGED <<handlerVars, cancelled, attempts>>

DispatchReturns(r) ==
    /\ dispatch[r] = "loop"
    /\ next[r] > Len(Targets[r])
    /\ dispatch' = [dispatch EXCEPT ![r] = "done"]
    /\ UNCHANGED <<handlerVars, cancelled, next, attempts, received>>

DispatchStep(r) ==
    Skip(r) \/ SlackPost(r) \/ SlackTooLate(r) \/ SlackCut(r) \/ DispatchReturns(r)

NotifierFinished ==
    /\ \A r \in Notices : /\ handler[r] = "badRequest" \/ (handler[r] = "accepted" /\ r \in cancelled)
                       /\ dispatch[r] \in {"none", "done"}
    /\ UNCHANGED notifierVars

NotifierNext ==
    \/ \E r \in Notices : ReceiveNotice(r) \/ Accept(r) \/ CancelContext(r) \/ ClientGone(r)
                          \/ DispatchStep(r) \/ SlackAnswers(r)
    \/ NotifierFinished

NotifierSpec == NotifierInit /\ [][NotifierNext]_notifierVars

(* Goroutines that can go on do; Slack need not answer. *)
NotifierFairSpec ==
    /\ NotifierSpec
    /\ \A r \in Notices : /\ WF_notifierVars(Accept(r)) /\ WF_notifierVars(CancelContext(r))
                         /\ WF_notifierVars(DispatchStep(r))

-----------------------------------------------------------------------------
SlackTargets(r) == Cardinality({i \in 1 .. Len(Targets[r]) : Targets[r][i] = "slack"})

(* Slack is asked for at most one message per Slack target, whatever is cut *)
(* off or fails in between, and a target is left out only if the context of *)
(* the request was cancelled before its turn (notifier.go:21-26,            *)
(* main.go:49).                                                             *)
OnceOrCancelled ==
    \A r \in Notices :
        /\ received[r] <= attempts[r] /\ attempts[r] <= SlackTargets(r)
        /\ dispatch[r] = "done" /\ SlackEnabled /\ attempts[r] < SlackTargets(r) => r \in cancelled

(* No goroutine of Dispatch stays behind, though http.DefaultClient has no  *)
(* timeout and Slack may never answer: the context of the request ends it   *)
(* (main.go:49, slack.go:60-66).                                            *)
EveryDispatchEnds == \A r \in Notices : dispatch[r] = "loop" ~> dispatch[r] = "done"
=============================================================================
