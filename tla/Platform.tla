------------------------------ MODULE Platform ------------------------------
(***************************************************************************)
(* The way of a job from the user and back: litd (cmd/litd/main.go) posts  *)
(* a scan to the gateway, which forwards it to the analysis service, and   *)
(* asks the service for the result.  Composes Gateway, and through it      *)
(* JobService, with the client; every request whose input says so is one   *)
(* litd scan, after which the user may ask again with litd job.            *)
(***************************************************************************)
EXTENDS Gateway

CONSTANT MaxPolls  \* how often litd scan --wait asks, 60 in the code

ASSUME PollAssumption == MaxPolls \in Nat

VARIABLES scan,   \* [Requests -> where its litd scan is, with the exit code at the end]
          polls,  \* [Requests -> how often it has asked]
          shown,  \* [Requests -> the result it printed]
          asked   \* [Requests -> what a later litd job printed]

scanVars == <<scan, polls, shown, asked>>
vars == <<gatewayVars, scanVars>>

Init ==
    /\ GatewayInit
    /\ scan = [r \in Requests |-> "posting"]
    /\ polls = [r \in Requests |-> 0]
    /\ shown = [r \in Requests |-> None]
    /\ asked = [r \in Requests |-> None]

IsScan(r) == input[r] # None /\ input[r].litd # "no"

(* A gateway step of r, or a step around it, that litd takes no part in. *)
Frame == UNCHANGED scanVars

(***************************************************************************)
(* litd scan                                                               *)
(***************************************************************************)
Exit(r, code) == scan' = [scan EXCEPT ![r] = code]

(* The answer holds a job; the body of any other status is not JSON. *)
Submitted(r) ==
    /\ IsScan(r) /\ scan[r] = "posting"
    /\ pc[r] = "done" /\ r \notin gone
    /\ answer[r] = 202
    /\ Exit(r, IF input[r].litd = "wait" THEN "polling" ELSE "exit0")
    /\ UNCHANGED <<gatewayVars, polls, shown, asked>>

(* must: the POST fails or its answer cannot be decoded. *)
NotSubmitted(r) ==
    /\ IsScan(r) /\ scan[r] = "posting"
    /\ r \in gone \/ (pc[r] = "done" /\ answer[r] # 202)
    /\ Exit(r, "exit1")
    /\ UNCHANGED <<gatewayVars, polls, shown, asked>>

(* Mutant: an attempt that found nothing is not counted. *)
PollMissesUncounted(r) ==
    /\ scan[r] = "polling" /\ polls[r] < MaxPolls
    /\ UNCHANGED vars

(* A poll ends without a result: there is none yet, the service is down, or *)
(* the call failed on the way.                                              *)
PollMisses(r) ==
    /\ scan[r] = "polling" /\ polls[r] < MaxPolls
    /\ polls' = [polls EXCEPT ![r] = @ + 1]
    /\ UNCHANGED <<gatewayVars, scan, shown, asked>>

(* GET /api/v1/jobs/{id} finds the result, which is printed. *)
PollHits(r) ==
    /\ scan[r] = "polling" /\ polls[r] < MaxPolls
    /\ service = "up" /\ outcome[r] # None
    /\ polls' = [polls EXCEPT ![r] = @ + 1]
    /\ shown' = [shown EXCEPT ![r] = outcome[r]]
    /\ Exit(r, "exit0")
    /\ UNCHANGED <<gatewayVars, asked>>

(* Mutant: the loop is left without an error. *)
TimedOutSilently(r) ==
    /\ scan[r] = "polling" /\ polls[r] = MaxPolls
    /\ Exit(r, "exit0")
    /\ UNCHANGED <<gatewayVars, polls, shown, asked>>

TimedOut(r) ==
    /\ scan[r] = "polling" /\ polls[r] = MaxPolls
    /\ Exit(r, "exit1")
    /\ UNCHANGED <<gatewayVars, polls, shown, asked>>

(* litd job, with the ID that litd scan printed, finds a result; it exits   *)
(* with 1 when there is none or the service does not answer.                *)
CmdJob(r) ==
    /\ IsScan(r) /\ asked[r] = None
    /\ scan[r] \in {"exit0", "exit1"} /\ answer[r] = 202 /\ r \notin gone
    /\ service = "up" /\ outcome[r] # None
    /\ asked' = [asked EXCEPT ![r] = outcome[r]]
    /\ UNCHANGED <<gatewayVars, scan, polls, shown>>

ScanStep(r) ==
    Submitted(r) \/ NotSubmitted(r) \/ PollMisses(r) \/ PollHits(r) \/ TimedOut(r)

(* Nothing is left to do; requests need not arrive. *)
Finished ==
    /\ service = "down" /\ \A r \in Requests : pc[r] \in {"idle", "done"}
    /\ UNCHANGED vars

Next ==
    \/ \E r \in Requests : (GatewayStep(r) /\ Frame) \/ ScanStep(r) \/ CmdJob(r)
    \/ Surroundings /\ Frame
    \/ Finished

Spec == Init /\ [][Next]_vars

(***************************************************************************)
(* A goroutine that can go on does, litd is a running program, and the     *)
(* service takes what was sent to it while it is up: JobPipeline shows that *)
(* its handlers are not blocked for good.  Nobody has to panic, disconnect *)
(* or refuse.                                                              *)
(***************************************************************************)
FairSpec ==
    /\ Spec
    /\ \A r \in Requests : /\ WF_vars(GatewayStep(r) /\ Frame)
                           /\ WF_vars(ServiceTakes(r) /\ Frame)
                           /\ WF_vars(ScanStep(r))

-----------------------------------------------------------------------------
(* litd scan exits with 0 only when the service has the job, and with       *)
(* --wait only after it printed the job's one result; a litd job for the    *)
(* same ID prints that result too, whatever finished, failed or stopped in  *)
(* between (main.go:55-106, 138-156).                                       *)
LitdTellsTheTruth ==
    \A r \in Requests :
        /\ scan[r] = "exit0" => status[r] # "new" /\ (input[r].litd = "wait" => shown[r] # None)
        /\ shown[r] # None => shown[r] = outcome[r]
        /\ asked[r] # None => asked[r] = outcome[r] /\ shown[r] \in {None, asked[r]}

(* Every litd scan ends: the service may stop, the job be lost with it, or  *)
(* every single call fail (main.go:89-105).                                 *)
ScanEnds ==
    \A r \in Requests : IsScan(r) ~> scan[r] \in {"exit0", "exit1"}
=============================================================================
