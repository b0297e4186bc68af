--------------------------- MODULE PlatformProofs ---------------------------
(***************************************************************************)
(* Proofs about Platform, and so about Gateway, for any finite set of      *)
(* requests, any inputs and any number of polls.                           *)
(***************************************************************************)
EXTENDS Platform, ListProofs

AnyInput == Submissions \cup Webhooks \cup Others

Stages == {"idle", "arrived", "handle", "forward", "count", "observe", "error", "leave", "done"}

TypeInv ==
    /\ pc \in [Requests -> Stages]
    /\ input \in [Requests -> AnyInput \cup {None}]
    /\ \A r \in Requests : pc[r] # "idle" => input[r] \in AnyInput
    /\ answer \in [Requests -> Nat]
    /\ gone \subseteq Requests
    /\ job \in [Requests -> {NewJob(i) : i \in Submissions \cup Webhooks} \cup {None}]
    /\ link \in [Requests -> {"none", "sent", "taken", "refused", "broken", "closed"}]
    /\ panicked \subseteq Requests
    /\ status \in [Requests -> {"new", "pending", "finished"}]
    /\ outcome \in [Requests -> Outcomes \cup {None}]
    /\ service \in {"up", "down"}
    /\ scan \in [Requests -> {"posting", "polling", "exit0", "exit1"}]
    /\ polls \in [Requests -> Nat]
    /\ shown \in [Requests -> Outcomes \cup {None}]
    /\ asked \in [Requests -> Outcomes \cup {None}]

(* The status a handler gives by itself is never the 202 of a taken job. *)
LEMMA VerdictRange ==
    ASSUME NEW i PROVE Verdict(i) \in {0, 200, 204, 400, 401, 404, 500}
  BY DEF Verdict, GitHubWebhook, SubmitJob

LEMMA TypeInit == Init => TypeInv
  BY DEF Init, GatewayInit, Service!Init, TypeInv, Stages

LEMMA TypeNext == TypeInv /\ [Next]_vars => TypeInv'
<1> SUFFICES ASSUME TypeInv, [Next]_vars PROVE TypeInv'
  OBVIOUS
<1> USE DEF TypeInv, Stages, Goto, Answer, requestVars, forwardVars, metricVars, serviceVars, scanVars,
        gatewayVars, Frame
<1>1. ASSUME NEW r \in Requests, Frame, Arrive(r) PROVE TypeInv'
  <2>1. Inputs[r] \subseteq AnyInput
    BY InputAssumption DEF AnyInput
  <2> QED BY <1>1, <2>1 DEF Arrive
<1>2. ASSUME NEW r \in Requests, Frame, Preflight(r) \/ Limited(r) \/ Enter(r) PROVE TypeInv'
  BY <1>2 DEF Preflight, Limited, Enter
<1>3. ASSUME NEW r \in Requests, Frame, Reply(r) PROVE TypeInv'
  BY <1>3, VerdictRange DEF Reply
<1>4. ASSUME NEW r \in Requests, Frame, EnqueueJob(r) PROVE TypeInv'
  <2>1. input[r] \in Submissions \cup Webhooks
    BY <1>4 DEF EnqueueJob, AnyInput, Others
  <2> QED BY <1>4, <2>1 DEF EnqueueJob
<1>5. ASSUME NEW r \in Requests, Frame, EnqueueDone(r) \/ EnqueueFails(r) \/ ListJobs(r) PROVE TypeInv'
  BY <1>5 DEF EnqueueDone, EnqueueFails, ListJobs
<1>6. ASSUME NEW r \in Requests, Frame, WriteCounter(r) \/ WriteGauge(r) \/ WriteHistogram(r) PROVE TypeInv'
  BY <1>6 DEF WriteCounter, WriteGauge, WriteHistogram
<1>7. ASSUME NEW r \in Requests, Frame,
             CountRequest(r) \/ ObserveLatency(r) \/ CountError(r) \/ Leave(r) \/ Panic(r) PROVE TypeInv'
  BY <1>7 DEF CountRequest, ObserveLatency, CountError, Leave, Panic
<1>8. ASSUME NEW r \in Requests, Frame, Disconnect(r) \/ Break(r) \/ Refuse(r) PROVE TypeInv'
  BY <1>8 DEF Disconnect, Break, Refuse
<1>9. ASSUME NEW r \in Requests, Frame, ServiceTakes(r) \/ ServiceFinishes(r) PROVE TypeInv'
  BY <1>9 DEF ServiceTakes, ServiceFinishes, Service!Take, Service!Finish
<1>10. ASSUME Frame, ServiceStops PROVE TypeInv'
  BY <1>10 DEF ServiceStops, Service!Stop
<1>11. ASSUME NEW r \in Requests, ScanStep(r) \/ CmdJob(r) PROVE TypeInv'
  BY <1>11 DEF ScanStep, Submitted, NotSubmitted, PollMisses, PollHits, TimedOut, CmdJob, Exit
<1>12. CASE UNCHANGED vars
  BY <1>12 DEF vars
<1> QED
  BY <1>1, <1>2, <1>3, <1>4, <1>5, <1>6, <1>7, <1>8, <1>9, <1>10, <1>11, <1>12
  DEF Next, GatewayStep, Surroundings, Finished

-----------------------------------------------------------------------------
(***************************************************************************)
(* Why an answer of 202 means a job, and a job a request that may ask.  A  *)
(* link is opened only for a request that passed every check of its        *)
(* handler, and the service changes the status of a job only over it; 202  *)
(* is answered over a link that was seen "taken".  A broken link may hide  *)
(* that the job was taken, which is why 500 is no promise.                 *)
(***************************************************************************)
MayAsk(i) ==
    i \in {s \in Submissions : s.decodable /\ s.repoURL /\ s.commitSHA} \cup
          {w \in Webhooks : /\ w.readable /\ w.decodable /\ (w.signed \/ ~Secret)
                            /\ w.event = "pull_request" /\ w.action # "closed"}

Forwarded(r) ==
    /\ pc[r] \in {"idle", "arrived", "handle"} => answer[r] = 0 /\ link[r] = "none"
    /\ pc[r] = "forward" => answer[r] = 0 /\ link[r] # "none"
    /\ link[r] = "none" => status[r] = "new"
    /\ link[r] # "none" => /\ MayAsk(input[r]) /\ job[r] = NewJob(input[r])
                           /\ answer[r] \in {0, 202, 500}
    /\ link[r] = "taken" \/ answer[r] = 202 => status[r] # "new"

ForwardInv == TypeInv /\ \A r \in Requests : Forwarded(r)

(* The checks of the two handlers that make jobs let only such inputs pass. *)
LEMMA ChecksSuffice ==
    ASSUME NEW i \in AnyInput, i.route \in {"submit", "webhook"}, Verdict(i) = 0
    PROVE  MayAsk(i)
<1>1. CASE i.route = "submit"
  <2>1. i \in Submissions
    BY <1>1 DEF AnyInput, Webhooks, Others
  <2>2. i.decodable /\ i.repoURL /\ i.commitSHA
    BY <1>1 DEF Verdict, SubmitJob
  <2> QED BY <2>1, <2>2 DEF MayAsk
<1>2. CASE i.route = "webhook"
  <2>1. i \in Webhooks
    BY <1>2 DEF AnyInput, Submissions, Others
  <2>2. GitHubWebhook(i) = 0
    BY <1>2 DEF Verdict
  <2>3. /\ i.readable /\ i.decodable /\ (i.signed \/ ~Secret) /\ i.event = "pull_request"
        /\ i.action \in {"opened", "synchronize", "reopened"}
    BY <2>2 DEF GitHubWebhook
  <2> QED BY <2>1, <2>3 DEF MayAsk
<1> QED BY <1>1, <1>2

LEMMA ForwardInit == Init => ForwardInv
  BY TypeInit DEF Init, GatewayInit, Service!Init, ForwardInv, Forwarded

LEMMA ForwardNext == ForwardInv /\ [Next]_vars => ForwardInv'
<1> SUFFICES ASSUME ForwardInv, [Next]_vars PROVE \A r \in Requests : Forwarded(r)'
  BY TypeNext DEF ForwardInv
<1>0. TypeInv /\ \A r \in Requests : Forwarded(r)
  BY DEF ForwardInv
<1> USE <1>0 DEF TypeInv, Stages, Forwarded, Goto, Answer, requestVars, forwardVars, metricVars, serviceVars,
        scanVars, gatewayVars, Frame
<1>1. ASSUME NEW q \in Requests, Arrive(q) PROVE \A r \in Requests : Forwarded(r)'
  BY <1>1 DEF Arrive
<1>2. ASSUME NEW q \in Requests, Preflight(q) \/ Limited(q) \/ Enter(q)
      PROVE \A r \in Requests : Forwarded(r)'
  BY <1>2 DEF Preflight, Limited, Enter
<1>3. ASSUME NEW q \in Requests, Reply(q) PROVE \A r \in Requests : Forwarded(r)'
  BY <1>3, VerdictRange DEF Reply
<1>4. ASSUME NEW q \in Requests, EnqueueJob(q) PROVE \A r \in Requests : Forwarded(r)'
  <2>1. MayAsk(input[q])
    BY <1>4, ChecksSuffice DEF EnqueueJob
  <2> QED BY <1>4, <2>1 DEF EnqueueJob
<1>5. ASSUME NEW q \in Requests, EnqueueDone(q) \/ EnqueueFails(q) \/ ListJobs(q)
      PROVE \A r \in Requests : Forwarded(r)'
  BY <1>5 DEF EnqueueDone, EnqueueFails, ListJobs
<1>6. ASSUME NEW q \in Requests, WriteCounter(q) \/ WriteGauge(q) \/ WriteHistogram(q)
      PROVE \A r \in Requests : Forwarded(r)'
  BY <1>6 DEF WriteCounter, WriteGauge, WriteHistogram
<1>7. ASSUME NEW q \in Requests, CountRequest(q) \/ ObserveLatency(q) \/ CountError(q) \/ Leave(q) \/ Panic(q)
      PROVE \A r \in Requests : Forwarded(r)'
  BY <1>7 DEF CountRequest, ObserveLatency, CountError, Leave, Panic
<1>8. ASSUME NEW q \in Requests, Disconnect(q) \/ Break(q) \/ Refuse(q)
      PROVE \A r \in Requests : Forwarded(r)'
  BY <1>8 DEF Disconnect, Break, Refuse
<1>9. ASSUME NEW q \in Requests, ServiceTakes(q) \/ ServiceFinishes(q)
      PROVE \A r \in Requests : Forwarded(r)'
  BY <1>9 DEF ServiceTakes, ServiceFinishes, Service!Take, Service!Finish
<1>10. ASSUME ServiceStops PROVE \A r \in Requests : Forwarded(r)'
  BY <1>10 DEF ServiceStops, Service!Stop
<1>11. ASSUME NEW q \in Requests, ScanStep(q) \/ CmdJob(q) PROVE \A r \in Requests : Forwarded(r)'
  BY <1>11 DEF ScanStep, Submitted, NotSubmitted, PollMisses, PollHits, TimedOut, CmdJob, Exit
<1>12. CASE UNCHANGED vars
  BY <1>12 DEF vars
<1> QED
  BY <1>1, <1>2, <1>3, <1>4, <1>5, <1>6, <1>7, <1>8, <1>9, <1>10, <1>11, <1>12
  DEF Next, GatewayStep, Surroundings, Finished

LEMMA ForwardInvariant == Spec => []ForwardInv
<1>1. ForwardInv /\ UNCHANGED vars => ForwardInv'
  BY ForwardNext
<1> QED BY ForwardInit, ForwardNext, PTL DEF Spec

LEMMA ForwardImplies == ForwardInv => AnswersMatchJobs
<1> SUFFICES ASSUME ForwardInv, NEW r \in Requests
             PROVE  /\ answer[r] = 202 => status[r] # "new"
                    /\ status[r] # "new" => /\ r \in Asking /\ answer[r] \in {0, 202, 500}
                                            /\ (job[r].source = "github") = (input[r].route = "webhook")
  BY DEF AnswersMatchJobs
<1>1. Forwarded(r)
  BY DEF ForwardInv
<1>2. ASSUME MayAsk(input[r]) PROVE r \in Asking
  BY <1>2 DEF MayAsk, Asking
<1>3. ASSUME job[r] = NewJob(input[r])
      PROVE  (job[r].source = "github") = (input[r].route = "webhook")
  <2>1. input[r].route = "webhook" => job[r].source = "github"
    BY <1>3 DEF NewJob
  <2>2. ASSUME input[r].route # "webhook" PROVE job[r].source = "manual"
    <3>1. \E repo : job[r] = [source |-> "manual", repo |-> repo]
      BY <1>3, <2>2, Zenon DEF NewJob
    <3> QED BY <3>1
  <2> QED BY <2>1, <2>2
<1> QED BY <1>1, <1>2, <1>3 DEF Forwarded

(* Whatever breaks and whoever hangs up, 202 is answered only for a job the *)
(* service has, and the service has only jobs of requests that may ask.     *)
THEOREM AnswersCorrect == Spec => []AnswersMatchJobs
  BY ForwardInvariant, ForwardImplies, PTL

-----------------------------------------------------------------------------
(***************************************************************************)
(* Why litd tells the truth.  It polls only for a job that was answered    *)
(* 202, which the service has, and a result, once it is there, is not      *)
(* replaced: the service finishes a pending job only.  What litd printed   *)
(* is therefore still what the service answers.                            *)
(***************************************************************************)
Truthful(r) ==
    /\ scan[r] # "posting" \/ r \in gone => pc[r] # "idle"
    /\ scan[r] = "polling" => input[r].litd = "wait" /\ status[r] # "new"
    /\ scan[r] = "exit0" => status[r] # "new" /\ (input[r].litd = "wait" => shown[r] # None)
    /\ outcome[r] # None => status[r] = "finished"
    /\ shown[r] # None => shown[r] = outcome[r]
    /\ asked[r] # None => asked[r] = outcome[r]

ScanInv == ForwardInv /\ \A r \in Requests : Truthful(r)

LEMMA ScanInit == Init => ScanInv
  BY ForwardInit DEF Init, GatewayInit, Service!Init, ScanInv, Truthful

LEMMA ScanNext == ScanInv /\ [Next]_vars => ScanInv'
<1> SUFFICES ASSUME ScanInv, [Next]_vars PROVE \A r \in Requests : Truthful(r)'
  BY ForwardNext DEF ScanInv
<1>0. TypeInv /\ \A r \in Requests : Truthful(r)
  BY DEF ScanInv, ForwardInv
<1> USE <1>0 DEF TypeInv, Stages, Truthful, Goto, Answer, requestVars, forwardVars, metricVars, serviceVars,
        scanVars, gatewayVars, Frame
<1>1. ASSUME NEW q \in Requests, Frame, Arrive(q)
      PROVE \A r \in Requests : Truthful(r)'
  BY <1>1 DEF Arrive
<1>2. ASSUME NEW q \in Requests, Frame, Preflight(q) \/ Limited(q) \/ Enter(q) \/ Reply(q)
      PROVE \A r \in Requests : Truthful(r)'
  BY <1>2 DEF Preflight, Limited, Enter, Reply
<1>3. ASSUME NEW q \in Requests, Frame, EnqueueJob(q) \/ EnqueueDone(q) \/ EnqueueFails(q) \/ ListJobs(q)
      PROVE \A r \in Requests : Truthful(r)'
  BY <1>3 DEF EnqueueJob, EnqueueDone, EnqueueFails, ListJobs
<1>4. ASSUME NEW q \in Requests, Frame, WriteCounter(q) \/ WriteGauge(q) \/ WriteHistogram(q)
      PROVE \A r \in Requests : Truthful(r)'
  BY <1>4 DEF WriteCounter, WriteGauge, WriteHistogram
<1>5. ASSUME NEW q \in Requests, Frame, CountRequest(q) \/ ObserveLatency(q) \/ CountError(q) \/ Leave(q) \/ Panic(q)
      PROVE \A r \in Requests : Truthful(r)'
  BY <1>5 DEF CountRequest, ObserveLatency, CountError, Leave, Panic
<1>6. ASSUME NEW q \in Requests, Frame, Disconnect(q) \/ Break(q) \/ Refuse(q)
      PROVE \A r \in Requests : Truthful(r)'
  BY <1>6 DEF Disconnect, Break, Refuse
<1>7. ASSUME NEW q \in Requests, Frame, ServiceTakes(q) \/ ServiceFinishes(q)
      PROVE \A r \in Requests : Truthful(r)'
  BY <1>7 DEF ServiceTakes, ServiceFinishes, Service!Take, Service!Finish
<1>8. ASSUME Frame, ServiceStops PROVE \A r \in Requests : Truthful(r)'
  BY <1>8 DEF ServiceStops, Service!Stop
<1>9. ASSUME NEW q \in Requests, Submitted(q) PROVE \A r \in Requests : Truthful(r)'
  <2>1. status[q] # "new"
    BY <1>9 DEF Submitted, ScanInv, ForwardInv, Forwarded
  <2> QED BY <1>9, <2>1 DEF Submitted, Exit
<1>10. ASSUME NEW q \in Requests, NotSubmitted(q) \/ PollMisses(q) \/ PollHits(q) \/ TimedOut(q) \/ CmdJob(q)
       PROVE \A r \in Requests : Truthful(r)'
  BY <1>10 DEF NotSubmitted, PollMisses, PollHits, TimedOut, CmdJob, Exit
<1>11. CASE UNCHANGED vars
  BY <1>11 DEF vars
<1> QED
  BY <1>1, <1>2, <1>3, <1>4, <1>5, <1>6, <1>7, <1>8, <1>9, <1>10, <1>11
  DEF Next, GatewayStep, Surroundings, ScanStep, Finished

LEMMA ScanInvariant == Spec => []ScanInv
<1>1. ScanInv /\ UNCHANGED vars => ScanInv'
  BY ScanNext
<1> QED BY ScanInit, ScanNext, PTL DEF Spec

(* An exit code of 0 and every result litd prints are backed by the         *)
(* service, for good.                                                       *)
THEOREM LitdIsTruthful == Spec => []LitdTellsTheTruth
<1>1. ScanInv => LitdTellsTheTruth
  BY DEF ScanInv, Truthful, LitdTellsTheTruth
<1> QED BY <1>1, ScanInvariant, PTL

-----------------------------------------------------------------------------
(***************************************************************************)
(* The registry: what an operation on one metric does to it, and to the    *)
(* others nothing.                                                         *)
(***************************************************************************)
Histogram == [buckets : {Buckets}, counts : [1 .. Len(Buckets) + 1 -> Nat], sum : Nat, total : Nat]
Registry == [counters : [{"requests", "errors"} -> Nat], gauges : [{"inflight"} -> Int],
             histograms : [{"latency"} -> Histogram]]

LEMMA IncCounter ==
    ASSUME NEW g \in Registry, NEW n \in {"requests", "errors"}
    PROVE  /\ CounterInc(g, n) \in Registry
           /\ CounterInc(g, n).counters = [g.counters EXCEPT ![n] = @ + 1]
           /\ CounterInc(g, n).gauges = g.gauges /\ CounterInc(g, n).histograms = g.histograms
  BY DEF Registry, CounterInc

LEMMA MoveGauge ==
    ASSUME NEW g \in Registry, NEW d \in Int
    PROVE  /\ GaugeAdd(g, "inflight", d) \in Registry
           /\ GaugeAdd(g, "inflight", d).gauges["inflight"] = g.gauges["inflight"] + d
           /\ GaugeAdd(g, "inflight", d).counters = g.counters
           /\ GaugeAdd(g, "inflight", d).histograms = g.histograms
  BY DEF Registry, GaugeAdd

LEMMA CountInType ==
    ASSUME NEW S, NEW f \in [S -> Nat], NEW x PROVE CountIn(f, x) \in [S -> Nat]
<1>1. CASE x \in S
  BY <1>1 DEF CountIn
<1>2. CASE x \notin S
  BY <1>2 DEF CountIn
<1> QED BY <1>1, <1>2

LEMMA ObserveOnce ==
    ASSUME NEW h \in Histogram, NEW ms \in Nat
    PROVE  Observed(h, ms) \in Histogram /\ Observed(h, ms).total = h.total + 1
<1> DEFINE c == CountIn(h.counts, FirstFit(h, ms))
           s == h.sum + ms
           t == h.total + 1
<1>1. h.counts \in [1 .. Len(Buckets) + 1 -> Nat] /\ h.sum \in Nat /\ h.total \in Nat
  BY DEF Histogram
<1>2. c \in [1 .. Len(Buckets) + 1 -> Nat] /\ s \in Nat /\ t \in Nat
  BY <1>1, CountInType, SMTT(30)
<1>3. Observed(h, ms) = [h EXCEPT !.sum = s, !.total = t, !.counts = c]
  BY DEF Observed
<1> HIDE DEF c, s, t
<1>4. [h EXCEPT !.sum = s, !.total = t, !.counts = c] \in Histogram
  BY <1>2 DEF Histogram
<1>5. [h EXCEPT !.sum = s, !.total = t, !.counts = c].total = t
  BY DEF Histogram
<1> QED BY <1>3, <1>4, <1>5 DEF t

LEMMA ObserveHistogram ==
    ASSUME NEW g \in Registry, NEW ms \in Nat
    PROVE  /\ HistogramObserve(g, "latency", ms) \in Registry
           /\ HistogramObserve(g, "latency", ms).histograms["latency"].total =
                  g.histograms["latency"].total + 1
           /\ HistogramObserve(g, "latency", ms).counters = g.counters
           /\ HistogramObserve(g, "latency", ms).gauges = g.gauges
<1>1. /\ Observed(g.histograms["latency"], ms) \in Histogram
      /\ Observed(g.histograms["latency"], ms).total = g.histograms["latency"].total + 1
  BY ObserveOnce DEF Registry
<1> QED BY <1>1 DEF Registry, HistogramObserve

(* The registry that middleware.Metrics starts with. *)
LEMMA NewGatewayReg ==
    /\ NewGateway \in Registry
    /\ NewGateway.counters = [n \in {"requests", "errors"} |-> 0]
    /\ NewGateway.gauges["inflight"] = 0
    /\ NewGateway.histograms["latency"] = NewHistogram(Buckets)
    /\ NewGateway.histograms["latency"].total = 0
<1> DEFINE h == NewHistogram(Buckets)
<1>1. h \in Histogram /\ h.total = 0
  BY BucketAssumption DEF NewHistogram, Histogram
<1> HIDE DEF h
<1>2. NewGateway = [counters |-> [n \in {"requests", "errors"} |-> 0],
                    gauges |-> [n \in {"inflight"} |-> 0],
                    histograms |-> [n \in {"latency"} |-> h]]
  <2> DEFINE g1 == WithCounter(NewRegistry, "requests")
             g2 == WithCounter(g1, "errors")
             g3 == WithHistogram(g2, "latency", Buckets)
  <2>1. g1 = [counters |-> [n \in {"requests"} |-> 0], gauges |-> <<>>, histograms |-> <<>>]
    BY DEF NewRegistry, WithCounter, GetOrCreate
  <2>2. g2 = [counters |-> [n \in {"requests", "errors"} |-> 0], gauges |-> <<>>, histograms |-> <<>>]
    <3> HIDE DEF g1
    <3>1. GetOrCreate([n \in {"requests"} |-> 0], "errors", 0) = [n \in {"requests", "errors"} |-> 0]
      BY DEF GetOrCreate
    <3>2. g2 = [g1 EXCEPT !.counters = GetOrCreate(g1.counters, "errors", 0)]
      BY DEF WithCounter
    <3>3. g1.counters = [n \in {"requests"} |-> 0]
      BY <2>1
    <3>4. g2 = [g1 EXCEPT !.counters = [n \in {"requests", "errors"} |-> 0]]
      BY <3>1, <3>2, <3>3, Zenon
    <3> QED BY <2>1, <3>4
  <2>3. g3 = [counters |-> [n \in {"requests", "errors"} |-> 0], gauges |-> <<>>,
              histograms |-> [n \in {"latency"} |-> h]]
    <3> HIDE DEF g2
    <3> QED BY <2>2 DEF WithHistogram, GetOrCreate, h
  <2>4. NewGateway = WithGauge(g3, "inflight")
    BY DEF NewGateway
  <2> HIDE DEF g3
  <2> QED BY <2>3, <2>4 DEF WithGauge, GetOrCreate
<1>3. NewGateway.histograms["latency"] = h
  BY <1>2
<1> QED BY <1>1, <1>2, <1>3 DEF Registry, h
-----------------------------------------------------------------------------
(***************************************************************************)
(* Why the metrics balance.  Every metric is the size of a set of          *)
(* requests: those inside the middleware, and those that have passed the   *)
(* statement that counts them.  A step moves one request into or out of    *)
(* one of these sets in the same step in which it moves that metric, and   *)
(* no other step moves a request across their borders: a refused or a      *)
(* preflight request never gets inside, and a panicking one leaves without *)
(* having been counted.  The sets are finite, whatever Requests is, since  *)
(* they start empty and grow by one.                                       *)
(***************************************************************************)
Placed(r) ==
    /\ r \in panicked => pc[r] = "done"
    /\ pc[r] \in {"count", "observe", "error", "leave"} => answer[r] # 429
    /\ pc[r] \in {"handle", "forward", "count", "observe", "error", "leave"} =>
           input[r].route # "preflight"
    /\ pc[r] = "error" => answer[r] >= 500

Balanced ==
    /\ reg \in Registry
    /\ IsFiniteSet(Inside) /\ IsFiniteSet(Counted) /\ IsFiniteSet(Errors) /\ IsFiniteSet(Observes)
    /\ MetricsBalance

BalanceInv == ForwardInv /\ (\A r \in Requests : Placed(r)) /\ Balanced

LEMMA PlacedNext ==
    ForwardInv /\ (\A r \in Requests : Placed(r)) /\ [Next]_vars => \A r \in Requests : Placed(r)'
<1> SUFFICES ASSUME ForwardInv, \A r \in Requests : Placed(r), [Next]_vars
             PROVE  \A r \in Requests : Placed(r)'
  OBVIOUS
<1>0. TypeInv /\ \A r \in Requests : Forwarded(r)
  BY DEF ForwardInv
<1> USE <1>0 DEF TypeInv, Stages, Placed, Goto, Answer, requestVars, forwardVars, metricVars, serviceVars,
        scanVars, gatewayVars, Frame
<1>1. ASSUME NEW q \in Requests, Arrive(q) \/ Preflight(q) \/ Limited(q) \/ Enter(q)
      PROVE \A r \in Requests : Placed(r)'
  BY <1>1 DEF Arrive, Preflight, Limited, Enter
<1>2. ASSUME NEW q \in Requests, Reply(q) PROVE \A r \in Requests : Placed(r)'
  BY <1>2, VerdictRange DEF Reply
<1>3. ASSUME NEW q \in Requests, EnqueueJob(q) \/ EnqueueDone(q) \/ EnqueueFails(q) \/ ListJobs(q)
      PROVE \A r \in Requests : Placed(r)'
  BY <1>3 DEF EnqueueJob, EnqueueDone, EnqueueFails, ListJobs
<1>4. ASSUME NEW q \in Requests, WriteCounter(q) \/ WriteGauge(q) \/ WriteHistogram(q)
      PROVE \A r \in Requests : Placed(r)'
  BY <1>4 DEF WriteCounter, WriteGauge, WriteHistogram
<1>5. ASSUME NEW q \in Requests, CountRequest(q) \/ ObserveLatency(q) \/ CountError(q) \/ Leave(q) \/ Panic(q)
      PROVE \A r \in Requests : Placed(r)'
  BY <1>5 DEF CountRequest, ObserveLatency, CountError, Leave, Panic
<1>6. ASSUME NEW q \in Requests, Disconnect(q) \/ Break(q) \/ Refuse(q) \/ ServiceTakes(q) \/ ServiceFinishes(q)
      PROVE \A r \in Requests : Placed(r)'
  BY <1>6 DEF Disconnect, Break, Refuse, ServiceTakes, ServiceFinishes
<1>7. ASSUME ServiceStops PROVE \A r \in Requests : Placed(r)'
  BY <1>7 DEF ServiceStops
<1>8. ASSUME NEW q \in Requests, ScanStep(q) \/ CmdJob(q) PROVE \A r \in Requests : Placed(r)'
  BY <1>8 DEF ScanStep, Submitted, NotSubmitted, PollMisses, PollHits, TimedOut, CmdJob
<1>9. CASE UNCHANGED vars
  BY <1>9 DEF vars
<1> QED
  BY <1>1, <1>2, <1>3, <1>4, <1>5, <1>6, <1>7, <1>8, <1>9
  DEF Next, GatewayStep, Surroundings, Finished

(* A step that moves no request across a border, and no metric. *)
LEMMA BalanceKept ==
    ASSUME Balanced, reg' = reg,
           Inside' = Inside, Counted' = Counted, Errors' = Errors, Observes' = Observes
    PROVE  Balanced'
  BY DEF Balanced, MetricsBalance

(* The step that counts q: one more in the set, one more in the metric. *)
LEMMA BorderIn ==
    ASSUME NEW S, NEW q, IsFiniteSet(S), q \notin S
    PROVE  IsFiniteSet(S \cup {q}) /\ Cardinality(S \cup {q}) = Cardinality(S) + 1
  BY FS_AddElement

LEMMA BorderOut ==
    ASSUME NEW S, NEW q, IsFiniteSet(S), q \in S
    PROVE  IsFiniteSet(S \ {q}) /\ Cardinality(S \ {q}) = Cardinality(S) - 1
  BY FS_RemoveElement

LEMMA BalanceNext == BalanceInv /\ [Next]_vars => Balanced'
<1> SUFFICES ASSUME BalanceInv, [Next]_vars PROVE Balanced'
  OBVIOUS
<1>0. TypeInv /\ (\A r \in Requests : Forwarded(r) /\ Placed(r)) /\ Balanced
  BY DEF BalanceInv, ForwardInv
<1> DEFINE Kept == /\ reg' = reg
                   /\ Inside' = Inside /\ Counted' = Counted /\ Errors' = Errors /\ Observes' = Observes
<1> USE DEF Goto, Answer, requestVars, forwardVars, metricVars, serviceVars,
        scanVars, gatewayVars, Frame
<1>a. Kept => Balanced'
  BY <1>0, BalanceKept
<1>1. ASSUME NEW q \in Requests, Arrive(q) \/ Preflight(q) \/ Limited(q) PROVE Kept
  BY <1>0, <1>1 DEF TypeInv, Stages, Arrive, Preflight, Limited, Inside, Passed, Counted, Errors, Observes
<1>2. ASSUME NEW q \in Requests,
             Reply(q) \/ EnqueueJob(q) \/ EnqueueDone(q) \/ EnqueueFails(q) \/ ListJobs(q) PROVE Kept
  BY <1>0, <1>2 DEF TypeInv, Stages, Reply, EnqueueJob, EnqueueDone, EnqueueFails, ListJobs,
     Inside, Passed, Counted, Errors, Observes
<1>3. ASSUME NEW q \in Requests, WriteCounter(q) \/ WriteGauge(q) \/ WriteHistogram(q) PROVE Kept
  BY <1>0, <1>3 DEF TypeInv, Stages, WriteCounter, WriteGauge, WriteHistogram,
     Inside, Passed, Counted, Errors, Observes
<1>4. ASSUME NEW q \in Requests, Disconnect(q) \/ Break(q) \/ Refuse(q) \/ ServiceTakes(q) \/ ServiceFinishes(q)
      PROVE Kept
  BY <1>4 DEF Disconnect, Break, Refuse, ServiceTakes, ServiceFinishes, Inside, Passed, Counted, Errors, Observes
<1>5. ASSUME ServiceStops PROVE Kept
  BY <1>5 DEF ServiceStops, Inside, Passed, Counted, Errors, Observes
<1>6. ASSUME NEW q \in Requests, ScanStep(q) \/ CmdJob(q) PROVE Kept
  BY <1>6 DEF ScanStep, Submitted, NotSubmitted, PollMisses, PollHits, TimedOut, CmdJob,
     Inside, Passed, Counted, Errors, Observes
<1>7. CASE UNCHANGED vars
  BY <1>7, <1>a DEF vars, Inside, Passed, Counted, Errors, Observes
<1>8. ASSUME NEW q \in Requests, Enter(q) PROVE Balanced'
  <2>1. /\ q \notin Inside /\ Inside' = Inside \cup {q}
        /\ Counted' = Counted /\ Errors' = Errors /\ Observes' = Observes
    BY <1>0, <1>8 DEF TypeInv, Stages, Enter, Inside, Passed, Counted, Errors, Observes
  <2>2. reg' = GaugeAdd(reg, "inflight", 1)
    BY <1>8 DEF Enter
  <2>3. IsFiniteSet(Inside') /\ Cardinality(Inside') = Cardinality(Inside) + 1
    BY <1>0, <2>1, BorderIn DEF Balanced
  <2> QED BY <1>0, <2>1, <2>2, <2>3, MoveGauge DEF Balanced, MetricsBalance
<1>9. ASSUME NEW q \in Requests, CountRequest(q) PROVE Balanced'
  <2>1. /\ q \notin Counted /\ Counted' = Counted \cup {q}
        /\ Inside' = Inside /\ Errors' = Errors /\ Observes' = Observes
    BY <1>0, <1>9 DEF TypeInv, Stages, CountRequest, Inside, Passed, Counted, Errors, Observes
  <2>2. reg' = CounterInc(reg, "requests")
    BY <1>9 DEF CountRequest
  <2>3. IsFiniteSet(Counted') /\ Cardinality(Counted') = Cardinality(Counted) + 1
    BY <1>0, <2>1, BorderIn DEF Balanced
  <2>4. /\ reg' \in Registry /\ reg'.gauges = reg.gauges /\ reg'.histograms = reg.histograms
        /\ reg'.counters = [reg.counters EXCEPT !["requests"] = @ + 1]
    BY <1>0, <2>2, IncCounter DEF Balanced
  <2>5. /\ reg'.counters["requests"] = reg.counters["requests"] + 1
        /\ reg'.counters["errors"] = reg.counters["errors"]
    BY <1>0, <2>4 DEF Balanced, Registry
  <2> QED BY <1>0, <2>1, <2>3, <2>4, <2>5 DEF Balanced, MetricsBalance
<1>10. ASSUME NEW q \in Requests, ObserveLatency(q) PROVE Balanced'
  <2>1. /\ q \notin Observes /\ Observes' = Observes \cup {q}
        /\ Inside' = Inside /\ Counted' = Counted
    BY <1>0, <1>10 DEF TypeInv, Stages, ObserveLatency, Inside, Passed, Counted, Observes
  <2>2. Errors' = Errors
    BY <1>0, <1>10 DEF TypeInv, Stages, ObserveLatency, Passed, Errors
  <2>3. PICK ms \in Nat : reg' = HistogramObserve(reg, "latency", ms)
    BY <1>10, ConfigAssumption DEF ObserveLatency
  <2>4. IsFiniteSet(Observes') /\ Cardinality(Observes') = Cardinality(Observes) + 1
    BY <1>0, <2>1, BorderIn DEF Balanced
  <2> QED BY <1>0, <2>1, <2>2, <2>3, <2>4, ObserveHistogram DEF Balanced, MetricsBalance
<1>11. ASSUME NEW q \in Requests, CountError(q) PROVE Balanced'
  <2>1. /\ q \notin Errors /\ Errors' = Errors \cup {q}
        /\ Inside' = Inside /\ Counted' = Counted /\ Observes' = Observes
    BY <1>0, <1>11 DEF TypeInv, Stages, Placed, CountError, Inside, Passed, Counted, Errors, Observes
  <2>2. reg' = CounterInc(reg, "errors")
    BY <1>11 DEF CountError
  <2>3. IsFiniteSet(Errors') /\ Cardinality(Errors') = Cardinality(Errors) + 1
    BY <1>0, <2>1, BorderIn DEF Balanced
  <2>4. /\ reg' \in Registry /\ reg'.gauges = reg.gauges /\ reg'.histograms = reg.histograms
        /\ reg'.counters = [reg.counters EXCEPT !["errors"] = @ + 1]
    BY <1>0, <2>2, IncCounter DEF Balanced
  <2>5. /\ reg'.counters["errors"] = reg.counters["errors"] + 1
        /\ reg'.counters["requests"] = reg.counters["requests"]
    BY <1>0, <2>4 DEF Balanced, Registry
  <2> QED BY <1>0, <2>1, <2>3, <2>4, <2>5 DEF Balanced, MetricsBalance
<1>12. ASSUME NEW q \in Requests, Leave(q) \/ Panic(q) PROVE Balanced'
  <2>1. /\ q \in Inside /\ Inside' = Inside \ {q}
        /\ Counted' = Counted /\ Errors' = Errors /\ Observes' = Observes
    <3>1. CASE Leave(q)
      BY <1>0, <3>1 DEF TypeInv, Stages, Placed, Leave, Inside, Passed, Counted, Errors, Observes
    <3>2. CASE Panic(q)
      BY <1>0, <3>2 DEF TypeInv, Stages, Placed, Panic, Inside, Passed, Counted, Errors, Observes
    <3> QED BY <1>12, <3>1, <3>2
  <2>2. reg' = GaugeAdd(reg, "inflight", -1)
    BY <1>12 DEF Leave, Panic
  <2>3. IsFiniteSet(Inside') /\ Cardinality(Inside') = Cardinality(Inside) - 1
    BY <1>0, <2>1, BorderOut DEF Balanced
  <2>4. Cardinality(Inside) \in Nat
    BY <1>0, FS_CardinalityType DEF Balanced
  <2>5. /\ reg' \in Registry /\ reg'.counters = reg.counters /\ reg'.histograms = reg.histograms
        /\ reg'.gauges["inflight"] = reg.gauges["inflight"] + (-1)
    <3>1. -1 \in Int
      OBVIOUS
    <3> QED BY <1>0, <2>2, <3>1, MoveGauge, Zenon DEF Balanced
  <2> QED BY <1>0, <2>1, <2>3, <2>4, <2>5 DEF Balanced, MetricsBalance
<1> QED
  BY <1>a, <1>1, <1>2, <1>3, <1>4, <1>5, <1>6, <1>7, <1>8, <1>9, <1>10, <1>11, <1>12
  DEF Next, GatewayStep, Surroundings, Finished, vars

LEMMA BalanceInit == Init => BalanceInv
<1> SUFFICES ASSUME Init PROVE BalanceInv
  OBVIOUS
<1>1. Inside = {} /\ Counted = {} /\ Errors = {} /\ Observes = {}
  BY DEF Init, GatewayInit, Inside, Passed, Counted, Errors, Observes
<1>2. Balanced
  BY <1>1, NewGatewayReg, FS_EmptySet DEF Init, GatewayInit, Balanced, MetricsBalance
<1>3. \A r \in Requests : Placed(r)
  BY DEF Init, GatewayInit, Placed
<1> QED BY <1>2, <1>3, ForwardInit DEF BalanceInv

(* The gauge, both counters and the histogram are exact in every state of   *)
(* every interleaving, for any set of requests, any latencies and panics.   *)
THEOREM MetricsExact == Spec => []MetricsBalance
<1>1. BalanceInv /\ [Next]_vars => BalanceInv'
  BY ForwardNext, PlacedNext, BalanceNext DEF BalanceInv
<1>2. BalanceInv => MetricsBalance
  BY DEF BalanceInv, Balanced
<1> QED BY <1>1, <1>2, BalanceInit, PTL DEF Spec

-----------------------------------------------------------------------------
(***************************************************************************)
(* Why a page of metrics makes sense.  The buckets a page shows are the    *)
(* running sums of the counts.  An observation adds one to one count and   *)
(* one to the total, so the last running sum stays the total.  What a page *)
(* has of the counters was true when it was written, and the total, which  *)
(* it is compared with, only grows.                                        *)
(***************************************************************************)
K == Len(Buckets) + 1
Counts == [1 .. K -> Nat]

LEMMA BucketsPositive == K \in Nat \ {0} /\ Counts \subseteq Seq(Nat) /\ \A c \in Counts : Len(c) = K
<1>1. K \in Nat \ {0}
  BY BucketAssumption DEF K
<1>2. \A c \in Counts : c \in Seq(Nat) /\ Len(c) = K
  BY <1>1 DEF Counts
<1> QED BY <1>1, <1>2

LEMMA RunningSumEach ==
    ASSUME NEW c \in Counts
    PROVE  /\ RunningSum(c) \in [0 .. K -> Nat]
           /\ RunningSum(c)[0] = 0
           /\ \A n \in 1 .. K : RunningSum(c)[n] = RunningSum(c)[n - 1] + c[n]
<1> DEFINE step == [p \in (1 .. K) \X Nat |-> p[2] + c[p[1]]]
           E(f) == [n \in 0 .. K |-> IF n = 0 THEN 0 ELSE f[n - 1] + c[n]]
           f == RunningSum(c)
<1>1. K \in Nat /\ Len(c) = K /\ \A n \in 1 .. K : c[n] \in Nat
  BY BucketsPositive DEF Counts
<1>2. step \in [(1 .. K) \X Nat -> Nat]
  BY <1>1
<1>3. PICK g \in [0 .. K -> Nat] : Iterates(g, K, 0, step)
  <2> HIDE DEF step
  <2> QED BY <1>1, <1>2, IterationExists
<1>4. ASSUME NEW n \in 1 .. K PROVE step[<<n, g[n - 1]>>] = g[n - 1] + c[n]
  <2>1. n - 1 \in 0 .. K
    BY <1>1
  <2>2. g[n - 1] \in Nat
    BY <2>1
  <2>3. <<n, g[n - 1]>> \in (1 .. K) \X Nat
    BY <2>2
  <2> QED BY <2>3
<1>5. \A n \in 0 .. K : g[n] = IF n = 0 THEN 0 ELSE g[n - 1] + c[n]
  <2>1. \A n \in 0 .. K : n = 0 \/ n \in 1 .. K
    BY <1>1
  <2> HIDE DEF step
  <2> QED BY <1>3, <1>4, <2>1 DEF Iterates
<1>6. g = E(g)
  BY <1>3, <1>5
<1>7. f = CHOOSE r : r = E(r)
  BY <1>1 DEF RunningSum
<1> HIDE DEF E
<1>8. f = E(f)
  BY <1>6, <1>7
<1> HIDE DEF f
<1>9. \A n \in 0 .. K : f[n] = IF n = 0 THEN 0 ELSE f[n - 1] + c[n]
  <2>1. \A n \in 0 .. K : E(f)[n] = IF n = 0 THEN 0 ELSE f[n - 1] + c[n]
    BY DEF E
  <2> QED BY <1>8, <2>1, Zenon
<1>10. f[0] = 0 /\ \A n \in 1 .. K : f[n] = f[n - 1] + c[n]
  <2>1. 0 \in 0 .. K /\ \A n \in 1 .. K : n \in 0 .. K /\ n # 0
    BY <1>1
  <2> QED BY <1>9, <2>1
<1>11. f = [n \in 0 .. K |-> f[n]]
  <2>1. E(f) = [n \in 0 .. K |-> E(f)[n]]
    BY DEF E
  <2> QED BY <1>8, <2>1, Zenon
<1> DEFINE G == {n \in 0 .. K : f[n] \in Nat}
<1>12. \A n \in 0 .. K : n \in G
  <2>1. 0 \in G
    BY <1>1, <1>10
  <2>2. ASSUME NEW n \in 1 .. K, n - 1 \in G PROVE n \in G
    <3>1. n \in 0 .. K /\ f[n - 1] \in Nat /\ c[n] \in Nat
      BY <1>1, <2>2
    <3>2. f[n] \in Nat
      BY <1>10, <3>1
    <3> QED BY <3>1, <3>2
  <2> HIDE DEF G
  <2> QED BY <1>1, <2>1, <2>2, Climbs
<1>13. f \in [0 .. K -> Nat]
  BY <1>11, <1>12
<1> QED BY <1>10, <1>13 DEF f

(* One more in a bucket: one more in every sum from there on. *)
LEMMA CountedOnce ==
    ASSUME NEW c \in Counts, NEW j \in 1 .. K
    PROVE  CountIn(c, j) \in Counts /\ RunningSum(CountIn(c, j))[K] = RunningSum(c)[K] + 1
<1> DEFINE d == CountIn(c, j)
           f == RunningSum(c)
           g == RunningSum(d)
           G == {n \in 0 .. K : g[n] = f[n] + (IF j <= n THEN 1 ELSE 0)}
<1>1. K \in Nat \ {0}
  BY BucketsPositive
<1>2. d \in Counts /\ \A n \in 1 .. K : c[n] \in Nat /\ d[n] = c[n] + (IF n = j THEN 1 ELSE 0)
  BY DEF CountIn, Counts
<1>3. /\ f \in [0 .. K -> Nat] /\ f[0] = 0 /\ \A n \in 1 .. K : f[n] = f[n - 1] + c[n]
      /\ g \in [0 .. K -> Nat] /\ g[0] = 0 /\ \A n \in 1 .. K : g[n] = g[n - 1] + d[n]
  <2> HIDE DEF d
  <2> QED BY <1>2, RunningSumEach
<1> HIDE DEF d, f, g
<1>4. \A n \in 0 .. K : n \in G
  <2>1. 0 \in G
    BY <1>1, <1>3
  <2>2. ASSUME NEW n \in 1 .. K, n - 1 \in G PROVE n \in G
    <3>1. n \in 0 .. K /\ n - 1 \in 0 .. K
      BY <1>1
    <3>2. f[n - 1] \in Nat /\ g[n - 1] = f[n - 1] + (IF j <= n - 1 THEN 1 ELSE 0)
      BY <1>3, <2>2, <3>1
    <3>3. g[n] = g[n - 1] + d[n] /\ f[n] = f[n - 1] + c[n] /\ c[n] \in Nat /\ d[n] = c[n] + (IF n = j THEN 1 ELSE 0)
      BY <1>2, <1>3
    <3>4. g[n] = f[n] + (IF j <= n THEN 1 ELSE 0)
      <4>1. CASE j <= n - 1
        BY <1>1, <3>2, <3>3, <4>1
      <4>2. CASE j = n
        BY <1>1, <3>2, <3>3, <4>2
      <4>3. CASE j > n
        BY <1>1, <3>2, <3>3, <4>3
      <4> QED BY <1>1, <4>1, <4>2, <4>3
    <3> QED BY <3>1, <3>4
  <2> HIDE DEF G
  <2> QED BY <1>1, <2>1, <2>2, Climbs
<1>5. K \in G /\ j <= K
  BY <1>1, <1>4
<1>6. g[K] = f[K] + 1
  BY <1>5
<1> QED BY <1>2, <1>6 DEF d, f, g

LEMMA FirstFitIn ==
    ASSUME NEW h \in Histogram, NEW ms \in Nat PROVE FirstFit(h, ms) \in 1 .. K
<1>1. h.buckets = Buckets /\ DOMAIN Buckets = 1 .. Len(Buckets) /\ Len(Buckets) \in Nat
  BY BucketAssumption DEF Histogram
<1>2. Fits(h, ms) \subseteq 1 .. K /\ K \in Fits(h, ms) /\ Fits(h, ms) \subseteq Nat
  BY <1>1 DEF Fits, K
<1>3. \E i \in Fits(h, ms) : \A k \in Fits(h, ms) : i <= k
  BY <1>2, LeastOf
<1> QED BY <1>2, <1>3 DEF FirstFit

(* The last running sum is the total. *)
Summed(h) == h \in Histogram /\ RunningSum(h.counts)[K] = h.total

LEMMA SummedObserve ==
    ASSUME NEW h, Summed(h), NEW ms \in Nat
    PROVE  Summed(Observed(h, ms)) /\ h.total \in Nat /\ Observed(h, ms).total = h.total + 1
<1> DEFINE c == CountIn(h.counts, FirstFit(h, ms))
<1>1. h \in Histogram /\ h.counts \in Counts /\ h.total \in Nat
  BY DEF Summed, Histogram, Counts, K
<1>2. Observed(h, ms) \in Histogram /\ Observed(h, ms).total = h.total + 1
  BY <1>1, ObserveOnce
<1>3. Observed(h, ms).counts = c
  BY <1>1 DEF Observed, Histogram
<1>4. RunningSum(c)[K] = RunningSum(h.counts)[K] + 1
  BY <1>1, FirstFitIn, CountedOnce
<1> QED BY <1>1, <1>2, <1>3, <1>4 DEF Summed

LEMMA SummedNew == Summed(NewHistogram(Buckets))
<1> DEFINE h == NewHistogram(Buckets)
           f == RunningSum(h.counts)
           G == {n \in 0 .. K : f[n] = 0}
<1>1. h \in Histogram /\ h.total = 0 /\ h.counts \in Counts /\ \A n \in 1 .. K : h.counts[n] = 0
  BY BucketAssumption DEF NewHistogram, Histogram, Counts, K
<1> HIDE DEF h
<1>2. /\ K \in Nat \ {0} /\ f[0] = 0
      /\ \A n \in 1 .. K : f[n] = f[n - 1] + h.counts[n]
  BY <1>1, RunningSumEach, BucketsPositive
<1> HIDE DEF f
<1>3. \A n \in 0 .. K : n \in G
  <2>1. 0 \in G
    BY <1>2
  <2>2. ASSUME NEW n \in 1 .. K, n - 1 \in G PROVE n \in G
    <3>1. n \in 0 .. K /\ f[n] = f[n - 1] + h.counts[n] /\ f[n - 1] = 0 /\ h.counts[n] = 0
      BY <1>1, <1>2, <2>2
    <3> QED BY <3>1
  <2>3. K \in Nat
    BY <1>2
  <2> HIDE DEF G
  <2> QED BY <2>1, <2>2, <2>3, Climbs
<1>4. f[K] = 0
  BY <1>2, <1>3
<1> QED BY <1>1, <1>4 DEF Summed, h, f

(* What a page shows of such a histogram. *)
Shows(e) ==
    /\ e.count \in Nat /\ e.bucket[Len(Buckets) + 1] = e.count
    /\ \A i \in 1 .. Len(Buckets) : e.bucket[i] <= e.bucket[i + 1]

LEMMA ExposedShows ==
    ASSUME NEW h, Summed(h) PROVE Shows(Exposed(h)) /\ Exposed(h).count = h.total
<1> DEFINE e == Exposed(h)
           f == RunningSum(h.counts)
<1>1. h.counts \in Counts /\ h.total \in Nat /\ f[K] = h.total
  BY DEF Summed, Histogram, Counts, K
<1>2. /\ f \in [0 .. K -> Nat]
      /\ \A n \in 1 .. K : f[n] = f[n - 1] + h.counts[n]
  BY <1>1, RunningSumEach
<1> HIDE DEF f
<1>3. e.count = h.total /\ \A i \in 1 .. K : e.bucket[i] = f[i]
  BY <1>1 DEF Exposed, Cumulative, f, Counts
<1>4. K \in Nat \ {0} /\ K = Len(Buckets) + 1 /\ Len(Buckets) \in Nat /\ \A i \in 1 .. K : h.counts[i] \in Nat
  BY <1>1, BucketsPositive, BucketAssumption DEF K, Counts
<1> HIDE DEF e
<1>5. e.bucket[Len(Buckets) + 1] = e.count
  BY <1>1, <1>3, <1>4
<1>6. ASSUME NEW i \in 1 .. Len(Buckets) PROVE e.bucket[i] <= e.bucket[i + 1]
  <2>1. i \in 1 .. K /\ i + 1 \in 1 .. K /\ i \in 0 .. K /\ (i + 1) - 1 = i
    BY <1>4
  <2>2. f[i + 1] = f[i] + h.counts[i + 1] /\ f[i] \in Nat /\ h.counts[i + 1] \in Nat
    BY <1>2, <1>4, <2>1
  <2> QED BY <1>3, <2>1, <2>2
<1> QED BY <1>1, <1>3, <1>5, <1>6 DEF Shows, e

Latency == reg.histograms["latency"]

(* What is on a page: the counters come before the gauge and the gauge     *)
(* before the histogram.                                                   *)
PageOK(p) ==
    /\ "errors" \in DOMAIN p => p["errors"] \in Nat /\ p["errors"] <= Latency.total
    /\ "inflight" \in DOMAIN p => "errors" \in DOMAIN p /\ p["inflight"] \in 1 .. Cardinality(Came)
    /\ "latency" \in DOMAIN p =>
           /\ "inflight" \in DOMAIN p
           /\ Shows(p["latency"]) /\ p["latency"].count <= Latency.total /\ p["errors"] <= p["latency"].count

ScrapeInv ==
    /\ Summed(Latency)
    /\ IsFiniteSet(Came)
    /\ DOMAIN page = Requests
    /\ \A r \in Requests : PageOK(page[r])

(* The total only grows, and keeps being the last running sum. *)
LEMMA LatencyNext ==
    ASSUME BalanceInv, Summed(Latency), [Next]_vars
    PROVE  Summed(Latency)' /\ Latency.total \in Nat /\ Latency'.total >= Latency.total
<1>0. reg \in Registry /\ Latency \in Histogram /\ Latency.total \in Nat
  <2>1. reg \in Registry
    BY DEF BalanceInv, Balanced
  <2>2. Latency \in Histogram
    BY DEF Summed
  <2> QED BY <2>1, <2>2 DEF Histogram
<1>a. ASSUME Latency' = Latency PROVE Summed(Latency)' /\ Latency'.total >= Latency.total
  BY <1>0, <1>a DEF Summed
<1> USE DEF requestVars, forwardVars, metricVars, serviceVars, scanVars, gatewayVars
<1>1. ASSUME NEW q \in Requests, ObserveLatency(q) PROVE Summed(Latency)' /\ Latency'.total >= Latency.total
  <2>1. PICK ms \in Latencies : reg' = HistogramObserve(reg, "latency", ms)
    BY <1>1 DEF ObserveLatency
  <2>2. ms \in Nat
    BY ConfigAssumption
  <2>3. Latency' = Observed(Latency, ms)
    BY <1>0, <2>1 DEF HistogramObserve, Latency, Registry
  <2>4. Summed(Observed(Latency, ms)) /\ Observed(Latency, ms).total = Latency.total + 1
    BY <2>2, SummedObserve
  <2>5. Latency'.total >= Latency.total
    BY <1>0, <2>3, <2>4
  <2>6. Summed(Latency)' <=> Summed(Latency')
    BY DEF Summed
  <2> QED BY <2>3, <2>4, <2>5, <2>6
<1>2. ASSUME NEW q \in Requests, CountRequest(q) \/ CountError(q) PROVE Latency' = Latency
  <2>1. PICK n \in {"requests", "errors"} : reg' = CounterInc(reg, n)
    BY <1>2 DEF CountRequest, CountError
  <2> QED BY <1>0, <2>1, IncCounter DEF Latency
<1>3. ASSUME NEW q \in Requests, Enter(q) \/ Leave(q) \/ Panic(q) PROVE Latency' = Latency
  <2>1. PICK d \in Int : reg' = GaugeAdd(reg, "inflight", d)
    BY <1>3 DEF Enter, Leave, Panic
  <2> QED BY <1>0, <2>1, MoveGauge DEF Latency
<1>4. ASSUME NEW q \in Requests,
             Arrive(q) \/ Preflight(q) \/ Limited(q) \/ Reply(q) \/ EnqueueJob(q) \/ EnqueueDone(q)
             \/ EnqueueFails(q) \/ ListJobs(q) \/ WriteCounter(q) \/ WriteGauge(q) \/ WriteHistogram(q)
             \/ Disconnect(q) \/ Break(q) \/ Refuse(q) \/ ServiceTakes(q) \/ ServiceFinishes(q)
      PROVE  reg' = reg
  BY <1>4 DEF Arrive, Preflight, Limited, Reply, EnqueueJob, EnqueueDone, EnqueueFails, ListJobs,
     WriteCounter, WriteGauge, WriteHistogram, Disconnect, Break, Refuse, ServiceTakes, ServiceFinishes
<1>5. ServiceStops => reg' = reg
  BY DEF ServiceStops
<1>6. ASSUME NEW q \in Requests, ScanStep(q) \/ CmdJob(q) PROVE reg' = reg
  BY <1>6 DEF ScanStep, Submitted, NotSubmitted, PollMisses, PollHits, TimedOut, CmdJob
<1>7. UNCHANGED vars => reg' = reg
  BY DEF vars
<1>8. reg' = reg => Latency' = Latency
  BY DEF Latency
<1> QED
  BY <1>0, <1>a, <1>1, <1>2, <1>3, <1>4, <1>5, <1>6, <1>7, <1>8
  DEF Next, GatewayStep, Surroundings, Finished

(* Requests come and stay. *)
LEMMA CameNext ==
    ASSUME TypeInv, IsFiniteSet(Came), [Next]_vars
    PROVE  /\ IsFiniteSet(Came)' /\ Cardinality(Came) \in Nat /\ Cardinality(Came)' \in Nat
           /\ Cardinality(Came) <= Cardinality(Came)'
<1> USE DEF Goto, Came, requestVars, forwardVars, metricVars, serviceVars, scanVars, gatewayVars
<1>0. pc \in [Requests -> Stages]
  BY DEF TypeInv
<1>1. ASSUME NEW q \in Requests, Arrive(q) PROVE Came' = Came \cup {q}
  BY <1>0, <1>1 DEF Arrive
<1>2. ASSUME NEW q \in Requests,
             Preflight(q) \/ Limited(q) \/ Enter(q) \/ Reply(q) \/ EnqueueJob(q) \/ EnqueueDone(q)
             \/ EnqueueFails(q) \/ ListJobs(q) \/ WriteHistogram(q) \/ CountRequest(q) \/ ObserveLatency(q)
             \/ CountError(q) \/ Leave(q) \/ Panic(q)
      PROVE  Came' = Came
  <2>1. PICK s : s # "idle" /\ pc' = [pc EXCEPT ![q] = s] /\ pc[q] # "idle"
    BY <1>2 DEF Preflight, Limited, Enter, Reply, EnqueueJob, EnqueueDone, EnqueueFails, ListJobs,
       WriteHistogram, CountRequest, ObserveLatency, CountError, Leave, Panic
  <2> QED BY <1>0, <2>1
<1>3. ASSUME NEW q \in Requests,
             WriteCounter(q) \/ WriteGauge(q) \/ Disconnect(q) \/ Break(q) \/ Refuse(q) \/ ServiceTakes(q)
             \/ ServiceFinishes(q) \/ ScanStep(q) \/ CmdJob(q)
      PROVE  pc' = pc
  BY <1>3 DEF WriteCounter, WriteGauge, Disconnect, Break, Refuse, ServiceTakes, ServiceFinishes,
     ScanStep, Submitted, NotSubmitted, PollMisses, PollHits, TimedOut, CmdJob
<1>4. ServiceStops \/ UNCHANGED vars => pc' = pc
  BY DEF ServiceStops, vars
<1>5. Came' = Came \/ \E q : Came' = Came \cup {q}
  <2>1. pc' = pc => Came' = Came
    OBVIOUS
  <2> QED BY <1>1, <1>2, <1>3, <1>4, <2>1 DEF Next, GatewayStep, Surroundings, Finished
<1> HIDE DEF Came
<1>6. CASE Came' = Came
  BY <1>6, FS_CardinalityType
<1>7. ASSUME NEW q, Came' = Came \cup {q}
      PROVE  /\ IsFiniteSet(Came') /\ Cardinality(Came) \in Nat /\ Cardinality(Came') \in Nat
             /\ Cardinality(Came) <= Cardinality(Came')
  <2>1. IsFiniteSet(Came') /\ (Cardinality(Came') = Cardinality(Came) \/ Cardinality(Came') = Cardinality(Came) + 1)
    BY <1>7, FS_AddElement
  <2> QED BY <2>1, FS_CardinalityType
<1> QED BY <1>5, <1>6, <1>7

(* How the metrics compare. *)
LEMMA MetricsOrdered ==
    ASSUME BalanceInv, IsFiniteSet(Came)
    PROVE  /\ reg.counters["errors"] \in Nat /\ reg.counters["errors"] <= Latency.total
           /\ Latency.total <= reg.counters["requests"]
           /\ \A q \in Requests : pc[q] = "handle" => reg.gauges["inflight"] \in 1 .. Cardinality(Came)
<1>1. /\ IsFiniteSet(Inside) /\ IsFiniteSet(Counted) /\ IsFiniteSet(Errors) /\ IsFiniteSet(Observes)
      /\ MetricsBalance
  BY DEF BalanceInv, Balanced
<1>2. Errors \subseteq Observes /\ Observes \subseteq Counted /\ Inside \subseteq Came
  BY DEF Errors, Observes, Counted, Inside, Came
<1>3. /\ Cardinality(Errors) \in Nat /\ Cardinality(Errors) <= Cardinality(Observes)
      /\ Cardinality(Observes) <= Cardinality(Counted)
      /\ Cardinality(Inside) \in Nat /\ Cardinality(Came) \in Nat /\ Cardinality(Inside) <= Cardinality(Came)
  BY <1>1, <1>2, FS_CardinalityType, FS_Subset
<1>4. ASSUME NEW q \in Requests, pc[q] = "handle" PROVE Cardinality(Inside) # 0
  <2>1. q \in Inside
    BY <1>4 DEF Inside
  <2> QED BY <1>1, <2>1, FS_EmptySet
<1> QED BY <1>1, <1>3, <1>4 DEF MetricsBalance, Latency

(* What is on a page stays true, since what it is compared with grows. *)
LEMMA PageKept ==
    ASSUME NEW p, PageOK(p), Latency.total \in Nat, Latency'.total \in Nat, Latency'.total >= Latency.total,
           Cardinality(Came) \in Nat, Cardinality(Came)' \in Nat, Cardinality(Came) <= Cardinality(Came)'
    PROVE  PageOK(p)'
<1>1. "errors" \in DOMAIN p => p["errors"] \in Nat /\ p["errors"] <= Latency'.total
  BY DEF PageOK
<1>2. "inflight" \in DOMAIN p => "errors" \in DOMAIN p /\ p["inflight"] \in 1 .. Cardinality(Came)'
  BY DEF PageOK
<1>3. "latency" \in DOMAIN p =>
          /\ "inflight" \in DOMAIN p
          /\ Shows(p["latency"]) /\ p["latency"].count <= Latency'.total /\ p["errors"] <= p["latency"].count
  BY DEF PageOK, Shows
<1> QED BY <1>1, <1>2, <1>3 DEF PageOK, Shows

(* A line joins a page. *)
With(p, name, value) == [n \in DOMAIN p \cup {name} |-> IF n = name THEN value ELSE p[n]]

LEMMA PageGrows ==
    ASSUME BalanceInv, ScrapeInv, NEW q \in Requests, WriteCounter(q) \/ WriteGauge(q) \/ WriteHistogram(q)
    PROVE  \E p : page' = [page EXCEPT ![q] = p] /\ PageOK(p)
<1> DEFINE p == page[q]
<1>0. PageOK(p) /\ Summed(Latency) /\ pc[q] = "handle"
  BY DEF ScrapeInv, WriteCounter, WriteGauge, WriteHistogram
<1>1. /\ DOMAIN reg.counters = {"requests", "errors"} /\ DOMAIN reg.gauges = {"inflight"}
  BY DEF BalanceInv, Balanced, Registry
<1>2. /\ reg.counters["errors"] \in Nat /\ reg.counters["errors"] <= Latency.total
      /\ reg.gauges["inflight"] \in 1 .. Cardinality(Came)
  BY <1>0, MetricsOrdered DEF ScrapeInv
<1>3. CASE WriteCounter(q)
  <2>1. PICK name \in {"requests", "errors"} :
            name \notin DOMAIN p /\ page' = [page EXCEPT ![q] = With(p, name, reg.counters[name])]
    BY <1>1, <1>3 DEF WriteCounter, Written, With
  <2> DEFINE w == With(p, name, reg.counters[name])
  <2>2. /\ DOMAIN w = DOMAIN p \cup {name} /\ w[name] = reg.counters[name]
        /\ \A n \in DOMAIN p : w[n] = p[n]
    BY <2>1 DEF With
  <2> HIDE DEF w, p
  <2>3. PageOK(w)
    <3>1. "errors" \in DOMAIN w => w["errors"] \in Nat /\ w["errors"] <= Latency.total
      BY <1>0, <1>2, <2>1, <2>2 DEF PageOK
    <3>2. "inflight" \in DOMAIN w => "errors" \in DOMAIN w /\ w["inflight"] \in 1 .. Cardinality(Came)
      BY <1>0, <2>1, <2>2 DEF PageOK
    <3>3. "latency" \in DOMAIN w => /\ "latency" \in DOMAIN p /\ "inflight" \in DOMAIN w
                                    /\ w["latency"] = p["latency"] /\ w["errors"] = p["errors"]
      BY <1>0, <2>1, <2>2 DEF PageOK
    <3> QED BY <1>0, <3>1, <3>2, <3>3 DEF PageOK
  <2> QED BY <2>1, <2>3 DEF w
<1>4. CASE WriteGauge(q)
  <2>1. page' = [page EXCEPT ![q] = With(p, "inflight", reg.gauges["inflight"])] /\ "errors" \in DOMAIN p
    BY <1>1, <1>4 DEF WriteGauge, Written, With
  <2> DEFINE w == With(p, "inflight", reg.gauges["inflight"])
  <2>2. /\ DOMAIN w = DOMAIN p \cup {"inflight"} /\ w["inflight"] = reg.gauges["inflight"]
        /\ \A n \in DOMAIN p : n # "inflight" => w[n] = p[n]
    BY <2>1 DEF With
  <2> HIDE DEF w, p
  <2>3. PageOK(w)
    <3>1. "errors" \in DOMAIN w => w["errors"] \in Nat /\ w["errors"] <= Latency.total
      BY <1>0, <2>1, <2>2 DEF PageOK
    <3>2. "inflight" \in DOMAIN w => "errors" \in DOMAIN w /\ w["inflight"] \in 1 .. Cardinality(Came)
      BY <1>2, <2>1, <2>2
    <3>3. "latency" \in DOMAIN w => /\ "latency" \in DOMAIN p /\ "inflight" \in DOMAIN w
                                    /\ w["latency"] = p["latency"] /\ w["errors"] = p["errors"]
      BY <2>1, <2>2
    <3> QED BY <1>0, <3>1, <3>2, <3>3 DEF PageOK
  <2> QED BY <2>1, <2>3 DEF w
<1>5. CASE WriteHistogram(q)
  <2>1. page' = [page EXCEPT ![q] = With(p, "latency", Exposed(Latency))] /\ "inflight" \in DOMAIN p
    BY <1>1, <1>5 DEF WriteHistogram, Written, With, Latency
  <2> DEFINE w == With(p, "latency", Exposed(Latency))
  <2>2. /\ DOMAIN w = DOMAIN p \cup {"latency"} /\ w["latency"] = Exposed(Latency)
        /\ \A n \in DOMAIN p : n # "latency" => w[n] = p[n]
    BY <2>1 DEF With
  <2>3. Shows(Exposed(Latency)) /\ Exposed(Latency).count = Latency.total /\ Latency.total \in Nat
    BY <1>0, ExposedShows DEF Shows
  <2> HIDE DEF w, p
  <2>4. PageOK(w)
    <3>1. "errors" \in DOMAIN p /\ p["errors"] \in Nat /\ p["errors"] <= Latency.total
      BY <1>0, <2>1 DEF PageOK
    <3>2. "errors" \in DOMAIN w => w["errors"] \in Nat /\ w["errors"] <= Latency.total
      BY <2>2, <3>1
    <3>3. "inflight" \in DOMAIN w => "errors" \in DOMAIN w /\ w["inflight"] \in 1 .. Cardinality(Came)
      BY <1>0, <2>1, <2>2, <3>1 DEF PageOK
    <3>4. /\ "inflight" \in DOMAIN w
          /\ Shows(w["latency"]) /\ w["latency"].count <= Latency.total /\ w["errors"] <= w["latency"].count
      BY <2>1, <2>2, <2>3, <3>1
    <3> QED BY <3>2, <3>3, <3>4 DEF PageOK
  <2> QED BY <2>1, <2>4 DEF w
<1> QED BY <1>3, <1>4, <1>5

LEMMA ScrapeNext == BalanceInv /\ ScrapeInv /\ [Next]_vars => ScrapeInv'
<1> SUFFICES ASSUME BalanceInv, ScrapeInv, [Next]_vars PROVE ScrapeInv'
  OBVIOUS
<1>1. Summed(Latency)' /\ Latency.total \in Nat /\ Latency'.total >= Latency.total
  BY LatencyNext DEF ScrapeInv
<1>2. Latency'.total \in Nat
  BY <1>1 DEF Summed, Histogram
<1>3. /\ IsFiniteSet(Came)' /\ Cardinality(Came) \in Nat /\ Cardinality(Came)' \in Nat
      /\ Cardinality(Came) <= Cardinality(Came)'
  BY CameNext DEF BalanceInv, ForwardInv, ScrapeInv
<1>4. \A p : PageOK(p) => PageOK(p)'
  BY <1>1, <1>2, <1>3, PageKept
<1> DEFINE Pages == DOMAIN page' = Requests /\ \A r \in Requests : PageOK(page'[r])
<1>5. ASSUME NEW q \in Requests, WriteCounter(q) \/ WriteGauge(q) \/ WriteHistogram(q) PROVE Pages
  <2>1. PICK p : page' = [page EXCEPT ![q] = p] /\ PageOK(p)
    BY <1>5, PageGrows
  <2> QED BY <2>1 DEF ScrapeInv
<1>6. page' = page => Pages
  BY DEF ScrapeInv
<1> USE DEF requestVars, forwardVars, metricVars, serviceVars, scanVars, gatewayVars
<1>7. ASSUME NEW q \in Requests,
             Arrive(q) \/ Preflight(q) \/ Limited(q) \/ Enter(q) \/ Reply(q) \/ EnqueueJob(q) \/ EnqueueDone(q)
             \/ EnqueueFails(q) \/ ListJobs(q) \/ CountRequest(q) \/ ObserveLatency(q) \/ CountError(q)
             \/ Leave(q) \/ Panic(q) \/ Disconnect(q) \/ Break(q) \/ Refuse(q) \/ ServiceTakes(q)
             \/ ServiceFinishes(q)
      PROVE  page' = page
  BY <1>7 DEF Arrive, Preflight, Limited, Enter, Reply, EnqueueJob, EnqueueDone, EnqueueFails, ListJobs,
     CountRequest, ObserveLatency, CountError, Leave, Panic, Disconnect, Break, Refuse, ServiceTakes,
     ServiceFinishes
<1>8. ASSUME NEW q \in Requests, ScanStep(q) \/ CmdJob(q) PROVE page' = page
  BY <1>8 DEF ScanStep, Submitted, NotSubmitted, PollMisses, PollHits, TimedOut, CmdJob
<1>9. ServiceStops \/ UNCHANGED vars => page' = page
  BY DEF ServiceStops, vars
<1>10. Pages
  BY <1>5, <1>6, <1>7, <1>8, <1>9 DEF Next, GatewayStep, Surroundings, Finished
<1>11. \A r \in Requests : PageOK(page[r])'
  <2>1. \A r \in Requests : PageOK(page'[r]) => PageOK(page[r])'
    <3>1. ASSUME NEW r \in Requests, PageOK(page'[r]) PROVE PageOK(page[r])'
      <4>1. PICK p : p = page'[r]
        OBVIOUS
      <4>2. PageOK(p)'
        BY <1>4, <3>1, <4>1
      <4> QED BY <4>1, <4>2 DEF PageOK
    <3> QED BY <3>1
  <2> QED BY <1>10, <2>1
<1> QED BY <1>1, <1>3, <1>10, <1>11 DEF ScrapeInv

LEMMA ScrapeInit == Init => ScrapeInv
<1> SUFFICES ASSUME Init PROVE ScrapeInv
  OBVIOUS
<1>1. Came = {}
  BY DEF Init, GatewayInit, Came
<1>2. Latency = NewHistogram(Buckets)
  BY NewGatewayReg DEF Init, GatewayInit, Latency
<1>3. DOMAIN page = Requests /\ \A r \in Requests : page[r] = <<>>
  BY DEF Init, GatewayInit
<1>4. \A r \in Requests : PageOK(page[r])
  BY <1>3 DEF PageOK
<1> QED BY <1>1, <1>2, <1>3, <1>4, SummedNew, FS_EmptySet DEF ScrapeInv

(* A page of metrics that is written while any number of requests move     *)
(* them makes sense, for any buckets and latencies.                        *)
THEOREM PagesAreConsistent == Spec => []ScrapeConsistent
<1>1. BalanceInv /\ ScrapeInv /\ [Next]_vars => BalanceInv' /\ ScrapeInv'
  BY ForwardNext, PlacedNext, BalanceNext, ScrapeNext DEF BalanceInv
<1>2. BalanceInv /\ ScrapeInv => ScrapeConsistent
  <2> SUFFICES ASSUME BalanceInv, ScrapeInv, NEW r \in Requests, "latency" \in DOMAIN page[r]
               PROVE  /\ page[r].latency.bucket[Len(Buckets) + 1] = page[r].latency.count
                      /\ \A i \in 1 .. Len(Buckets) : page[r].latency.bucket[i] <= page[r].latency.bucket[i + 1]
                      /\ page[r].inflight \in 1 .. Cardinality(Came)
                      /\ page[r].latency.count <= reg.counters["requests"]
                      /\ page[r].errors <= page[r].latency.count
    BY DEF ScrapeConsistent
  <2>1. PageOK(page[r]) /\ Summed(Latency)
    BY DEF ScrapeInv
  <2>2. Latency.total <= reg.counters["requests"] /\ reg.counters["requests"] \in Nat /\ Latency.total \in Nat
    <3>1. reg.counters["requests"] \in Nat
      BY DEF BalanceInv, Balanced, Registry
    <3>2. Latency.total \in Nat
      BY <2>1 DEF Summed, Histogram
    <3> QED BY <3>1, <3>2, MetricsOrdered DEF ScrapeInv
  <2>3. /\ "inflight" \in DOMAIN page[r] /\ Shows(page[r].latency)
        /\ page[r].latency.count <= Latency.total /\ page[r].errors <= page[r].latency.count
        /\ page[r].inflight \in 1 .. Cardinality(Came)
    BY <2>1 DEF PageOK
  <2> QED BY <2>2, <2>3 DEF Shows
<1> QED BY <1>1, <1>2, BalanceInit, ScrapeInit, PTL DEF Spec
=============================================================================
