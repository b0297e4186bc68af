------------------------------- MODULE Gateway -------------------------------
(***************************************************************************)
(* The api-gateway's requests (server/server.go, webhook.go, jobs.go) as   *)
(* they pass the chain of middleware (Recovery, Logger, CORS, the rate     *)
(* limiter, Metrics) to a handler and back, several at a time, with the    *)
(* calls to the analysis service that jobs are forwarded by.               *)
(*                                                                         *)
(* A request stands for the job its handler makes, if it makes one: newID  *)
(* draws a fresh ID.  The service is its abstract specification; that the  *)
(* real one implements it is shown with JobPipeline.                       *)
(*                                                                         *)
(* Around the gateway, clients come and go, connections break, whatever    *)
(* listens at the service's address may refuse, and the service stops.     *)
(***************************************************************************)
EXTENDS Metrics, FiniteSets

CONSTANTS Requests,  \* the requests that may arrive
          Inputs,    \* [Requests -> the requests that may arrive as it]
          Secret,    \* is GITHUB_WEBHOOK_SECRET set
          Outcomes,  \* what a finished job's result can be
          Buckets,   \* bounds of the latency histogram, ascending
          Latencies, \* the milliseconds a request may take
          None       \* no input, no job, no result

(* What of a request its handlers look at.  litd says whether, and how, the *)
(* command line client sent it: litd scan checks its flags first.           *)
Submissions ==
    [route : {"submit"}, decodable : BOOLEAN, repoURL : BOOLEAN, commitSHA : BOOLEAN,
     litd : {"no", "scan", "wait"}]
Webhooks ==
    [route : {"webhook"}, readable : BOOLEAN, signed : BOOLEAN, event : {"pull_request", "ping", "push"},
     decodable : BOOLEAN, action : {"opened", "synchronize", "reopened", "closed"},
     fullName : {<<"owner", "name">>, <<"name">>}, litd : {"no"}]
Others ==
    [route : {"list", "metrics", "healthz", "stream", "unknown", "preflight"}, litd : {"no"}]

ASSUME InputAssumption ==
    \A r \in Requests :
        /\ Inputs[r] \subseteq Submissions \cup Webhooks \cup Others
        /\ \A i \in Inputs[r] : i.litd # "no" => i.decodable /\ i.repoURL /\ i.commitSHA
ASSUME BucketAssumption == Buckets \in Seq(Nat)
ASSUME ConfigAssumption == Secret \in BOOLEAN /\ Latencies \subseteq Nat /\ None \notin Outcomes

VARIABLES pc,       \* [Requests -> where the request is]
          input,    \* [Requests -> the request, once it has arrived]
          answer,   \* [Requests -> the status the client is or will be sent, 0 for none]
          gone,     \* the requests whose client has disconnected, their context is done
          job,      \* [Requests -> the job its handler made]
          link,     \* [Requests -> how far the POST of that job to the service is]
          reg,      \* the registry of the gateway
          page,     \* [Requests -> the metrics a scrape has written so far]
          panicked, \* the requests Recovery has logged a panic of
          status,   \* the analysis service: see JobService
          outcome,
          service

Service == INSTANCE JobService WITH Jobs <- Requests

requestVars == <<pc, input, answer, gone>>
forwardVars == <<job, link>>
metricVars  == <<reg, page, panicked>>
serviceVars == <<status, outcome, service>>
gatewayVars == <<requestVars, forwardVars, metricVars, serviceVars>>

Goto(r, next) == pc' = [pc EXCEPT ![r] = next]
Answer(r, code) == answer' = [answer EXCEPT ![r] = code]

(* New with the metrics that middleware.Metrics asks the registry for. *)
NewGateway ==
    WithGauge(WithHistogram(WithCounter(WithCounter(NewRegistry,
        "requests"), "errors"), "latency", Buckets), "inflight")

GatewayInit ==
    /\ pc = [r \in Requests |-> "idle"]
    /\ input = [r \in Requests |-> None]
    /\ answer = [r \in Requests |-> 0]
    /\ gone = {}
    /\ job = [r \in Requests |-> None]
    /\ link = [r \in Requests |-> "none"]
    /\ reg = NewGateway
    /\ page = [r \in Requests |-> <<>>]
    /\ panicked = {}
    /\ Service!Init

(***************************************************************************)
(* The chain of middleware, on the way in                                  *)
(***************************************************************************)
Arrive(r) ==
    /\ pc[r] = "idle"
    /\ \E i \in Inputs[r] : input' = [input EXCEPT ![r] = i]
    /\ Goto(r, "arrived")
    /\ UNCHANGED <<answer, gone, forwardVars, metricVars, serviceVars>>

(* CORS answers OPTIONS itself. *)
Preflight(r) ==
    /\ pc[r] = "arrived"
    /\ input[r].route = "preflight"
    /\ Answer(r, 204)
    /\ Goto(r, "done")
    /\ UNCHANGED <<input, gone, forwardVars, metricVars, serviceVars>>

(* The rate limiter refuses; when it does is the module RateLimiter. *)
Limited(r) ==
    /\ pc[r] = "arrived"
    /\ input[r].route # "preflight"
    /\ Answer(r, 429)
    /\ Goto(r, "done")
    /\ UNCHANGED <<input, gone, forwardVars, metricVars, serviceVars>>

Enter(r) ==
    /\ pc[r] = "arrived"
    /\ input[r].route # "preflight"
    /\ reg' = GaugeAdd(reg, "inflight", 1)
    /\ Goto(r, "handle")
    /\ UNCHANGED <<input, answer, gone, forwardVars, page, panicked, serviceVars>>

(***************************************************************************)
(* The handlers                                                            *)
(***************************************************************************)

(* GitHubWebhookHandler and handleGitHubPR up to the job: the status they   *)
(* answer with, or 0 when they make a job.                                  *)
GitHubWebhook(i) ==
    IF ~i.readable THEN 400
    ELSE IF Secret /\ ~i.signed THEN 401
    ELSE IF i.event = "ping" THEN 200
    ELSE IF i.event # "pull_request" THEN 204
    ELSE IF ~i.decodable THEN 400
    ELSE IF i.action \notin {"opened", "synchronize", "reopened"} THEN 204
    ELSE 0

(* SubmitJobHandler up to the job, likewise. *)
SubmitJob(i) == IF i.decodable /\ i.repoURL /\ i.commitSHA THEN 0 ELSE 400

(* The same of the other routes: HealthHandler, a path the mux has no       *)
(* handler for, and the two streaming handlers.  The responseWriter that    *)
(* Logger and Metrics put around the server's has neither a Flush nor a     *)
(* Hijack method, so ServeSSE and the WebSocket upgrade give up.            *)
Verdict(i) ==
    CASE i.route = "webhook" -> GitHubWebhook(i)
      [] i.route = "submit" -> SubmitJob(i)
      [] i.route = "healthz" -> 200
      [] i.route = "unknown" -> 404
      [] i.route = "stream" -> 500
      [] OTHER -> 0

(* The handler answers without asking anyone. *)
Reply(r) ==
    /\ pc[r] = "handle"
    /\ Verdict(input[r]) # 0
    /\ Answer(r, Verdict(input[r]))
    /\ Goto(r, "count")
    /\ UNCHANGED <<input, gone, forwardVars, metricVars, serviceVars>>

(* splitOwnerRepo: what is before the first slash and what is behind it. *)
SplitOwnerRepo(full) ==
    IF Len(full) > 1 THEN [owner |-> full[1], name |-> full[2]] ELSE [owner |-> full[1], name |-> ""]

(* The fields of models.Job that depend on who asked. *)
NewJob(i) ==
    IF i.route = "webhook" THEN [source |-> "github", repo |-> SplitOwnerRepo(i.fullName)]
                           ELSE [source |-> "manual", repo |-> [owner |-> "", name |-> ""]]

(* The job is made and enqueueJob sends it. *)
EnqueueJob(r) ==
    /\ pc[r] = "handle"
    /\ input[r].route \in {"submit", "webhook"}
    /\ Verdict(input[r]) = 0
    /\ job' = [job EXCEPT ![r] = NewJob(input[r])]
    /\ link' = [link EXCEPT ![r] = "sent"]
    /\ Goto(r, "forward")
    /\ UNCHANGED <<input, answer, gone, metricVars, serviceVars>>

(* Mutant: what the service answers is not looked at. *)
EnqueueDoneAnyStatus(r) ==
    /\ pc[r] = "forward"
    /\ link[r] \in {"taken", "refused"}
    /\ Answer(r, 202)
    /\ link' = [link EXCEPT ![r] = "closed"]
    /\ Goto(r, "count")
    /\ UNCHANGED <<input, gone, job, metricVars, serviceVars>>

(* The service's 202 is there. *)
EnqueueDone(r) ==
    /\ pc[r] = "forward"
    /\ link[r] = "taken"
    /\ Answer(r, 202)
    /\ link' = [link EXCEPT ![r] = "closed"]
    /\ Goto(r, "count")
    /\ UNCHANGED <<input, gone, job, metricVars, serviceVars>>

(* Mutant: a job that was not taken is sent again. *)
EnqueueRetries(r) ==
    /\ pc[r] = "forward"
    /\ link[r] \in {"refused", "broken"} \/ service = "down" \/ r \in gone
    /\ link' = [link EXCEPT ![r] = "sent"]
    /\ UNCHANGED <<pc, input, answer, gone, job, metricVars, serviceVars>>

(* enqueueJob returns an error: another status, a broken connection or none *)
(* at all, or the client's disconnect cancelled the request.  What was sent *)
(* may then be on its way still, and the service take the job all the same. *)
EnqueueFails(r) ==
    /\ pc[r] = "forward"
    /\ link[r] \in {"refused", "broken"} \/ service = "down" \/ r \in gone
    /\ Answer(r, 500)
    /\ link' = [link EXCEPT ![r] = IF @ = "sent" THEN @ ELSE "closed"]
    /\ Goto(r, "count")
    /\ UNCHANGED <<input, gone, job, metricVars, serviceVars>>

(* ListJobsHandler passes on the status of the service's answer, not its    *)
(* body, and has a context of its own.                                      *)
ListJobs(r) ==
    /\ pc[r] = "handle"
    /\ input[r].route = "list"
    /\ \/ service = "up" /\ Answer(r, 200)
       \/ Answer(r, 502)
    /\ Goto(r, "count")
    /\ UNCHANGED <<input, gone, forwardVars, metricVars, serviceVars>>

(***************************************************************************)
(* GET /metrics: Registry.Handler, reading while other requests go on      *)
(***************************************************************************)
Written(r, name, value) ==
    page' = [page EXCEPT ![r] = [n \in DOMAIN @ \cup {name} |-> IF n = name THEN value ELSE @[n]]]

(* The counters come in the order of a Go map. *)
WriteCounter(r) ==
    /\ pc[r] = "handle"
    /\ input[r].route = "metrics"
    /\ \E name \in DOMAIN reg.counters \ DOMAIN page[r] : Written(r, name, reg.counters[name])
    /\ UNCHANGED <<requestVars, forwardVars, reg, panicked, serviceVars>>

WriteGauge(r) ==
    /\ pc[r] = "handle"
    /\ input[r].route = "metrics"
    /\ DOMAIN reg.counters \subseteq DOMAIN page[r]
    /\ \E name \in DOMAIN reg.gauges \ DOMAIN page[r] : Written(r, name, reg.gauges[name])
    /\ UNCHANGED <<requestVars, forwardVars, reg, panicked, serviceVars>>

(* A snapshot is taken under the histogram's lock; this one is the last. *)
WriteHistogram(r) ==
    /\ pc[r] = "handle"
    /\ input[r].route = "metrics"
    /\ DOMAIN reg.gauges \subseteq DOMAIN page[r]
    /\ Written(r, "latency", Exposed(reg.histograms["latency"]))
    /\ Answer(r, 200)
    /\ Goto(r, "count")
    /\ UNCHANGED <<input, gone, forwardVars, reg, panicked, serviceVars>>

(***************************************************************************)
(* The chain of middleware, on the way out                                 *)
(***************************************************************************)
CountRequest(r) ==
    /\ pc[r] = "count"
    /\ reg' = CounterInc(reg, "requests")
    /\ Goto(r, "observe")
    /\ UNCHANGED <<input, answer, gone, forwardVars, page, panicked, serviceVars>>

ObserveLatency(r) ==
    /\ pc[r] = "observe"
    /\ \E ms \in Latencies : reg' = HistogramObserve(reg, "latency", ms)
    /\ Goto(r, IF answer[r] >= 500 THEN "error" ELSE "leave")
    /\ UNCHANGED <<input, answer, gone, forwardVars, page, panicked, serviceVars>>

CountError(r) ==
    /\ pc[r] = "error"
    /\ reg' = CounterInc(reg, "errors")
    /\ Goto(r, "leave")
    /\ UNCHANGED <<input, answer, gone, forwardVars, page, panicked, serviceVars>>

(* The deferred Dec; the response goes out when the chain has returned. *)
Leave(r) ==
    /\ pc[r] = "leave"
    /\ reg' = GaugeAdd(reg, "inflight", -1)
    /\ Goto(r, "done")
    /\ UNCHANGED <<input, answer, gone, forwardVars, page, panicked, serviceVars>>

(* Mutant: Dec is the last statement and not deferred. *)
PanicSkipsDec(r) ==
    /\ pc[r] = "handle"
    /\ panicked' = panicked \cup {r}
    /\ Answer(r, 500)
    /\ Goto(r, "done")
    /\ UNCHANGED <<input, gone, forwardVars, reg, page, serviceVars>>

(* The fault that Recovery is for: a handler panics.  Metrics' deferred Dec *)
(* runs, the rest of it and of Logger does not, and Recovery answers.       *)
Panic(r) ==
    /\ pc[r] = "handle"
    /\ panicked' = panicked \cup {r}
    /\ reg' = GaugeAdd(reg, "inflight", -1)
    /\ Answer(r, 500)
    /\ Goto(r, "done")
    /\ UNCHANGED <<input, gone, forwardVars, page, serviceVars>>

(***************************************************************************)
(* The surroundings                                                        *)
(***************************************************************************)

(* The client hangs up, and net/http cancels the request's context, which   *)
(* the other handlers do not look at.                                       *)
Disconnect(r) ==
    /\ pc[r] \notin {"idle", "done"}
    /\ r \notin gone
    /\ input[r].route \in {"submit", "webhook"}
    /\ gone' = gone \cup {r}
    /\ UNCHANGED <<pc, input, answer, forwardVars, metricVars, serviceVars>>

(* The connection to the service breaks, before or after it took the job. *)
Break(r) ==
    /\ pc[r] = "forward"
    /\ link[r] \in {"sent", "taken"}
    /\ link' = [link EXCEPT ![r] = "broken"]
    /\ UNCHANGED <<requestVars, job, metricVars, serviceVars>>

(* Whatever listens at AnalysisServiceURL answers with 300 or more. *)
Refuse(r) ==
    /\ pc[r] = "forward"
    /\ link[r] = "sent"
    /\ link' = [link EXCEPT ![r] = "refused"]
    /\ UNCHANGED <<requestVars, job, metricVars, serviceVars>>

(* The steps of the service.  A job that was sent is taken even if the      *)
(* gateway does not wait for the answer any more.                           *)
ServiceTakes(r) ==
    /\ link[r] = "sent"
    /\ Service!Take(r)
    /\ link' = [link EXCEPT ![r] = IF pc[r] = "forward" THEN "taken" ELSE "closed"]
    /\ UNCHANGED <<requestVars, job, metricVars>>

ServiceFinishes(r) ==
    /\ Service!Finish(r)
    /\ UNCHANGED <<requestVars, forwardVars, metricVars>>

ServiceStops ==
    /\ Service!Stop
    /\ UNCHANGED <<requestVars, forwardVars, metricVars>>

(* What a goroutine of the gateway does for a request, all of it. *)
GatewayStep(r) ==
    \/ Preflight(r) \/ Limited(r) \/ Enter(r)
    \/ Reply(r) \/ EnqueueJob(r) \/ EnqueueDone(r) \/ EnqueueFails(r) \/ ListJobs(r)
    \/ WriteCounter(r) \/ WriteGauge(r) \/ WriteHistogram(r)
    \/ CountRequest(r) \/ ObserveLatency(r) \/ CountError(r) \/ Leave(r)
    \/ Panic(r)

Surroundings ==
    \/ \E r \in Requests :
          Arrive(r) \/ Disconnect(r) \/ Break(r) \/ Refuse(r) \/ ServiceTakes(r) \/ ServiceFinishes(r)
    \/ ServiceStops

-----------------------------------------------------------------------------
(* The requests that ask for an analysis and may: complete, or signed by    *)
(* GitHub and about a pull request that changed.                            *)
Asking ==
    {r \in Requests : input[r] \in
        {i \in Submissions : i.decodable /\ i.repoURL /\ i.commitSHA} \cup
        {i \in Webhooks : /\ i.readable /\ i.decodable /\ (i.signed \/ ~Secret)
                          /\ i.event = "pull_request" /\ i.action # "closed"}}

(* Whatever breaks and whoever hangs up between client, gateway and         *)
(* service: a request answered 202 has its job in the service, and a job in *)
(* the service is that of a request that may ask for one, of its source,    *)
(* and was not told that it was refused (webhook.go:33-116, jobs.go:26-59). *)
AnswersMatchJobs ==
    \A r \in Requests :
        /\ answer[r] = 202 => status[r] # "new"
        /\ status[r] # "new" => /\ r \in Asking /\ answer[r] \in {0, 202, 500}
                                /\ (job[r].source = "github") = (input[r].route = "webhook")

(* The requests that are inside Metrics, and those that it has counted, put *)
(* in the histogram and, of those, counted as errors.                       *)
Inside == {r \in Requests : pc[r] \notin {"idle", "arrived", "done"}}
Passed == {r \in Requests : /\ pc[r] = "done" /\ r \notin panicked
                            /\ answer[r] # 429 /\ input[r].route # "preflight"}
Counted  == Passed \cup {r \in Requests : pc[r] \in {"observe", "error", "leave"}}
Observes == Passed \cup {r \in Requests : pc[r] \in {"error", "leave"}}
Errors   == {r \in Passed \cup {q \in Requests : pc[q] = "leave"} : answer[r] >= 500}

(* Over all interleavings, disconnects and panics the gauge of requests in  *)
(* flight does not drift, and the counters and the histogram miss no        *)
(* request that was handled and count none twice                            *)
(* (middleware/metrics.go:19-32, metrics.go:17-59).                         *)
MetricsBalance ==
    /\ reg.gauges["inflight"] = Cardinality(Inside)
    /\ reg.counters["requests"] = Cardinality(Counted)
    /\ reg.counters["errors"] = Cardinality(Errors)
    /\ reg.histograms["latency"].total = Cardinality(Observes)

Came == {r \in Requests : pc[r] # "idle"}

(* A page is written while the metrics move and still makes sense: the      *)
(* +Inf bucket is the count, the scrape sees itself in flight and no more   *)
(* requests than have come, and a request that is in the count by the time  *)
(* the last line is written is missing from the counter above it only if it *)
(* was counted in between (metrics.go:123-175).                             *)
ScrapeConsistent ==
    \A r \in Requests : "latency" \in DOMAIN page[r] =>
        LET shown == page[r].latency
        IN  /\ shown.bucket[Len(Buckets) + 1] = shown.count
            /\ \A i \in 1 .. Len(Buckets) : shown.bucket[i] <= shown.bucket[i + 1]
            /\ page[r].inflight \in 1 .. Cardinality(Came)
            /\ shown.count <= reg.counters["requests"]
            /\ page[r].errors <= shown.count

(* Every request that arrives is answered, unless the fault is outside. *)
EveryRequestEnds == \A r \in Requests : pc[r] = "arrived" ~> pc[r] = "done"
=============================================================================
