---------------------------- MODULE JobPipeline ----------------------------
(***************************************************************************)
(* The analysis service (services/analysis-service/main.go with its worker *)
(* pool, analyzer/workers.go, and its queue, pkg/queue/queue.go) as the    *)
(* goroutines that share its channels:                                     *)
(*                                                                         *)
(*   handlers  one per POST /api/v1/jobs; put the job on the queue         *)
(*   consumer  moves jobs from the queue to the pool's channel             *)
(*   workers   the pool; run the analysis, answer on the job's resultCh    *)
(*   collectors one per dispatched job; count it and store its result      *)
(*   main      waits for a signal, then shuts the service down             *)
(*                                                                         *)
(* A job stands for its ID: the gateway's newID draws a fresh one for      *)
(* every submission.  What Analyzer.Run does is the module Analyzer; here  *)
(* a run takes some time and ends analysed or failed.                      *)
(***************************************************************************)
EXTENDS Integers, Sequences, FiniteSets, Functions

CONSTANTS Jobs,      \* the jobs clients may post
          Workers,   \* the pool's goroutines, WORKER_COUNT of them
          QueueCap,  \* capacity of the job queue, 512 in the code
          PoolCap,   \* capacity of the pool's channel, 4 * WORKER_COUNT in the code
          None       \* no job, no result

ASSUME CapAssumption == QueueCap \in Nat \ {0} /\ PoolCap \in Nat \ {0}
ASSUME NoneAssumption == None \notin Jobs /\ None \notin {"analysed", "failed"}

(* A result is that of a completed analysis or the empty one of a failure. *)
Outcomes == {"analysed", "failed"}

VARIABLES handler,       \* [Jobs -> where the job's POST handler is]
          queue,         \* q.ch
          cpc,           \* where the consumer goroutine is
          cjob,          \* the job it dequeued last
          pool,          \* p.jobs
          wpc,           \* [Workers -> where the worker is]
          wjob,          \* [Workers -> the item it processes]
          resultCh,      \* [Jobs -> content of the job's result channel]
          collector,     \* [Jobs -> where the job's collector goroutine is]
          received,      \* [Jobs -> the result its collector took from resultCh]
          results,       \* the map of results, guarded by mu
          queueDepth,    \* gauge queue_depth
          jobsQueued,    \* counter jobs_queued_total
          jobsCompleted, \* counter jobs_completed_total
          jobsFailed,    \* counter jobs_failed_total
          mpc            \* where main is

consumerVars  == <<cpc, cjob>>
workerVars    == <<wpc, wjob>>
collectorVars == <<collector, received, results>>
counterVars   == <<jobsQueued, jobsCompleted, jobsFailed>>
vars == <<handler, queue, consumerVars, pool, workerVars, resultCh,
          collectorVars, queueDepth, counterVars, mpc>>

TypeOK ==
    /\ handler \in [Jobs -> {"idle", "enqueue", "count", "gauge", "accepted", "badRequest"}]
    /\ queue \in Seq(Jobs) /\ Len(queue) <= QueueCap
    /\ cpc \in {"dequeue", "decrement", "submit", "spawn", "returned"}
    /\ cjob \in Jobs \cup {None}
    /\ pool \in Seq(Jobs) /\ Len(pool) <= PoolCap
    /\ wpc \in [Workers -> {"select", "run", "returned"}]
    /\ wjob \in [Workers -> Jobs \cup {None}]
    /\ resultCh \in [Jobs -> Outcomes \cup {None}]
    /\ collector \in [Jobs -> {"none", "receive", "count", "store", "done"}]
    /\ received \in [Jobs -> Outcomes \cup {None}]
    /\ results \in [Jobs -> Outcomes \cup {None}]
    /\ queueDepth \in Int
    /\ jobsQueued \in Nat /\ jobsCompleted \in Nat /\ jobsFailed \in Nat
    /\ mpc \in {"serving", "shutdown", "cancel", "stop", "wait", "exited", "panicked"}

Init ==
    /\ handler = [j \in Jobs |-> "idle"]
    /\ queue = <<>>
    /\ cpc = "dequeue" /\ cjob = None
    /\ pool = <<>>
    /\ wpc = [w \in Workers |-> "select"]
    /\ wjob = [w \in Workers |-> None]
    /\ resultCh = [j \in Jobs |-> None]
    /\ collector = [j \in Jobs |-> "none"]
    /\ received = [j \in Jobs |-> None]
    /\ results = [j \in Jobs |-> None]
    /\ queueDepth = 0
    /\ jobsQueued = 0 /\ jobsCompleted = 0 /\ jobsFailed = 0
    /\ mpc = "serving"

(* Every goroutine ends with the process. *)
Alive == mpc \notin {"exited", "panicked"}

(* The context the consumer and the workers watch has been cancelled. *)
Cancelled == mpc \in {"stop", "wait"}

(* pool.Stop has closed p.jobs. *)
PoolClosed == mpc = "wait"

(***************************************************************************)
(* POST /api/v1/jobs                                                       *)
(***************************************************************************)

(* A request arrives while the server listens and its body is decoded. *)
Receive(j) ==
    /\ mpc = "serving"
    /\ handler[j] = "idle"
    /\ \E next \in {"enqueue", "badRequest"} : handler' = [handler EXCEPT ![j] = next]
    /\ UNCHANGED <<queue, consumerVars, pool, workerVars, resultCh, collectorVars,
                   queueDepth, counterVars, mpc>>

(* Mutant: a queue that grows instead of blocking. *)
EnqueueUnbounded(j) ==
    /\ Alive
    /\ handler[j] = "enqueue"
    /\ queue' = Append(queue, j)
    /\ handler' = [handler EXCEPT ![j] = "count"]
    /\ UNCHANGED <<consumerVars, pool, workerVars, resultCh, collectorVars,
                   queueDepth, counterVars, mpc>>

(* q.Enqueue blocks while the queue is full, whatever becomes of the request. *)
Enqueue(j) ==
    /\ Alive
    /\ handler[j] = "enqueue"
    /\ Len(queue) < QueueCap
    /\ queue' = Append(queue, j)
    /\ handler' = [handler EXCEPT ![j] = "count"]
    /\ UNCHANGED <<consumerVars, pool, workerVars, resultCh, collectorVars,
                   queueDepth, counterVars, mpc>>

(* The job is counted only after it is on the queue. *)
CountQueued(j) ==
    /\ Alive
    /\ handler[j] = "count"
    /\ jobsQueued' = jobsQueued + 1
    /\ handler' = [handler EXCEPT ![j] = "gauge"]
    /\ UNCHANGED <<queue, consumerVars, pool, workerVars, resultCh, collectorVars,
                   queueDepth, jobsCompleted, jobsFailed, mpc>>

(* The gauge is raised by an update of its own; then 202 is written. *)
Accept(j) ==
    /\ Alive
    /\ handler[j] = "gauge"
    /\ queueDepth' = queueDepth + 1
    /\ handler' = [handler EXCEPT ![j] = "accepted"]
    /\ UNCHANGED <<queue, consumerVars, pool, workerVars, resultCh, collectorVars,
                   counterVars, mpc>>

(* What GET /api/v1/jobs/{id} finds, and the jobs GET /api/v1/jobs lists. *)
Lookup(j) == results[j]
Listed == {j \in Jobs : results[j] # None}

(***************************************************************************)
(* The consumer goroutine                                                  *)
(***************************************************************************)

(* The first case of Dequeue's select; it may win over a cancelled context. *)
Dequeue ==
    /\ Alive
    /\ cpc = "dequeue"
    /\ queue # <<>>
    /\ cjob' = Head(queue)
    /\ queue' = Tail(queue)
    /\ cpc' = "decrement"
    /\ UNCHANGED <<handler, pool, workerVars, resultCh, collectorVars,
                   queueDepth, counterVars, mpc>>

(* Its other case: the context is done and the goroutine returns. *)
ConsumerReturn ==
    /\ Cancelled
    /\ cpc = "dequeue"
    /\ cpc' = "returned"
    /\ UNCHANGED <<handler, queue, cjob, pool, workerVars, resultCh, collectorVars,
                   queueDepth, counterVars, mpc>>

(* Mutant: the gauge is not taken down. *)
DecrementForgotten ==
    /\ Alive
    /\ cpc = "decrement"
    /\ cpc' = "submit"
    /\ UNCHANGED <<handler, queue, cjob, pool, workerVars, resultCh, collectorVars,
                   queueDepth, counterVars, mpc>>

Decrement ==
    /\ Alive
    /\ cpc = "decrement"
    /\ queueDepth' = queueDepth - 1
    /\ cpc' = "submit"
    /\ UNCHANGED <<handler, queue, cjob, pool, workerVars, resultCh, collectorVars,
                   counterVars, mpc>>

(* pool.Submit blocks while p.jobs is full. *)
Submit ==
    /\ Alive /\ ~PoolClosed
    /\ cpc = "submit"
    /\ Len(pool) < PoolCap
    /\ pool' = Append(pool, cjob)
    /\ cpc' = "spawn"
    /\ UNCHANGED <<handler, queue, cjob, workerVars, resultCh, collectorVars,
                   queueDepth, counterVars, mpc>>

(* Sending on the closed p.jobs panics, and no one recovers the panic. *)
SubmitPanics ==
    /\ PoolClosed
    /\ cpc = "submit"
    /\ mpc' = "panicked"
    /\ UNCHANGED <<handler, queue, consumerVars, pool, workerVars, resultCh,
                   collectorVars, queueDepth, counterVars>>

(* The job's collector is started after the job is on its way. *)
Spawn ==
    /\ Alive
    /\ cpc = "spawn"
    /\ collector' = [collector EXCEPT ![cjob] = "receive"]
    /\ cpc' = "dequeue"
    /\ UNCHANGED <<handler, queue, cjob, pool, workerVars, resultCh, received,
                   results, queueDepth, counterVars, mpc>>

(***************************************************************************)
(* The pool's workers                                                      *)
(***************************************************************************)

(* Mutant: the item is read and left in the channel. *)
TakeItemPeek(w) ==
    /\ Alive
    /\ wpc[w] = "select"
    /\ pool # <<>>
    /\ wjob' = [wjob EXCEPT ![w] = Head(pool)]
    /\ wpc' = [wpc EXCEPT ![w] = "run"]
    /\ UNCHANGED <<handler, queue, consumerVars, pool, resultCh, collectorVars,
                   queueDepth, counterVars, mpc>>

(* The first case of work's select.  Items still buffered in p.jobs are     *)
(* received from it after it is closed, too.                                *)
TakeItem(w) ==
    /\ Alive
    /\ wpc[w] = "select"
    /\ pool # <<>>
    /\ wjob' = [wjob EXCEPT ![w] = Head(pool)]
    /\ pool' = Tail(pool)
    /\ wpc' = [wpc EXCEPT ![w] = "run"]
    /\ UNCHANGED <<handler, queue, consumerVars, resultCh, collectorVars,
                   queueDepth, counterVars, mpc>>

(* Mutant: break, which leaves the select, where return leaves the loop. *)
WorkerBreak(w) ==
    /\ Cancelled
    /\ wpc[w] = "select"
    /\ UNCHANGED vars

(* The context is done (p.jobs is closed and empty only after that). *)
WorkerReturn(w) ==
    /\ Cancelled
    /\ wpc[w] = "select"
    /\ wpc' = [wpc EXCEPT ![w] = "returned"]
    /\ UNCHANGED <<handler, queue, consumerVars, pool, wjob, resultCh, collectorVars,
                   queueDepth, counterVars, mpc>>

(* Mutant: an error makes the worker go on without an answer. *)
FinishRunContinue(w) ==
    /\ Alive
    /\ wpc[w] = "run"
    /\ resultCh[wjob[w]] = None
    /\ \/ resultCh' = [resultCh EXCEPT ![wjob[w]] = "analysed"]
       \/ UNCHANGED resultCh
    /\ wpc' = [wpc EXCEPT ![w] = "select"]
    /\ wjob' = [wjob EXCEPT ![w] = None]
    /\ UNCHANGED <<handler, queue, consumerVars, pool, collectorVars,
                   queueDepth, counterVars, mpc>>

(* Run returns, an error becomes an empty result, and the result goes to    *)
(* the job's channel, which holds one element and would block at a second.  *)
FinishRun(w) ==
    /\ Alive
    /\ wpc[w] = "run"
    /\ resultCh[wjob[w]] = None
    /\ \E o \in Outcomes : resultCh' = [resultCh EXCEPT ![wjob[w]] = o]
    /\ wpc' = [wpc EXCEPT ![w] = "select"]
    /\ wjob' = [wjob EXCEPT ![w] = None]
    /\ UNCHANGED <<handler, queue, consumerVars, pool, collectorVars,
                   queueDepth, counterVars, mpc>>

(***************************************************************************)
(* The collectors                                                          *)
(***************************************************************************)

(* Summary.TotalFindings of a result: a failure's is the zero value, an     *)
(* analysis reports the length of its list of findings.                     *)
TotalFindings(o) == IF o = "failed" THEN 0 ELSE 1

(* The result is out of the channel and not counted yet. *)
CollectorReceive(j) ==
    /\ Alive
    /\ collector[j] = "receive"
    /\ resultCh[j] # None
    /\ received' = [received EXCEPT ![j] = resultCh[j]]
    /\ resultCh' = [resultCh EXCEPT ![j] = None]
    /\ collector' = [collector EXCEPT ![j] = "count"]
    /\ UNCHANGED <<handler, queue, consumerVars, pool, workerVars, results,
                   queueDepth, counterVars, mpc>>

(* Mutant: only results that have findings are counted. *)
CollectorCountSome(j) ==
    /\ Alive
    /\ collector[j] = "count"
    /\ jobsCompleted' = jobsCompleted + TotalFindings(received[j])
    /\ collector' = [collector EXCEPT ![j] = "store"]
    /\ UNCHANGED <<handler, queue, consumerVars, pool, workerVars, resultCh, received,
                   results, queueDepth, jobsQueued, jobsFailed, mpc>>

(* One of the two counters goes up: failures are told by their findings. *)
CollectorCount(j) ==
    /\ Alive
    /\ collector[j] = "count"
    /\ LET done == TotalFindings(received[j]) >= 0
       IN  /\ jobsCompleted' = IF done THEN jobsCompleted + 1 ELSE jobsCompleted
           /\ jobsFailed' = IF done THEN jobsFailed ELSE jobsFailed + 1
    /\ collector' = [collector EXCEPT ![j] = "store"]
    /\ UNCHANGED <<handler, queue, consumerVars, pool, workerVars, resultCh, received,
                   results, queueDepth, jobsQueued, mpc>>

(* Mutant: the closure captures the loop's job instead of taking its ID. *)
CollectorStoreCaptured(j) ==
    /\ Alive
    /\ collector[j] = "store"
    /\ results' = [results EXCEPT ![cjob] = received[j]]
    /\ received' = [received EXCEPT ![j] = None]
    /\ collector' = [collector EXCEPT ![j] = "done"]
    /\ UNCHANGED <<handler, queue, consumerVars, pool, workerVars, resultCh,
                   queueDepth, counterVars, mpc>>

CollectorStore(j) ==
    /\ Alive
    /\ collector[j] = "store"
    /\ results' = [results EXCEPT ![j] = received[j]]
    /\ received' = [received EXCEPT ![j] = None]
    /\ collector' = [collector EXCEPT ![j] = "done"]
    /\ UNCHANGED <<handler, queue, consumerVars, pool, workerVars, resultCh,
                   queueDepth, counterVars, mpc>>

(***************************************************************************)
(* main                                                                    *)
(***************************************************************************)
mainFrame == <<handler, queue, consumerVars, pool, workerVars, resultCh,
               collectorVars, queueDepth, counterVars>>

(* The handlers srv.Shutdown waits for. *)
Active == {j \in Jobs : handler[j] \in {"enqueue", "count", "gauge"}}

(* ListenAndServe fails and log.Fatalf ends the process. *)
ServeFails == mpc = "serving" /\ mpc' = "exited" /\ UNCHANGED mainFrame

(* SIGINT or SIGTERM arrives; srv.Shutdown closes the listener. *)
Signal == mpc = "serving" /\ mpc' = "shutdown" /\ UNCHANGED mainFrame

(* srv.Shutdown returns when no handler is active, or when its 30 seconds   *)
(* are over and some handlers still are.                                    *)
ShutdownIdle == mpc = "shutdown" /\ Active = {} /\ mpc' = "cancel" /\ UNCHANGED mainFrame
ShutdownTimeout == mpc = "shutdown" /\ Active # {} /\ mpc' = "cancel" /\ UNCHANGED mainFrame

(* cancel(), then pool.Stop closes p.jobs and waits for the workers. *)
Cancel == mpc = "cancel" /\ mpc' = "stop" /\ UNCHANGED mainFrame
ClosePool == mpc = "stop" /\ mpc' = "wait" /\ UNCHANGED mainFrame
WaitDone ==
    /\ mpc = "wait"
    /\ \A w \in Workers : wpc[w] = "returned"
    /\ mpc' = "exited"
    /\ UNCHANGED mainFrame

(* The process is gone. *)
Terminated == ~Alive /\ UNCHANGED vars

HandlerStep(j) == Receive(j) \/ Enqueue(j) \/ CountQueued(j) \/ Accept(j)
ConsumerStep == Dequeue \/ ConsumerReturn \/ Decrement \/ Submit \/ SubmitPanics \/ Spawn
WorkerStep(w) == TakeItem(w) \/ WorkerReturn(w) \/ FinishRun(w)
CollectorStep(j) == CollectorReceive(j) \/ CollectorCount(j) \/ CollectorStore(j)
MainStep == ShutdownIdle \/ ShutdownTimeout \/ Cancel \/ ClosePool \/ WaitDone

Next ==
    \/ \E j \in Jobs : HandlerStep(j) \/ CollectorStep(j)
    \/ ConsumerStep
    \/ \E w \in Workers : WorkerStep(w)
    \/ MainStep
    \/ Signal
    \/ ServeFails
    \/ Terminated

Spec == Init /\ [][Next]_vars

(***************************************************************************)
(* Go's scheduler lets every goroutine that can go on do so eventually.    *)
(* Clients need not post, signals need not come and the listener need not  *)
(* fail.  That FinishRun is among the fair steps assumes that git and the  *)
(* other services answer: neither the clone nor the HTTP client has a      *)
(* timeout of its own.                                                     *)
(***************************************************************************)
Fairness ==
    /\ \A j \in Jobs : /\ WF_vars(Enqueue(j)) /\ WF_vars(CountQueued(j)) /\ WF_vars(Accept(j))
                       /\ WF_vars(CollectorStep(j))
    /\ WF_vars(ConsumerStep)
    /\ \A w \in Workers : WF_vars(WorkerStep(w))
    /\ WF_vars(MainStep)

FairSpec == Spec /\ Fairness

-----------------------------------------------------------------------------
(***************************************************************************)
(* Properties                                                              *)
(***************************************************************************)

(* The jobs that were put on the queue. *)
Enqueued == {j \in Jobs : handler[j] \in {"count", "gauge", "accepted"}}

(* The places a job, or its result, can be at. *)
AtQueue    == Range(queue)
AtConsumer == {j \in Jobs : cjob = j /\ cpc \in {"decrement", "submit"}}
AtPool     == Range(pool)
AtWorker   == {j \in Jobs : \E w \in Workers : wpc[w] = "run" /\ wjob[w] = j}
AtChannel  == {j \in Jobs : resultCh[j] # None}
AtCollector == {j \in Jobs : received[j] # None}
AtResults  == {j \in Jobs : results[j] # None}

Places == <<AtQueue, AtConsumer, AtPool, AtWorker, AtChannel, AtCollector, AtResults>>

(* Between the goroutines and channels of main.go and workers.go no job is  *)
(* ever lost or doubled: a job that was enqueued, or its result, is at      *)
(* exactly one place, and in it once.                                       *)
ExactlyOneHolder ==
    /\ Enqueued = UNION {Places[p] : p \in 1 .. 7}
    /\ \A p, q \in 1 .. 7 : p # q => Places[p] \cap Places[q] = {}
    /\ IsInjective(queue) /\ IsInjective(pool)
    /\ \A v, w \in Workers : v # w /\ wpc[v] = "run" /\ wpc[w] = "run" => wjob[v] # wjob[w]

(* Jobs whose handler has yet to add to the gauge, and to the counter. *)
Ungauged  == {j \in Jobs : handler[j] \in {"count", "gauge"}}
Uncounted == {j \in Jobs : handler[j] = "count"}

(* The gauge never drifts: queue_depth is the length of the queue up to the *)
(* handlers that have yet to add their job (main.go:98) and the consumer    *)
(* that has yet to take its job off (main.go:55).  It may be negative.      *)
QueueDepthExact ==
    queueDepth = Len(queue) + (IF cpc = "decrement" THEN 1 ELSE 0) - Cardinality(Ungauged)

(* The jobs no collector has a result of, and those whose result has left   *)
(* the channel (main.go:59) and is not counted yet (main.go:60-64).         *)
InFlight == AtQueue \cup AtConsumer \cup AtPool \cup AtWorker \cup AtChannel
ToCount  == {j \in Jobs : collector[j] = "count"}
Unfinished == InFlight \cup ToCount

(* The counters balance: every job enqueued is counted as finished, is at a *)
(* place before its collector, or is between its collector's receive and    *)
(* its count, over all interleavings of main.go's handlers, consumer and    *)
(* collectors; Uncounted are those whose handler is between two statements. *)
CountersBalance ==
    jobsQueued + Cardinality(Uncounted) = jobsCompleted + jobsFailed + Cardinality(Unfinished)

(* What a client can tell of a job, and of the process. *)
Progress == [j \in Jobs |-> IF results[j] # None THEN "finished"
                            ELSE IF j \in Enqueued THEN "pending" ELSE "new"]
UpOrDown == IF Alive THEN "up" ELSE "down"

Service == INSTANCE JobService WITH
    status <- Progress, outcome <- results, service <- UpOrDown

(* The goroutines and channels of main.go, workers.go and queue.go together *)
(* implement JobService: one result per job, final, none after the end.     *)
ImplementsJobService == Service!Spec

(* While the service is not shut down every accepted job gets its result,   *)
(* through the full queue, the full pool and any order of the goroutines.   *)
EveryJobFinishes ==
    \A j \in Jobs : handler[j] = "accepted" ~> Lookup(j) # None \/ mpc # "serving"

(* A signal ends the process, whatever is queued, running or blocked. *)
ShutdownCompletes == mpc = "shutdown" ~> ~Alive

(* main.go:48: the consumer dispatches what it dequeues to the pool. *)
DispatchNeverPanics == mpc # "panicked"
=============================================================================
