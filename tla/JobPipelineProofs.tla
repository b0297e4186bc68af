------------------------- MODULE JobPipelineProofs -------------------------
(***************************************************************************)
(* Proofs about JobPipeline, for any set of jobs, any number of workers    *)
(* and any capacity of the queue and of the pool.                          *)
(***************************************************************************)
EXTENDS JobPipeline, FiniteSetTheorems, TLAPS

(* Putting a new element at the end of a channel's buffer. *)
LEMMA AppendRange ==
    ASSUME NEW S, NEW s \in Seq(S), NEW e \in S
    PROVE  /\ Append(s, e) \in Seq(S)
           /\ Len(Append(s, e)) = Len(s) + 1
           /\ Range(Append(s, e)) = Range(s) \cup {e}
           /\ IsInjective(s) /\ e \notin Range(s) => IsInjective(Append(s, e))
<1> DEFINE t == Append(s, e)
<1>1. t \in Seq(S) /\ Len(t) = Len(s) + 1 /\ DOMAIN t = 1 .. Len(s) + 1
      /\ t[Len(s) + 1] = e /\ \A i \in 1 .. Len(s) : t[i] = s[i]
  OBVIOUS
<1>2. DOMAIN s = 1 .. Len(s) /\ Len(s) \in Nat
  OBVIOUS
<1>3. Range(t) = Range(s) \cup {e}
  <2>1. ASSUME NEW x \in Range(t) PROVE x \in Range(s) \cup {e}
    BY <1>1, <1>2 DEF Range
  <2>2. ASSUME NEW x \in Range(s) \cup {e} PROVE x \in Range(t)
    <3>1. PICK i \in 1 .. Len(s) + 1 : t[i] = x
      BY <1>1, <1>2 DEF Range
    <3> QED BY <3>1, <1>1 DEF Range
  <2> QED BY <2>1, <2>2
<1>4. ASSUME IsInjective(s), e \notin Range(s) PROVE IsInjective(t)
  <2> SUFFICES ASSUME NEW a \in DOMAIN t, NEW b \in DOMAIN t, t[a] = t[b] PROVE a = b
    BY DEF IsInjective
  <2>1. \A i \in 1 .. Len(s) : s[i] # e
    BY <1>2, <1>4 DEF Range
  <2> QED BY <1>1, <1>2, <1>4, <2>1 DEF IsInjective
<1> QED BY <1>1, <1>3, <1>4

(* Taking the first element of a channel's buffer. *)
LEMMA TailRange ==
    ASSUME NEW S, NEW s \in Seq(S), s # <<>>
    PROVE  /\ Head(s) \in S /\ Head(s) \in Range(s)
           /\ Tail(s) \in Seq(S)
           /\ Len(Tail(s)) = Len(s) - 1
           /\ IsInjective(s) => Range(Tail(s)) = Range(s) \ {Head(s)} /\ IsInjective(Tail(s))
<1> DEFINE t == Tail(s)
<1>1. t \in Seq(S) /\ Len(t) = Len(s) - 1 /\ DOMAIN t = 1 .. Len(s) - 1
      /\ \A i \in 1 .. Len(s) - 1 : t[i] = s[i + 1]
  OBVIOUS
<1>2. DOMAIN s = 1 .. Len(s) /\ Len(s) \in Nat \ {0} /\ Head(s) = s[1] /\ s[1] \in S
  OBVIOUS
<1>3. Head(s) \in Range(s)
  BY <1>2 DEF Range
<1>4. ASSUME IsInjective(s) PROVE Range(t) = Range(s) \ {Head(s)} /\ IsInjective(t)
  <2>1. ASSUME NEW x \in Range(t) PROVE x \in Range(s) \ {Head(s)}
    <3>1. PICK i \in 1 .. Len(s) - 1 : x = s[i + 1]
      BY <1>1 DEF Range
    <3>2. i + 1 \in DOMAIN s /\ i + 1 # 1 /\ 1 \in DOMAIN s
      BY <1>2
    <3> QED BY <3>1, <3>2, <1>2, <1>4 DEF Range, IsInjective
  <2>2. ASSUME NEW x \in Range(s) \ {Head(s)} PROVE x \in Range(t)
    <3>1. PICK k \in 1 .. Len(s) : x = s[k]
      BY <1>2 DEF Range
    <3>2. k - 1 \in 1 .. Len(s) - 1 /\ t[k - 1] = x
      BY <3>1, <1>1, <1>2
    <3> QED BY <3>2, <1>1 DEF Range
  <2>3. IsInjective(t)
    <3> SUFFICES ASSUME NEW a \in DOMAIN t, NEW b \in DOMAIN t, t[a] = t[b] PROVE a = b
      BY DEF IsInjective
    <3>1. a + 1 \in DOMAIN s /\ b + 1 \in DOMAIN s /\ s[a + 1] = s[b + 1]
      BY <1>1, <1>2
    <3> QED BY <3>1, <1>1, <1>4 DEF IsInjective
  <2> QED BY <2>1, <2>2, <2>3
<1> QED BY <1>1, <1>2, <1>3, <1>4

-----------------------------------------------------------------------------
(* What the consumer and the workers hold are jobs where the code needs     *)
(* them to be.                                                              *)
HandsOK ==
    /\ cpc \in {"decrement", "submit", "spawn"} => cjob \in Jobs
    /\ \A w \in Workers : wpc[w] = "run" => wjob[w] \in Jobs

TypeInv == TypeOK /\ HandsOK

LEMMA TypeInit == Init => TypeInv
  BY CapAssumption, NoneAssumption DEF Init, TypeInv, TypeOK, HandsOK, Outcomes

LEMMA TypeNext == TypeInv /\ [Next]_vars => TypeInv'
<1> SUFFICES ASSUME TypeInv, [Next]_vars PROVE TypeInv'
  OBVIOUS
<1> USE CapAssumption, NoneAssumption DEF TypeInv
<1>1. ASSUME NEW j \in Jobs, Receive(j) PROVE TypeInv'
  BY <1>1 DEF TypeOK, HandsOK, Receive, consumerVars, workerVars, collectorVars, counterVars
<1>2. ASSUME NEW j \in Jobs, Enqueue(j) PROVE TypeInv'
  <2>1. queue' \in Seq(Jobs) /\ Len(queue') <= QueueCap
    BY <1>2, AppendRange DEF TypeOK, Enqueue
  <2> QED BY <1>2, <2>1 DEF TypeOK, HandsOK, Enqueue, consumerVars, workerVars, collectorVars, counterVars
<1>3. ASSUME NEW j \in Jobs, Accept(j) PROVE TypeInv'
  BY <1>3 DEF TypeOK, HandsOK, Accept, consumerVars, workerVars, collectorVars, counterVars
<1>3a. ASSUME NEW j \in Jobs, CountQueued(j) PROVE TypeInv'
  BY <1>3a DEF TypeOK, HandsOK, CountQueued, consumerVars, workerVars, collectorVars
<1>4. ASSUME Dequeue PROVE TypeInv'
  <2>1. Head(queue) \in Jobs /\ queue' \in Seq(Jobs) /\ Len(queue') <= QueueCap
    BY <1>4, TailRange DEF TypeOK, Dequeue
  <2> QED BY <1>4, <2>1 DEF TypeOK, HandsOK, Dequeue, workerVars, collectorVars, counterVars
<1>5. ASSUME ConsumerReturn PROVE TypeInv'
  BY <1>5 DEF TypeOK, HandsOK, ConsumerReturn, workerVars, collectorVars, counterVars
<1>6. ASSUME Decrement PROVE TypeInv'
  BY <1>6 DEF TypeOK, HandsOK, Decrement, workerVars, collectorVars, counterVars
<1>7. ASSUME Submit PROVE TypeInv'
  <2>1. pool' \in Seq(Jobs) /\ Len(pool') <= PoolCap
    BY <1>7, AppendRange DEF TypeOK, HandsOK, Submit
  <2> QED BY <1>7, <2>1 DEF TypeOK, HandsOK, Submit, workerVars, collectorVars, counterVars
<1>8. ASSUME SubmitPanics PROVE TypeInv'
  BY <1>8 DEF TypeOK, HandsOK, SubmitPanics, consumerVars, workerVars, collectorVars, counterVars
<1>9. ASSUME Spawn PROVE TypeInv'
  BY <1>9 DEF TypeOK, HandsOK, Spawn, workerVars, collectorVars, counterVars
<1>10. ASSUME NEW w \in Workers, TakeItem(w) PROVE TypeInv'
  <2>1. Head(pool) \in Jobs /\ pool' \in Seq(Jobs) /\ Len(pool') <= PoolCap
    BY <1>10, TailRange DEF TypeOK, TakeItem
  <2> QED BY <1>10, <2>1 DEF TypeOK, HandsOK, TakeItem, consumerVars, collectorVars, counterVars
<1>11. ASSUME NEW w \in Workers, WorkerReturn(w) PROVE TypeInv'
  BY <1>11 DEF TypeOK, HandsOK, WorkerReturn, consumerVars, collectorVars, counterVars
<1>12. ASSUME NEW w \in Workers, FinishRun(w) PROVE TypeInv'
  BY <1>12 DEF TypeOK, HandsOK, FinishRun, consumerVars, collectorVars, counterVars
<1>13. ASSUME NEW j \in Jobs, CollectorReceive(j) PROVE TypeInv'
  BY <1>13 DEF TypeOK, HandsOK, CollectorReceive, consumerVars, workerVars, counterVars
<1>13a. ASSUME NEW j \in Jobs, CollectorCount(j) PROVE TypeInv'
  BY <1>13a DEF TypeOK, HandsOK, CollectorCount, consumerVars, workerVars
<1>14. ASSUME NEW j \in Jobs, CollectorStore(j) PROVE TypeInv'
  BY <1>14 DEF TypeOK, HandsOK, CollectorStore, consumerVars, workerVars, counterVars
<1>15. CASE MainStep \/ Signal \/ ServeFails
  BY <1>15 DEF TypeOK, HandsOK, MainStep, ShutdownIdle, ShutdownTimeout, Cancel, ClosePool,
     WaitDone, Signal, ServeFails, mainFrame, consumerVars, workerVars, collectorVars, counterVars
<1>16. CASE UNCHANGED vars
  BY <1>16 DEF TypeOK, HandsOK, vars, consumerVars, workerVars, collectorVars, counterVars
<1> QED
  BY <1>1, <1>2, <1>3, <1>3a, <1>4, <1>5, <1>6, <1>7, <1>8, <1>9, <1>10, <1>11, <1>12, <1>13,
     <1>13a, <1>14, <1>15, <1>16
  DEF Next, HandlerStep, ConsumerStep, WorkerStep, CollectorStep, Terminated

(* The variables keep their types: in particular no buffer of the service   *)
(* outgrows the capacity its channel was made with.                         *)
THEOREM TypeCorrect == Spec => []TypeOK
<1>1. TypeInv /\ UNCHANGED vars => TypeInv'
  BY TypeNext
<1> QED BY TypeInit, TypeNext, PTL DEF Spec, TypeInv

-----------------------------------------------------------------------------
(***************************************************************************)
(* The inductive invariant behind ExactlyOneHolder.  It adds where a job   *)
(* is when its collector is at each of its points: what makes the          *)
(* collector's two moves and the consumer's Spawn take the job from the    *)
(* right place.                                                            *)
(***************************************************************************)
Dispatched == AtPool \cup AtWorker \cup AtChannel

Partition ==
    /\ Enqueued = AtQueue \cup AtConsumer \cup AtPool \cup AtWorker \cup AtChannel
                  \cup AtCollector \cup AtResults
    /\ AtQueue \cap (AtConsumer \cup AtPool \cup AtWorker \cup AtChannel \cup AtCollector \cup AtResults) = {}
    /\ AtConsumer \cap (AtPool \cup AtWorker \cup AtChannel \cup AtCollector \cup AtResults) = {}
    /\ AtPool \cap (AtWorker \cup AtChannel \cup AtCollector \cup AtResults) = {}
    /\ AtWorker \cap (AtChannel \cup AtCollector \cup AtResults) = {}
    /\ AtChannel \cap (AtCollector \cup AtResults) = {}
    /\ AtCollector \cap AtResults = {}

WorkersApart ==
    \A v, w \in Workers : v # w /\ wpc[v] = "run" /\ wpc[w] = "run" => wjob[v] # wjob[w]

CollectorsOK ==
    /\ \A j \in Jobs : (collector[j] \in {"count", "store"}) <=> (j \in AtCollector)
    /\ \A j \in Jobs : collector[j] = "done" => j \in AtResults
    /\ \A j \in Jobs : collector[j] = "receive" => j \in Dispatched
    /\ cpc = "spawn" => cjob \in Dispatched /\ collector[cjob] = "none"

HolderInv ==
    /\ TypeInv
    /\ Partition
    /\ CollectorsOK
    /\ WorkersApart
    /\ IsInjective(queue) /\ IsInjective(pool)

LEMMA HolderInit == Init => HolderInv
<1> SUFFICES ASSUME Init PROVE HolderInv
  OBVIOUS
<1>1. TypeInv
  BY TypeInit
<1>2. /\ Enqueued = {} /\ AtQueue = {} /\ AtConsumer = {} /\ AtPool = {}
      /\ AtWorker = {} /\ AtChannel = {} /\ AtCollector = {} /\ AtResults = {}
  BY DEF Init, Enqueued, AtQueue, AtConsumer, AtPool, AtWorker, AtChannel, AtCollector,
         AtResults, Range
<1>3. Partition
  BY <1>2 DEF Partition
<1>4. CollectorsOK /\ WorkersApart
  BY <1>2 DEF CollectorsOK, WorkersApart, Init
<1>5. IsInjective(queue) /\ IsInjective(pool)
  BY DEF Init, IsInjective
<1> QED BY <1>1, <1>3, <1>4, <1>5 DEF HolderInv

(* Every place as a function of the variables that define it. *)
LEMMA PlacesFrame ==
    /\ UNCHANGED handler => UNCHANGED Enqueued
    /\ UNCHANGED queue => UNCHANGED AtQueue
    /\ UNCHANGED consumerVars => UNCHANGED AtConsumer
    /\ UNCHANGED pool => UNCHANGED AtPool
    /\ UNCHANGED workerVars => UNCHANGED AtWorker
    /\ UNCHANGED resultCh => UNCHANGED AtChannel
    /\ UNCHANGED received => UNCHANGED AtCollector
    /\ UNCHANGED results => UNCHANGED AtResults
  BY DEF Enqueued, AtQueue, AtConsumer, AtPool, AtWorker, AtChannel, AtCollector, AtResults,
         consumerVars, workerVars

(* A step that leaves every place alone keeps the invariant. *)
LEMMA HolderFrame ==
    ASSUME HolderInv, TypeInv',
           UNCHANGED <<queue, pool, workerVars, resultCh, collectorVars>>,
           UNCHANGED <<Enqueued, AtConsumer>>,
           cpc' = "spawn" => cpc = "spawn" /\ cjob' = cjob
    PROVE  HolderInv'
<1>1. UNCHANGED <<AtQueue, AtConsumer, AtPool, AtWorker, AtChannel, AtCollector, AtResults>>
  BY PlacesFrame DEF collectorVars
<1>2. Partition'
  BY <1>1 DEF HolderInv, Partition
<1>3. CollectorsOK'
  BY <1>1 DEF HolderInv, CollectorsOK, Dispatched, collectorVars
<1>4. WorkersApart'
  BY DEF HolderInv, WorkersApart, workerVars
<1> QED BY <1>2, <1>3, <1>4 DEF HolderInv

LEMMA HolderNext == HolderInv /\ [Next]_vars => HolderInv'
<1> SUFFICES ASSUME HolderInv, [Next]_vars PROVE HolderInv'
  OBVIOUS
<1>0. TypeInv'
  BY TypeNext DEF HolderInv
<1> USE NoneAssumption
<1>1. ASSUME NEW j \in Jobs, Receive(j) PROVE HolderInv'
  <2>1. UNCHANGED Enqueued
    BY <1>1 DEF Receive, Enqueued, HolderInv, TypeInv, TypeOK
  <2>2. UNCHANGED AtConsumer
    BY <1>1, PlacesFrame DEF Receive
  <2> QED BY <1>0, <1>1, <2>1, <2>2, HolderFrame DEF Receive, consumerVars
<1>2. ASSUME NEW j \in Jobs, Enqueue(j) PROVE HolderInv'
  <2>1. UNCHANGED <<AtConsumer, AtPool, AtWorker, AtChannel, AtCollector, AtResults>>
    BY <1>2, PlacesFrame DEF Enqueue, collectorVars
  <2>2. j \notin Enqueued /\ Enqueued' = Enqueued \cup {j}
    BY <1>2 DEF Enqueue, Enqueued, HolderInv, TypeInv, TypeOK
  <2>3. j \notin AtQueue
    BY <2>2 DEF HolderInv, Partition
  <2>4. AtQueue' = AtQueue \cup {j} /\ IsInjective(queue')
    BY <1>2, <2>3, AppendRange DEF Enqueue, AtQueue, HolderInv, TypeInv, TypeOK
  <2>5. Partition'
    BY <2>1, <2>2, <2>4 DEF HolderInv, Partition
  <2>6. CollectorsOK' /\ WorkersApart' /\ IsInjective(pool)'
    BY <1>2, <2>1 DEF Enqueue, HolderInv, CollectorsOK, Dispatched, WorkersApart,
       consumerVars, workerVars, collectorVars
  <2> QED BY <1>0, <2>4, <2>5, <2>6 DEF HolderInv
<1>3. ASSUME NEW j \in Jobs, Accept(j) PROVE HolderInv'
  <2>1. UNCHANGED Enqueued
    BY <1>3 DEF Accept, Enqueued, HolderInv, TypeInv, TypeOK
  <2>2. UNCHANGED AtConsumer
    BY <1>3, PlacesFrame DEF Accept
  <2> QED BY <1>0, <1>3, <2>1, <2>2, HolderFrame DEF Accept, consumerVars
<1>3a. ASSUME NEW j \in Jobs, CountQueued(j) PROVE HolderInv'
  <2>1. UNCHANGED Enqueued
    BY <1>3a DEF CountQueued, Enqueued, HolderInv, TypeInv, TypeOK
  <2>2. UNCHANGED AtConsumer
    BY <1>3a, PlacesFrame DEF CountQueued
  <2> QED BY <1>0, <1>3a, <2>1, <2>2, HolderFrame DEF CountQueued, consumerVars
<1>4. ASSUME Dequeue PROVE HolderInv'
  <2>1. UNCHANGED <<Enqueued, AtPool, AtWorker, AtChannel, AtCollector, AtResults>>
    BY <1>4, PlacesFrame DEF Dequeue, collectorVars
  <2>2. /\ Head(queue) \in Jobs /\ Head(queue) \in AtQueue
        /\ AtQueue' = AtQueue \ {Head(queue)} /\ IsInjective(queue')
    BY <1>4, TailRange DEF Dequeue, AtQueue, HolderInv, TypeInv, TypeOK
  <2>3. AtConsumer = {} /\ AtConsumer' = {Head(queue)}
    BY <1>4, <2>2 DEF Dequeue, AtConsumer
  <2>4. Partition'
    BY <2>1, <2>2, <2>3 DEF HolderInv, Partition
  <2>5. CollectorsOK' /\ WorkersApart' /\ IsInjective(pool)'
    BY <1>4, <2>1 DEF Dequeue, HolderInv, CollectorsOK, Dispatched, WorkersApart,
       workerVars, collectorVars
  <2> QED BY <1>0, <2>2, <2>4, <2>5 DEF HolderInv
<1>5. ASSUME ConsumerReturn PROVE HolderInv'
  <2>1. UNCHANGED Enqueued /\ UNCHANGED AtConsumer
    BY <1>5, PlacesFrame DEF ConsumerReturn, AtConsumer
  <2> QED BY <1>0, <1>5, <2>1, HolderFrame DEF ConsumerReturn
<1>6. ASSUME Decrement PROVE HolderInv'
  <2>1. UNCHANGED Enqueued /\ UNCHANGED AtConsumer
    BY <1>6, PlacesFrame DEF Decrement, AtConsumer
  <2> QED BY <1>0, <1>6, <2>1, HolderFrame DEF Decrement
<1>7. ASSUME Submit PROVE HolderInv'
  <2>1. UNCHANGED <<Enqueued, AtQueue, AtWorker, AtChannel, AtCollector, AtResults>>
    BY <1>7, PlacesFrame DEF Submit, collectorVars
  <2>2. cjob \in Jobs /\ AtConsumer = {cjob} /\ AtConsumer' = {}
    BY <1>7 DEF Submit, AtConsumer, HolderInv, TypeInv, HandsOK
  <2>3. cjob \notin Dispatched /\ cjob \notin AtCollector /\ cjob \notin AtResults
    BY <2>2 DEF HolderInv, Partition, Dispatched
  <2>4. AtPool' = AtPool \cup {cjob} /\ IsInjective(pool')
    BY <1>7, <2>2, <2>3, AppendRange DEF Submit, AtPool, Dispatched, HolderInv, TypeInv, TypeOK
  <2>5. Partition'
    BY <2>1, <2>2, <2>3, <2>4 DEF HolderInv, Partition, Dispatched
  <2>6. collector[cjob] = "none"
    BY <2>2, <2>3 DEF HolderInv, CollectorsOK, TypeInv, TypeOK
  <2>7. CollectorsOK' /\ WorkersApart' /\ IsInjective(queue)'
    BY <1>7, <2>1, <2>2, <2>4, <2>6 DEF Submit, HolderInv, CollectorsOK, Dispatched, WorkersApart,
       workerVars, collectorVars
  <2> QED BY <1>0, <2>4, <2>5, <2>7 DEF HolderInv
<1>8. ASSUME SubmitPanics PROVE HolderInv'
  <2>1. UNCHANGED Enqueued /\ UNCHANGED AtConsumer
    BY <1>8, PlacesFrame DEF SubmitPanics
  <2> QED BY <1>0, <1>8, <2>1, HolderFrame DEF SubmitPanics, consumerVars
<1>9. ASSUME Spawn PROVE HolderInv'
  <2>1. UNCHANGED <<Enqueued, AtQueue, AtPool, AtWorker, AtChannel, AtCollector, AtResults>>
    BY <1>9, PlacesFrame DEF Spawn
  <2>2. UNCHANGED AtConsumer
    BY <1>9 DEF Spawn, AtConsumer
  <2>3. Partition'
    BY <2>1, <2>2 DEF HolderInv, Partition
  <2>4. cjob \in Jobs /\ cjob \in Dispatched /\ collector[cjob] = "none"
    BY <1>9 DEF Spawn, HolderInv, TypeInv, HandsOK, CollectorsOK
  <2>5. CollectorsOK'
    BY <1>9, <2>1, <2>4 DEF Spawn, HolderInv, CollectorsOK, Dispatched, TypeInv, TypeOK
  <2>6. WorkersApart' /\ IsInjective(queue)' /\ IsInjective(pool)'
    BY <1>9 DEF Spawn, HolderInv, WorkersApart, workerVars
  <2> QED BY <1>0, <2>3, <2>5, <2>6 DEF HolderInv
<1>10. ASSUME NEW w \in Workers, TakeItem(w) PROVE HolderInv'
  <2>1. UNCHANGED <<Enqueued, AtQueue, AtConsumer, AtChannel, AtCollector, AtResults>>
    BY <1>10, PlacesFrame DEF TakeItem, collectorVars
  <2>2. /\ Head(pool) \in Jobs /\ Head(pool) \in AtPool
        /\ AtPool' = AtPool \ {Head(pool)} /\ IsInjective(pool')
    BY <1>10, TailRange DEF TakeItem, AtPool, HolderInv, TypeInv, TypeOK
  <2>3. AtWorker' = AtWorker \cup {Head(pool)} /\ Head(pool) \notin AtWorker
    <3>1. Head(pool) \notin AtWorker
      BY <2>2 DEF HolderInv, Partition
    <3>2. AtWorker' = AtWorker \cup {Head(pool)}
      BY <1>10, <2>2 DEF TakeItem, AtWorker, HolderInv, TypeInv, TypeOK
    <3> QED BY <3>1, <3>2
  <2>4. Partition'
    BY <2>1, <2>2, <2>3 DEF HolderInv, Partition
  <2>5. CollectorsOK'
    BY <1>10, <2>1, <2>2, <2>3 DEF TakeItem, HolderInv, CollectorsOK, Dispatched, consumerVars,
       collectorVars
  <2>6. WorkersApart'
    BY <1>10, <2>2, <2>3 DEF TakeItem, HolderInv, WorkersApart, AtWorker, TypeInv, TypeOK
  <2> QED BY <1>0, <1>10, <2>2, <2>4, <2>5, <2>6 DEF HolderInv, TakeItem
<1>11. ASSUME NEW w \in Workers, WorkerReturn(w) PROVE HolderInv'
  <2>1. UNCHANGED <<Enqueued, AtQueue, AtConsumer, AtPool, AtChannel, AtCollector, AtResults>>
    BY <1>11, PlacesFrame DEF WorkerReturn, collectorVars
  <2>2. UNCHANGED AtWorker
    BY <1>11 DEF WorkerReturn, AtWorker, HolderInv, TypeInv, TypeOK
  <2>3. Partition'
    BY <2>1, <2>2 DEF HolderInv, Partition
  <2>4. CollectorsOK' /\ WorkersApart'
    BY <1>11, <2>1, <2>2 DEF WorkerReturn, HolderInv, CollectorsOK, Dispatched, WorkersApart,
       consumerVars, collectorVars, TypeInv, TypeOK
  <2> QED BY <1>0, <1>11, <2>3, <2>4 DEF HolderInv, WorkerReturn
<1>12. ASSUME NEW w \in Workers, FinishRun(w) PROVE HolderInv'
  <2>1. UNCHANGED <<Enqueued, AtQueue, AtConsumer, AtPool, AtCollector, AtResults>>
    BY <1>12, PlacesFrame DEF FinishRun, collectorVars
  <2>2. wjob[w] \in Jobs /\ wjob[w] \in AtWorker
    BY <1>12 DEF FinishRun, AtWorker, HolderInv, TypeInv, HandsOK
  <2>3. AtWorker' = AtWorker \ {wjob[w]}
    BY <1>12, <2>2 DEF FinishRun, AtWorker, HolderInv, WorkersApart, TypeInv, TypeOK
  <2>4. AtChannel' = AtChannel \cup {wjob[w]}
    BY <1>12, <2>2 DEF FinishRun, AtChannel, Outcomes, HolderInv, TypeInv, TypeOK
  <2>5. Partition'
    BY <2>1, <2>2, <2>3, <2>4 DEF HolderInv, Partition
  <2>6. CollectorsOK'
    BY <1>12, <2>1, <2>2, <2>3, <2>4 DEF FinishRun, HolderInv, CollectorsOK, Dispatched,
       consumerVars, collectorVars
  <2>7. WorkersApart'
    BY <1>12 DEF FinishRun, HolderInv, WorkersApart, TypeInv, TypeOK
  <2> QED BY <1>0, <1>12, <2>5, <2>6, <2>7 DEF HolderInv, FinishRun
<1>13. ASSUME NEW j \in Jobs, CollectorReceive(j) PROVE HolderInv'
  <2>1. UNCHANGED <<Enqueued, AtQueue, AtConsumer, AtPool, AtWorker, AtResults>>
    BY <1>13, PlacesFrame DEF CollectorReceive
  <2>2. j \in AtChannel /\ AtChannel' = AtChannel \ {j}
    BY <1>13 DEF CollectorReceive, AtChannel, HolderInv, TypeInv, TypeOK
  <2>3. AtCollector' = AtCollector \cup {j}
    BY <1>13 DEF CollectorReceive, AtCollector, HolderInv, TypeInv, TypeOK
  <2>4. Partition'
    BY <2>1, <2>2, <2>3 DEF HolderInv, Partition
  <2>5. cpc = "spawn" => cjob # j
    BY <1>13 DEF CollectorReceive, HolderInv, CollectorsOK
  <2>6. CollectorsOK'
    BY <1>13, <2>1, <2>2, <2>3, <2>5 DEF CollectorReceive, HolderInv, CollectorsOK, Dispatched,
       consumerVars, TypeInv, TypeOK
  <2>7. WorkersApart'
    BY <1>13 DEF CollectorReceive, HolderInv, WorkersApart, workerVars
  <2> QED BY <1>0, <1>13, <2>4, <2>6, <2>7 DEF HolderInv, CollectorReceive
<1>13a. ASSUME NEW j \in Jobs, CollectorCount(j) PROVE HolderInv'
  <2>1. UNCHANGED <<Enqueued, AtQueue, AtConsumer, AtPool, AtWorker, AtChannel, AtCollector,
                    AtResults>>
    BY <1>13a, PlacesFrame DEF CollectorCount
  <2>2. Partition'
    BY <2>1 DEF HolderInv, Partition
  <2>3. CollectorsOK'
    BY <1>13a, <2>1 DEF CollectorCount, HolderInv, CollectorsOK, Dispatched, consumerVars,
       TypeInv, TypeOK
  <2>4. WorkersApart'
    BY <1>13a DEF CollectorCount, HolderInv, WorkersApart, workerVars
  <2> QED BY <1>0, <1>13a, <2>2, <2>3, <2>4 DEF HolderInv, CollectorCount
<1>14. ASSUME NEW j \in Jobs, CollectorStore(j) PROVE HolderInv'
  <2>1. UNCHANGED <<Enqueued, AtQueue, AtConsumer, AtPool, AtWorker, AtChannel>>
    BY <1>14, PlacesFrame DEF CollectorStore
  <2>2. j \in AtCollector
    BY <1>14 DEF CollectorStore, HolderInv, CollectorsOK
  <2>3. AtCollector' = AtCollector \ {j}
    BY <1>14 DEF CollectorStore, AtCollector, HolderInv, TypeInv, TypeOK
  <2>4. AtResults' = AtResults \cup {j}
    BY <1>14, <2>2 DEF CollectorStore, AtCollector, AtResults, HolderInv, TypeInv, TypeOK
  <2>5. Partition'
    BY <2>1, <2>2, <2>3, <2>4 DEF HolderInv, Partition
  <2>6. cpc = "spawn" => cjob # j
    BY <1>14 DEF CollectorStore, HolderInv, CollectorsOK
  <2>7. CollectorsOK'
    BY <1>14, <2>1, <2>3, <2>4, <2>6 DEF CollectorStore, HolderInv, CollectorsOK, Dispatched,
       consumerVars, TypeInv, TypeOK
  <2>8. WorkersApart'
    BY <1>14 DEF CollectorStore, HolderInv, WorkersApart, workerVars
  <2> QED BY <1>0, <1>14, <2>5, <2>7, <2>8 DEF HolderInv, CollectorStore
<1>15. CASE UNCHANGED mainFrame
  <2>1. UNCHANGED Enqueued /\ UNCHANGED AtConsumer
    BY <1>15, PlacesFrame DEF mainFrame
  <2> QED BY <1>0, <1>15, <2>1, HolderFrame DEF mainFrame, consumerVars
<1>16. MainStep \/ Signal \/ ServeFails \/ UNCHANGED vars => UNCHANGED mainFrame
  BY DEF MainStep, ShutdownIdle, ShutdownTimeout, Cancel, ClosePool, WaitDone, Signal, ServeFails,
     vars, mainFrame
<1> QED
  BY <1>1, <1>2, <1>3, <1>3a, <1>4, <1>5, <1>6, <1>7, <1>8, <1>9, <1>10, <1>11, <1>12, <1>13,
     <1>13a, <1>14, <1>15, <1>16
  DEF Next, HandlerStep, ConsumerStep, WorkerStep, CollectorStep, Terminated

LEMMA HolderInvariant == Spec => []HolderInv
<1>1. HolderInv /\ UNCHANGED vars => HolderInv'
  BY HolderNext
<1> QED BY HolderInit, HolderNext, PTL DEF Spec

LEMMA HolderImplies == HolderInv => ExactlyOneHolder
<1> SUFFICES ASSUME HolderInv PROVE ExactlyOneHolder
  OBVIOUS
<1>1. /\ Places[1] = AtQueue /\ Places[2] = AtConsumer /\ Places[3] = AtPool
      /\ Places[4] = AtWorker /\ Places[5] = AtChannel /\ Places[6] = AtCollector
      /\ Places[7] = AtResults
  BY DEF Places
<1>2. Enqueued = UNION {Places[p] : p \in 1 .. 7}
  <2>1. 1 .. 7 = {1, 2, 3, 4, 5, 6, 7}
    OBVIOUS
  <2>2. UNION {Places[p] : p \in {1, 2, 3, 4, 5, 6, 7}} =
        Places[1] \cup Places[2] \cup Places[3] \cup Places[4] \cup Places[5] \cup Places[6]
        \cup Places[7]
    OBVIOUS
  <2> QED BY <1>1, <2>1, <2>2 DEF HolderInv, Partition
<1>3. ASSUME NEW p \in 1 .. 7, NEW q \in 1 .. 7, p < q PROVE Places[p] \cap Places[q] = {}
  <2>1. CASE p = 1
    BY <1>1, <1>3, <2>1 DEF HolderInv, Partition
  <2>2. CASE p = 2
    BY <1>1, <1>3, <2>2 DEF HolderInv, Partition
  <2>3. CASE p = 3
    BY <1>1, <1>3, <2>3 DEF HolderInv, Partition
  <2>4. CASE p \in {4, 5, 6}
    BY <1>1, <1>3, <2>4 DEF HolderInv, Partition
  <2> QED BY <1>3, <2>1, <2>2, <2>3, <2>4
<1>4. \A p, q \in 1 .. 7 : p # q => Places[p] \cap Places[q] = {}
  <2> SUFFICES ASSUME NEW p \in 1 .. 7, NEW q \in 1 .. 7, p # q
               PROVE  Places[p] \cap Places[q] = {}
    OBVIOUS
  <2>1. p < q \/ q < p
    OBVIOUS
  <2>2. Places[p] \cap Places[q] = Places[q] \cap Places[p]
    OBVIOUS
  <2> QED BY <1>3, <2>1, <2>2
<1> QED BY <1>2, <1>4 DEF HolderInv, WorkersApart, ExactlyOneHolder

(* No job is lost or doubled on its way through the service's channels and  *)
(* goroutines, whatever their number and capacity and whenever it is shut   *)
(* down.                                                                    *)
THEOREM HoldersExact == Spec => []ExactlyOneHolder
  BY HolderInvariant, HolderImplies, PTL

-----------------------------------------------------------------------------
(* Every step of the service is a step of JobService or leaves it alone.   *)
LEMMA ServiceStep == HolderInv /\ [Next]_vars => [Service!Next]_(Service!vars)
<1> SUFFICES ASSUME HolderInv, [Next]_vars PROVE [Service!Next]_(Service!vars)
  OBVIOUS
<1> USE NoneAssumption
<1>a. ASSUME UNCHANGED <<Enqueued, results, UpOrDown>> PROVE UNCHANGED Service!vars
  BY <1>a DEF Service!vars, Progress
<1>b. ASSUME UNCHANGED mpc PROVE UNCHANGED UpOrDown
  BY <1>b DEF UpOrDown, Alive
<1>c. ASSUME UNCHANGED <<handler, results>>, Alive, ~Alive' PROVE Service!Stop
  BY <1>c DEF Service!Stop, Progress, UpOrDown, Enqueued
<1>1. ASSUME NEW j \in Jobs, Receive(j) PROVE UNCHANGED Service!vars
  <2>1. UNCHANGED Enqueued
    BY <1>1 DEF Receive, Enqueued, HolderInv, TypeInv, TypeOK
  <2> QED BY <1>1, <1>a, <1>b, <2>1 DEF Receive, collectorVars
<1>2. ASSUME NEW j \in Jobs, Enqueue(j) PROVE Service!Take(j)
  <2>1. j \notin Enqueued /\ Enqueued' = Enqueued \cup {j}
    BY <1>2 DEF Enqueue, Enqueued, HolderInv, TypeInv, TypeOK
  <2>2. results[j] = None
    BY <2>1 DEF HolderInv, Partition, AtResults
  <2>3. UpOrDown = "up" /\ UNCHANGED UpOrDown /\ UNCHANGED results
    BY <1>2 DEF Enqueue, UpOrDown, Alive, collectorVars
  <2> QED BY <2>1, <2>2, <2>3 DEF Service!Take, Progress
<1>3. ASSUME NEW j \in Jobs, Accept(j) PROVE UNCHANGED Service!vars
  <2>1. UNCHANGED Enqueued
    BY <1>3 DEF Accept, Enqueued, HolderInv, TypeInv, TypeOK
  <2> QED BY <1>3, <1>a, <1>b, <2>1 DEF Accept, collectorVars
<1>3a. ASSUME NEW j \in Jobs, CountQueued(j) PROVE UNCHANGED Service!vars
  <2>1. UNCHANGED Enqueued
    BY <1>3a DEF CountQueued, Enqueued, HolderInv, TypeInv, TypeOK
  <2> QED BY <1>3a, <1>a, <1>b, <2>1 DEF CountQueued, collectorVars
<1>4. ASSUME NEW j \in Jobs, CollectorStore(j) PROVE Service!Finish(j)
  <2>1. j \in AtCollector
    BY <1>4 DEF CollectorStore, HolderInv, CollectorsOK
  <2>2. j \in Enqueued /\ results[j] = None
    BY <2>1 DEF HolderInv, Partition, AtResults
  <2>3. received[j] \in Outcomes /\ received[j] # None
    BY <2>1 DEF AtCollector, HolderInv, TypeInv, TypeOK
  <2>4. results' = [results EXCEPT ![j] = received[j]] /\ results \in [Jobs -> Outcomes \cup {None}]
    BY <1>4 DEF CollectorStore, HolderInv, TypeInv, TypeOK
  <2>5. UNCHANGED Enqueued /\ UpOrDown = "up" /\ UNCHANGED UpOrDown
    BY <1>4 DEF CollectorStore, Enqueued, UpOrDown, Alive
  <2>6. Progress' = [Progress EXCEPT ![j] = "finished"] /\ Progress[j] = "pending"
    BY <2>2, <2>3, <2>4, <2>5 DEF Progress
  <2> QED BY <2>3, <2>4, <2>5, <2>6 DEF Service!Finish
<1>5. ASSUME SubmitPanics \/ WaitDone \/ ServeFails PROVE Service!Stop
  BY <1>5, <1>c DEF SubmitPanics, WaitDone, ServeFails, Alive, PoolClosed, mainFrame, collectorVars
<1>6. ASSUME Dequeue \/ ConsumerReturn \/ Decrement \/ Submit \/ Spawn PROVE UNCHANGED Service!vars
  <2>1. UNCHANGED <<handler, results, mpc>>
    BY <1>6 DEF Dequeue, ConsumerReturn, Decrement, Submit, Spawn, collectorVars
  <2> QED BY <1>a, <1>b, <2>1, PlacesFrame
<1>7. ASSUME NEW w \in Workers, WorkerStep(w) PROVE UNCHANGED Service!vars
  <2>1. UNCHANGED <<handler, results, mpc>>
    BY <1>7 DEF WorkerStep, TakeItem, WorkerReturn, FinishRun, collectorVars
  <2> QED BY <1>a, <1>b, <2>1, PlacesFrame
<1>8. ASSUME NEW j \in Jobs, CollectorReceive(j) \/ CollectorCount(j) PROVE UNCHANGED Service!vars
  <2>1. UNCHANGED <<handler, results, mpc>>
    BY <1>8 DEF CollectorReceive, CollectorCount
  <2> QED BY <1>a, <1>b, <2>1, PlacesFrame
<1>9. ASSUME Signal \/ ShutdownIdle \/ ShutdownTimeout \/ Cancel \/ ClosePool
      PROVE UNCHANGED Service!vars
  <2>1. UNCHANGED <<handler, results>> /\ UNCHANGED UpOrDown
    BY <1>9 DEF Signal, ShutdownIdle, ShutdownTimeout, Cancel, ClosePool, mainFrame, collectorVars,
       UpOrDown, Alive
  <2> QED BY <1>a, <2>1, PlacesFrame
<1>10. ASSUME UNCHANGED vars PROVE UNCHANGED Service!vars
  <2>1. UNCHANGED <<handler, results, mpc>>
    BY <1>10 DEF vars, collectorVars
  <2> QED BY <1>a, <1>b, <2>1, PlacesFrame
<1> QED
  BY <1>1, <1>2, <1>3, <1>3a, <1>4, <1>5, <1>6, <1>7, <1>8, <1>9, <1>10
  DEF Next, HandlerStep, ConsumerStep, CollectorStep, MainStep, Terminated, Service!Next

LEMMA ServiceInit == Init => Service!Init
  BY NoneAssumption DEF Init, Service!Init, Progress, UpOrDown, Alive, Enqueued

(* The service implements JobService for every number of jobs and workers. *)
THEOREM Implements == Spec => ImplementsJobService
<1>1. Spec => Service!Init
  BY ServiceInit DEF Spec
<1> QED BY <1>1, HolderInvariant, ServiceStep, PTL DEF Spec, ImplementsJobService, Service!Spec

-----------------------------------------------------------------------------
(***************************************************************************)
(* The gauge and the counters.  The sets they are compared with are finite *)
(* even when there are infinitely many jobs, because every step moves at   *)
(* most one job.                                                           *)
(***************************************************************************)
CountInv ==
    /\ HolderInv
    /\ IsFiniteSet(Uncounted) /\ IsFiniteSet(Ungauged) /\ IsFiniteSet(Unfinished)
    /\ QueueDepthExact
    /\ CountersBalance

LEMMA CountInit == Init => CountInv
<1> SUFFICES ASSUME Init PROVE CountInv
  OBVIOUS
<1>1. HolderInv
  BY HolderInit
<1>2. Uncounted = {} /\ Ungauged = {} /\ Unfinished = {}
  BY DEF Init, Uncounted, Ungauged, Unfinished, ToCount, InFlight, AtQueue, AtConsumer, AtPool,
     AtWorker, AtChannel, Range
<1>3. IsFiniteSet({}) /\ Cardinality({}) = 0
  BY FS_EmptySet
<1>4. QueueDepthExact
  BY <1>2, <1>3 DEF Init, QueueDepthExact
<1>5. CountersBalance
  BY <1>2, <1>3 DEF Init, CountersBalance
<1> QED BY <1>1, <1>2, <1>3, <1>4, <1>5 DEF CountInv

(* Both sides of a gauge move by the same amount. *)
LEMMA SameDrift ==
    \A d, n, h, u, e, m, g \in Int :
        d = n + h - u /\ e - m - g = d - n - h => e = m + g - u
  OBVIOUS

(* A step that moves a job, if any, between two places in flight.           *)
LEMMA CountFrame ==
    ASSUME CountInv, HolderInv', UNCHANGED <<Uncounted, Ungauged, Unfinished, counterVars>>,
           queueDepth' - Len(queue') - (IF cpc' = "decrement" THEN 1 ELSE 0) =
           queueDepth - Len(queue) - (IF cpc = "decrement" THEN 1 ELSE 0)
    PROVE  CountInv'
<1>1. IsFiniteSet(Uncounted') /\ IsFiniteSet(Ungauged') /\ IsFiniteSet(Unfinished')
  BY DEF CountInv
<1>2. CountersBalance'
  BY DEF CountInv, CountersBalance, counterVars
<1>3. /\ Cardinality(Ungauged) \in Nat
      /\ queueDepth \in Int /\ Len(queue) \in Nat /\ queueDepth' \in Int /\ Len(queue') \in Nat
  BY FS_CardinalityType, SMTT(30) DEF CountInv, HolderInv, TypeInv, TypeOK
<1>4. QueueDepthExact'
  <2> DEFINE u == Cardinality(Ungauged)
             d == queueDepth   n == Len(queue)   h == IF cpc = "decrement" THEN 1 ELSE 0
             e == queueDepth'  m == Len(queue')  g == IF cpc' = "decrement" THEN 1 ELSE 0
  <2>1. u \in Int /\ d \in Int /\ n \in Int /\ h \in Int /\ e \in Int /\ m \in Int /\ g \in Int
    BY <1>3
  <2>2. d = n + h - u
    BY DEF CountInv, QueueDepthExact
  <2>3. e - m - g = d - n - h
    OBVIOUS
  <2>4. Cardinality(Ungauged') = u
    OBVIOUS
  <2> HIDE DEF u, d, n, h, e, m, g
  <2>5. e = m + g - u
    BY <2>1, <2>2, <2>3, SameDrift
  <2> QED BY <2>4, <2>5 DEF QueueDepthExact, e, m, g
<1> QED BY <1>1, <1>2, <1>4 DEF CountInv

LEMMA CountNext == CountInv /\ [Next]_vars => CountInv'
<1> SUFFICES ASSUME CountInv, [Next]_vars PROVE CountInv'
  OBVIOUS
<1>0. HolderInv /\ HolderInv'
  BY HolderNext DEF CountInv
<1> USE NoneAssumption
<1>a. /\ Cardinality(Uncounted) \in Nat /\ Cardinality(Ungauged) \in Nat
      /\ Cardinality(Unfinished) \in Nat
      /\ queueDepth \in Int /\ jobsQueued \in Nat /\ jobsCompleted \in Nat /\ jobsFailed \in Nat
      /\ Len(queue) \in Nat
  BY FS_CardinalityType DEF CountInv, HolderInv, TypeInv, TypeOK
<1>b. UNCHANGED handler => UNCHANGED <<Uncounted, Ungauged>>
  BY DEF Uncounted, Ungauged
<1>d. UNCHANGED <<InFlight, collector>> => UNCHANGED Unfinished
  BY DEF Unfinished, ToCount
<1>c. CountersBalance
  BY DEF CountInv
<1>1. ASSUME NEW j \in Jobs, Receive(j) PROVE CountInv'
  <2>1. UNCHANGED <<Uncounted, Ungauged>>
    BY <1>0, <1>1 DEF Receive, Uncounted, Ungauged, HolderInv, TypeInv, TypeOK
  <2>2. UNCHANGED Unfinished
    BY <1>1, <1>d, PlacesFrame DEF Receive, InFlight, collectorVars
  <2> QED BY <1>0, <1>1, <2>1, <2>2, CountFrame DEF Receive, consumerVars
<1>2. ASSUME NEW j \in Jobs, Enqueue(j) PROVE CountInv'
  <2>1. /\ j \notin Uncounted /\ Uncounted' = Uncounted \cup {j}
        /\ j \notin Ungauged /\ Ungauged' = Ungauged \cup {j}
    BY <1>0, <1>2 DEF Enqueue, Uncounted, Ungauged, HolderInv, TypeInv, TypeOK
  <2>2. j \notin Enqueued
    BY <1>0, <1>2 DEF Enqueue, Enqueued, HolderInv, TypeInv, TypeOK
  <2>3. AtQueue' = AtQueue \cup {j} /\ Len(queue') = Len(queue) + 1
    BY <1>0, <1>2, AppendRange DEF Enqueue, AtQueue, HolderInv, TypeInv, TypeOK
  <2>4. Unfinished' = Unfinished \cup {j}
    <3>1. InFlight' = InFlight \cup {j}
      BY <1>2, <2>3, PlacesFrame DEF Enqueue, InFlight
    <3> QED BY <1>2, <3>1 DEF Enqueue, Unfinished, ToCount, collectorVars
  <2>5. j \notin Unfinished
    BY <1>0, <2>2 DEF HolderInv, Partition, CollectorsOK, Unfinished, ToCount, InFlight
  <2>6. IsFiniteSet(Uncounted') /\ Cardinality(Uncounted') = Cardinality(Uncounted) + 1
    BY <2>1, FS_AddElement DEF CountInv
  <2>6a. IsFiniteSet(Ungauged') /\ Cardinality(Ungauged') = Cardinality(Ungauged) + 1
    BY <2>1, FS_AddElement DEF CountInv
  <2>7. IsFiniteSet(Unfinished') /\ Cardinality(Unfinished') = Cardinality(Unfinished) + 1
    BY <2>4, <2>5, FS_AddElement DEF CountInv
  <2>8. QueueDepthExact'
    <3>1. UNCHANGED <<queueDepth, cpc>>
      BY <1>2 DEF Enqueue, consumerVars
    <3>2. QueueDepthExact
      BY DEF CountInv
    <3> QED BY <1>a, <2>3, <2>6a, <3>1, <3>2 DEF QueueDepthExact
  <2>9. CountersBalance'
    <3>1. UNCHANGED <<jobsQueued, jobsCompleted, jobsFailed>>
      BY <1>2 DEF Enqueue, counterVars
    <3> QED BY <1>a, <1>c, <2>6, <2>7, <3>1 DEF CountersBalance
  <2> QED BY <1>0, <2>6, <2>6a, <2>7, <2>8, <2>9 DEF CountInv
<1>3. ASSUME NEW j \in Jobs, CountQueued(j) PROVE CountInv'
  <2>1. j \in Uncounted /\ Uncounted' = Uncounted \ {j} /\ UNCHANGED Ungauged
    BY <1>0, <1>3 DEF CountQueued, Uncounted, Ungauged, HolderInv, TypeInv, TypeOK
  <2>2. IsFiniteSet(Uncounted') /\ Cardinality(Uncounted') = Cardinality(Uncounted) - 1
    BY <2>1, FS_RemoveElement DEF CountInv
  <2>3. UNCHANGED Unfinished
    BY <1>3, <1>d, PlacesFrame DEF CountQueued, InFlight, collectorVars
  <2>4. QueueDepthExact'
    BY <1>3, <2>1 DEF CountInv, QueueDepthExact, CountQueued, consumerVars
  <2>5. CountersBalance'
    BY <1>a, <1>c, <1>3, <2>2, <2>3 DEF CountersBalance, CountQueued
  <2>6. IsFiniteSet(Ungauged') /\ IsFiniteSet(Unfinished')
    BY <2>1, <2>3 DEF CountInv
  <2> QED BY <1>0, <2>2, <2>4, <2>5, <2>6 DEF CountInv
<1>3a. ASSUME NEW j \in Jobs, Accept(j) PROVE CountInv'
  <2>1. j \in Ungauged /\ Ungauged' = Ungauged \ {j} /\ UNCHANGED Uncounted
    BY <1>0, <1>3a DEF Accept, Uncounted, Ungauged, HolderInv, TypeInv, TypeOK
  <2>2. IsFiniteSet(Ungauged') /\ Cardinality(Ungauged') = Cardinality(Ungauged) - 1
    BY <2>1, FS_RemoveElement DEF CountInv
  <2>3. UNCHANGED Unfinished
    BY <1>3a, <1>d, PlacesFrame DEF Accept, InFlight, collectorVars
  <2>4. QueueDepthExact'
    <3>1. queueDepth' = queueDepth + 1 /\ UNCHANGED <<queue, cpc>>
      BY <1>3a DEF Accept, consumerVars
    <3>2. QueueDepthExact
      BY DEF CountInv
    <3> DEFINE u == Cardinality(Ungauged)   d == queueDepth   n == Len(queue)
               h == IF cpc = "decrement" THEN 1 ELSE 0
    <3>3. u \in Int /\ d \in Int /\ n \in Int /\ h \in Int
      BY <1>a
    <3>4. d = n + h - u
      BY <3>2 DEF QueueDepthExact
    <3>5. queueDepth' = d + 1 /\ Len(queue') = n /\ Cardinality(Ungauged') = u - 1
      BY <2>2, <3>1
    <3>6. (IF cpc' = "decrement" THEN 1 ELSE 0) = h
      BY <3>1
    <3> HIDE DEF u, d, n, h
    <3>7. d + 1 = n + h - (u - 1)
      BY <3>3, <3>4
    <3> QED BY <3>5, <3>6, <3>7, Zenon DEF QueueDepthExact
  <2>5. CountersBalance'
    BY <1>c, <1>3a, <2>1, <2>3 DEF CountersBalance, Accept, counterVars
  <2>6. IsFiniteSet(Uncounted') /\ IsFiniteSet(Unfinished')
    BY <2>1, <2>3 DEF CountInv
  <2> QED BY <1>0, <2>2, <2>4, <2>5, <2>6 DEF CountInv
<1>4. ASSUME Dequeue PROVE CountInv'
  <2>1. /\ Head(queue) \in AtQueue /\ Head(queue) \in Jobs /\ AtQueue' = AtQueue \ {Head(queue)}
        /\ Len(queue') = Len(queue) - 1
    BY <1>0, <1>4, TailRange DEF Dequeue, AtQueue, HolderInv, TypeInv, TypeOK
  <2>2. AtConsumer = {} /\ AtConsumer' = {Head(queue)}
    BY <1>4, <2>1 DEF Dequeue, AtConsumer
  <2>3. UNCHANGED Unfinished
    BY <1>4, <2>1, <2>2, <1>d, PlacesFrame DEF Dequeue, InFlight, collectorVars
  <2> QED BY <1>0, <1>a, <1>b, <1>4, <2>1, <2>3, CountFrame DEF Dequeue
<1>5. ASSUME ConsumerReturn \/ Decrement PROVE CountInv'
  <2>1. UNCHANGED AtConsumer
    BY <1>5 DEF ConsumerReturn, Decrement, AtConsumer
  <2>2. UNCHANGED Unfinished
    BY <1>5, <2>1, <1>d, PlacesFrame DEF ConsumerReturn, Decrement, InFlight, collectorVars
  <2> QED BY <1>0, <1>a, <1>b, <1>5, <2>2, CountFrame DEF ConsumerReturn, Decrement
<1>6. ASSUME Submit PROVE CountInv'
  <2>1. cjob \in Jobs /\ AtConsumer = {cjob} /\ AtConsumer' = {}
    BY <1>0, <1>6 DEF Submit, AtConsumer, HolderInv, TypeInv, HandsOK
  <2>2. AtPool' = AtPool \cup {cjob}
    BY <1>0, <1>6, <2>1, AppendRange DEF Submit, AtPool, HolderInv, TypeInv, TypeOK
  <2>3. UNCHANGED Unfinished
    BY <1>6, <2>1, <2>2, <1>d, PlacesFrame DEF Submit, InFlight, collectorVars
  <2> QED BY <1>0, <1>a, <1>b, <1>6, <2>3, CountFrame DEF Submit
<1>7. ASSUME Spawn PROVE CountInv'
  <2>1. UNCHANGED AtConsumer
    BY <1>7 DEF Spawn, AtConsumer
  <2>2. UNCHANGED InFlight
    BY <1>7, <2>1, PlacesFrame DEF Spawn, InFlight
  <2>3. cjob \in Jobs /\ collector[cjob] = "none"
    BY <1>0, <1>7 DEF Spawn, HolderInv, TypeInv, HandsOK, CollectorsOK
  <2>4. UNCHANGED ToCount
    BY <1>0, <1>7, <2>3 DEF Spawn, ToCount, HolderInv, TypeInv, TypeOK
  <2>5. UNCHANGED Unfinished
    BY <2>2, <2>4 DEF Unfinished
  <2> QED BY <1>0, <1>a, <1>b, <1>7, <2>5, CountFrame DEF Spawn
<1>8. ASSUME NEW w \in Workers, TakeItem(w) PROVE CountInv'
  <2>1. Head(pool) \in Jobs /\ Head(pool) \in AtPool /\ AtPool' = AtPool \ {Head(pool)}
    BY <1>0, <1>8, TailRange DEF TakeItem, AtPool, HolderInv, TypeInv, TypeOK
  <2>2. AtWorker' = AtWorker \cup {Head(pool)}
    BY <1>0, <1>8, <2>1 DEF TakeItem, AtWorker, HolderInv, TypeInv, TypeOK
  <2>3. UNCHANGED Unfinished
    BY <1>8, <2>1, <2>2, <1>d, PlacesFrame DEF TakeItem, InFlight, collectorVars
  <2> QED BY <1>0, <1>a, <1>b, <1>8, <2>3, CountFrame DEF TakeItem, consumerVars
<1>9. ASSUME NEW w \in Workers, WorkerReturn(w) PROVE CountInv'
  <2>1. UNCHANGED AtWorker
    BY <1>0, <1>9 DEF WorkerReturn, AtWorker, HolderInv, TypeInv, TypeOK
  <2>2. UNCHANGED Unfinished
    BY <1>9, <2>1, <1>d, PlacesFrame DEF WorkerReturn, InFlight, collectorVars
  <2> QED BY <1>0, <1>a, <1>b, <1>9, <2>2, CountFrame DEF WorkerReturn, consumerVars
<1>10. ASSUME NEW w \in Workers, FinishRun(w) PROVE CountInv'
  <2>1. wjob[w] \in Jobs /\ wjob[w] \in AtWorker
    BY <1>0, <1>10 DEF FinishRun, AtWorker, HolderInv, TypeInv, HandsOK
  <2>2. AtWorker' = AtWorker \ {wjob[w]}
    BY <1>0, <1>10, <2>1 DEF FinishRun, AtWorker, HolderInv, WorkersApart, TypeInv, TypeOK
  <2>3. AtChannel' = AtChannel \cup {wjob[w]}
    BY <1>0, <1>10, <2>1 DEF FinishRun, AtChannel, Outcomes, HolderInv, TypeInv, TypeOK
  <2>4. UNCHANGED Unfinished
    BY <1>10, <2>1, <2>2, <2>3, <1>d, PlacesFrame DEF FinishRun, InFlight, collectorVars
  <2> QED BY <1>0, <1>a, <1>b, <1>10, <2>4, CountFrame DEF FinishRun, consumerVars
<1>11. ASSUME NEW j \in Jobs, CollectorReceive(j) PROVE CountInv'
  <2>1. j \in AtChannel /\ AtChannel' = AtChannel \ {j}
    BY <1>0, <1>11 DEF CollectorReceive, AtChannel, HolderInv, TypeInv, TypeOK
  <2>2. ToCount' = ToCount \cup {j}
    BY <1>0, <1>11 DEF CollectorReceive, ToCount, HolderInv, TypeInv, TypeOK
  <2>3. UNCHANGED <<AtQueue, AtConsumer, AtPool, AtWorker>>
    BY <1>11, PlacesFrame DEF CollectorReceive
  <2>4. UNCHANGED Unfinished
    BY <2>1, <2>2, <2>3 DEF Unfinished, InFlight
  <2> QED BY <1>0, <1>a, <1>b, <1>11, <2>4, CountFrame DEF CollectorReceive, consumerVars
<1>11a. ASSUME NEW j \in Jobs, CollectorCount(j) PROVE CountInv'
  <2>1. j \in ToCount /\ ToCount' = ToCount \ {j}
    BY <1>0, <1>11a DEF CollectorCount, ToCount, HolderInv, TypeInv, TypeOK
  <2>2. UNCHANGED InFlight
    BY <1>11a, PlacesFrame DEF CollectorCount, InFlight
  <2>3. j \in AtCollector
    BY <1>0, <2>1 DEF HolderInv, CollectorsOK, ToCount
  <2>4. j \notin InFlight
    BY <1>0, <2>3 DEF HolderInv, Partition, InFlight
  <2>5. j \in Unfinished /\ Unfinished' = Unfinished \ {j}
    BY <2>1, <2>2, <2>4 DEF Unfinished
  <2>6. IsFiniteSet(Unfinished') /\ Cardinality(Unfinished') = Cardinality(Unfinished) - 1
    BY <2>5, FS_RemoveElement DEF CountInv
  <2>7. UNCHANGED <<Uncounted, Ungauged>>
    BY <1>b, <1>11a DEF CollectorCount
  <2>8. jobsCompleted' + jobsFailed' = jobsCompleted + jobsFailed + 1 /\ UNCHANGED jobsQueued
    BY <1>a, <1>11a DEF CollectorCount
  <2>9. jobsCompleted' \in Nat /\ jobsFailed' \in Nat
    BY <1>0 DEF HolderInv, TypeInv, TypeOK
  <2>10. CountersBalance'
    <3>1. jobsQueued' + Cardinality(Uncounted') = jobsCompleted + jobsFailed + Cardinality(Unfinished)
      BY <1>c, <2>7, <2>8 DEF CountersBalance
    <3>2. jobsCompleted' + jobsFailed' + Cardinality(Unfinished') =
          jobsCompleted + jobsFailed + 1 + (Cardinality(Unfinished) - 1)
      BY <2>6, <2>8
    <3>3. jobsQueued' + Cardinality(Uncounted') =
          jobsCompleted' + jobsFailed' + Cardinality(Unfinished')
      BY <1>a, <3>1, <3>2
    <3> QED BY <3>3 DEF CountersBalance
  <2>11. QueueDepthExact'
    BY <1>11a, <2>7 DEF CollectorCount, CountInv, QueueDepthExact, consumerVars
  <2>12. IsFiniteSet(Uncounted') /\ IsFiniteSet(Ungauged')
    BY <2>7 DEF CountInv
  <2> QED BY <1>0, <2>6, <2>10, <2>11, <2>12 DEF CountInv
<1>12. ASSUME UNCHANGED <<handler, queue, consumerVars, pool, workerVars, resultCh, queueDepth,
                          counterVars, ToCount>>
       PROVE  CountInv'
  <2>1. UNCHANGED Unfinished
    BY <1>12, PlacesFrame DEF Unfinished, InFlight
  <2> QED BY <1>0, <1>a, <1>b, <1>12, <2>1, CountFrame DEF consumerVars
<1>13. ASSUME NEW j \in Jobs, CollectorStore(j) PROVE CountInv'
  <2>1. UNCHANGED ToCount
    BY <1>0, <1>13 DEF CollectorStore, ToCount, HolderInv, TypeInv, TypeOK
  <2> QED BY <1>12, <1>13, <2>1 DEF CollectorStore
<1>14. CASE SubmitPanics \/ MainStep \/ Signal \/ ServeFails \/ UNCHANGED vars
  BY <1>12, <1>14 DEF SubmitPanics, MainStep, ShutdownIdle, ShutdownTimeout, Cancel, ClosePool,
     WaitDone, Signal, ServeFails, vars, mainFrame, collectorVars, ToCount
<1> QED
  BY <1>1, <1>2, <1>3, <1>3a, <1>4, <1>5, <1>6, <1>7, <1>8, <1>9, <1>10, <1>11, <1>11a, <1>13,
     <1>14
  DEF Next, HandlerStep, ConsumerStep, WorkerStep, CollectorStep, Terminated

LEMMA CountInvariant == Spec => []CountInv
<1>1. CountInv /\ UNCHANGED vars => CountInv'
  BY CountNext
<1> QED BY CountInit, CountNext, PTL DEF Spec

(* The queue_depth gauge never drifts from the queue. *)
THEOREM DepthExact == Spec => []QueueDepthExact
  BY CountInvariant, PTL DEF CountInv

(* Every job that was queued is counted as finished, or is in flight, or is *)
(* between its collector's receive and its count.                           *)
THEOREM CountersExact == Spec => []CountersBalance
  BY CountInvariant, PTL DEF CountInv
=============================================================================
