------------------------- MODULE GatewayPartsProofs -------------------------
(***************************************************************************)
(* Proofs about the parts of the api-gateway that stand for themselves: the*)
(* rate limiter, the WebSocket hub and the SSE broker.                     *)
(***************************************************************************)
EXTENDS RateLimiter, Hub, SSEBroker, TLAPS

-----------------------------------------------------------------------------
(***************************************************************************)
(* RateLimiter, for any connections, rate, burst and purge age that        *)
(* RateAssumption allows, and any bound of the clock.                      *)
(***************************************************************************)

LEMMA KeyOfConn == \A c \in Conns : ClientIP(c) \in Keys
  BY DEF Keys

(* What the refill makes of a bucket. *)
LEMMA RefilledBounds ==
    ASSUME LimiterTypeOK, NEW k \in DOMAIN buckets
    PROVE  /\ Refilled(k) \in 0 .. Capacity
           /\ Refilled(k) = Capacity \/ Refilled(k) = buckets[k].tokens + (now - buckets[k].lastSeen)
           /\ Refilled(k) <= buckets[k].tokens + (now - buckets[k].lastSeen)
  BY RateAssumption DEF LimiterTypeOK, Refilled

LEMMA LimiterTypeInit == LimiterInit => LimiterTypeOK
  BY RateAssumption DEF LimiterInit, LimiterTypeOK

LEMMA LimiterTypeNext == LimiterTypeOK /\ [LimiterNext]_limiterVars => LimiterTypeOK'
<1> SUFFICES ASSUME LimiterTypeOK, [LimiterNext]_limiterVars PROVE LimiterTypeOK'
  OBVIOUS
<1>0. ASSUME NEW c \in Conns, NEW t \in 0 .. Capacity,
             buckets' = WithBucket(ClientIP(c), t), UNCHANGED now
      PROVE  /\ DOMAIN buckets' \subseteq Keys
             /\ \A k \in DOMAIN buckets' :
                    buckets'[k].tokens \in 0 .. Capacity /\ buckets'[k].lastSeen \in 0 .. now'
  <2>1. /\ ClientIP(c) \in Keys /\ DOMAIN buckets' = DOMAIN buckets \cup {ClientIP(c)}
        /\ buckets'[ClientIP(c)] = [tokens |-> t, lastSeen |-> now]
        /\ \A x \in DOMAIN buckets \ {ClientIP(c)} : buckets'[x] = buckets[x]
    BY <1>0, KeyOfConn DEF WithBucket
  <2>2. now \in 0 .. now /\ now' = now
    BY <1>0 DEF LimiterTypeOK
  <2>3. ASSUME NEW k \in DOMAIN buckets'
        PROVE  buckets'[k].tokens \in 0 .. Capacity /\ buckets'[k].lastSeen \in 0 .. now'
    <3>1. CASE k = ClientIP(c)
      BY <2>1, <2>2, <3>1
    <3>2. CASE k # ClientIP(c)
      BY <2>1, <2>2, <2>3, <3>2 DEF LimiterTypeOK
    <3> QED BY <3>1, <3>2
  <2> QED BY <2>1, <2>3 DEF LimiterTypeOK
<1>1. ASSUME NEW c \in Conns, Grant(c)
      PROVE  granted' \in [Keys -> Nat]
  BY <1>1, KeyOfConn, RateAssumption DEF Grant, LimiterTypeOK
<1>2. ASSUME NEW c \in Conns, AllowFirst(c) PROVE LimiterTypeOK'
  <2>1. Capacity - Token \in 0 .. Capacity
    BY RateAssumption
  <2> QED BY <1>0, <1>1, <1>2, <2>1 DEF AllowFirst, Grant, LimiterTypeOK
<1>3. ASSUME NEW c \in Conns, Allow(c) PROVE LimiterTypeOK'
  <2>1. Refilled(ClientIP(c)) - Token \in 0 .. Capacity
    BY <1>3, RefilledBounds, RateAssumption DEF Allow
  <2>2. steady' \subseteq Keys
    BY <1>3 DEF Allow, Paced, LimiterTypeOK
  <2> QED BY <1>0, <1>1, <1>3, <2>1, <2>2 DEF Allow, Grant, LimiterTypeOK
<1>4. ASSUME NEW c \in Conns, Refuse(c) PROVE LimiterTypeOK'
  <2>1. Refilled(ClientIP(c)) \in 0 .. Capacity
    BY <1>4, RefilledBounds DEF Refuse
  <2>2. steady' \subseteq Keys /\ refused' \subseteq Keys
    BY <1>4, KeyOfConn DEF Refuse, Paced, LimiterTypeOK
  <2> QED BY <1>0, <1>4, <2>1, <2>2 DEF Refuse, LimiterTypeOK
<1>5. ASSUME Purge PROVE LimiterTypeOK'
  BY <1>5 DEF Purge, LimiterTypeOK, observerVars
<1>6. ASSUME Tick PROVE LimiterTypeOK'
  BY <1>6, RateAssumption DEF Tick, LimiterTypeOK, observerVars
<1>7. ASSUME Observe PROVE LimiterTypeOK'
  BY <1>7, RateAssumption DEF Observe, LimiterTypeOK
<1>8. CASE UNCHANGED limiterVars
  BY <1>8 DEF limiterVars, observerVars, LimiterTypeOK
<1> QED BY <1>2, <1>3, <1>4, <1>5, <1>6, <1>7, <1>8 DEF LimiterNext

(* The variables keep their types: no bucket is overfull or overdrawn. *)
THEOREM LimiterTypeCorrect == LimiterSpec => []LimiterTypeOK
<1>1. LimiterTypeOK /\ UNCHANGED limiterVars => LimiterTypeOK'
  BY LimiterTypeNext
<1> QED BY LimiterTypeInit, LimiterTypeNext, PTL DEF LimiterSpec

-----------------------------------------------------------------------------
(***************************************************************************)
(* Why the rate is bounded.  What a key was granted in the interval and    *)
(* what its bucket would hold if it were looked at now never exceed        *)
(* together the burst and the yield of the interval; a key without a       *)
(* bucket has the whole burst at its disposal.                             *)
(***************************************************************************)
Level(k) == IF k \in DOMAIN buckets THEN Refilled(k) ELSE Capacity

LevelBounded == \A k \in Keys : granted[k] + Level(k) <= Capacity + (now - start)

LEMMA LevelType == LimiterTypeOK => \A k \in Keys : Level(k) \in 0 .. Capacity
  BY RefilledBounds, RateAssumption DEF Level

LEMMA LevelInit == LimiterInit => LevelBounded
  BY RateAssumption DEF LimiterInit, LevelBounded, Level

LEMMA LevelNext == LimiterTypeOK /\ LevelBounded /\ [LimiterNext]_limiterVars => LevelBounded'
<1> SUFFICES ASSUME LimiterTypeOK, LevelBounded, [LimiterNext]_limiterVars PROVE LevelBounded'
  OBVIOUS
(* A bucket that is written now holds what was written. *)
<1>1. ASSUME NEW c \in Conns, NEW t \in 0 .. Capacity,
             buckets' = WithBucket(ClientIP(c), t), UNCHANGED now
      PROVE  /\ Level(ClientIP(c))' = t
             /\ \A k \in Keys \ {ClientIP(c)} : Level(k)' = Level(k)
  <2>1. /\ ClientIP(c) \in Keys /\ DOMAIN buckets' = DOMAIN buckets \cup {ClientIP(c)}
        /\ buckets'[ClientIP(c)] = [tokens |-> t, lastSeen |-> now]
        /\ \A x \in DOMAIN buckets \ {ClientIP(c)} : buckets'[x] = buckets[x]
    BY <1>1, KeyOfConn DEF WithBucket
  <2>2. Level(ClientIP(c))' = t
    BY <1>1, <2>1, RateAssumption DEF Level, Refilled, LimiterTypeOK
  <2>3. ASSUME NEW k \in Keys \ {ClientIP(c)} PROVE Level(k)' = Level(k)
    BY <1>1, <2>1, <2>3 DEF Level, Refilled
  <2> QED BY <2>2, <2>3
<1>2. ASSUME NEW c \in Conns, AllowFirst(c) \/ Allow(c) PROVE LevelBounded'
  <2> DEFINE k == ClientIP(c)
  <2>1. Level(k) \in Nat /\ Level(k) - Token \in 0 .. Capacity
    BY <1>2, LevelType, KeyOfConn, RateAssumption DEF AllowFirst, Allow, Level
  <2>2. /\ buckets' = WithBucket(k, Level(k) - Token) /\ UNCHANGED <<now, start>>
        /\ granted' = [granted EXCEPT ![k] = @ + Token]
    BY <1>2 DEF AllowFirst, Allow, Grant, Level
  <2>3. Level(k)' = Level(k) - Token /\ \A x \in Keys \ {k} : Level(x)' = Level(x)
    BY <1>1, <2>1, <2>2
  <2>4. k \in Keys /\ granted[k] + Level(k) <= Capacity + (now - start)
    BY KeyOfConn DEF LevelBounded
  <2>5. granted'[k] + Level(k)' <= Capacity + (now' - start')
    <3>1. granted[k] \in Nat /\ granted'[k] = granted[k] + Token
      BY <2>2, <2>4 DEF LimiterTypeOK
    <3>2. now \in Int /\ start \in Int /\ now' = now /\ start' = start
      BY <2>2 DEF LimiterTypeOK
    <3>3. granted[k] + Token + (Level(k) - Token) <= Capacity + (now - start)
      BY <2>1, <2>4, <3>1, <3>2, RateAssumption
    <3> QED BY <2>3, <3>1, <3>2, <3>3
  <2>6. ASSUME NEW x \in Keys \ {k} PROVE granted'[x] + Level(x)' <= Capacity + (now' - start')
    BY <2>2, <2>3, <2>6 DEF LevelBounded, LimiterTypeOK
  <2> QED BY <2>5, <2>6 DEF LevelBounded
<1>3. ASSUME NEW c \in Conns, Refuse(c) PROVE LevelBounded'
  <2> DEFINE k == ClientIP(c)
  <2>1. k \in Keys /\ Level(k) \in 0 .. Capacity
    BY LevelType, KeyOfConn
  <2>2. buckets' = WithBucket(k, Level(k)) /\ UNCHANGED <<now, start, granted>>
    BY <1>3 DEF Refuse, Level
  <2>3. \A x \in Keys : Level(x)' = Level(x)
    BY <1>1, <2>1, <2>2
  <2> QED BY <2>2, <2>3 DEF LevelBounded
<1>4. ASSUME Purge PROVE LevelBounded'
  <2>1. ASSUME NEW k \in Keys PROVE Level(k)' = Level(k)
    <3>1. CASE k \in DOMAIN buckets /\ buckets[k].lastSeen < now - PurgeAge
      <4>1. Refilled(k) = Capacity
        BY <3>1, RateAssumption DEF LimiterTypeOK, Refilled
      <4>2. k \notin DOMAIN buckets'
        BY <1>4, <3>1, RateAssumption DEF Purge, LimiterTypeOK
      <4> QED BY <3>1, <4>1, <4>2 DEF Level
    <3>2. CASE k \in DOMAIN buckets /\ buckets[k].lastSeen >= now - PurgeAge
      BY <1>4, <3>2 DEF Purge, Level, Refilled, LimiterTypeOK
    <3>3. CASE k \notin DOMAIN buckets
      BY <1>4, <3>3 DEF Purge, Level
    <3> QED BY <3>1, <3>2, <3>3, RateAssumption DEF LimiterTypeOK
  <2> QED BY <1>4, <2>1 DEF Purge, LevelBounded, observerVars
<1>5. ASSUME Tick PROVE LevelBounded'
  <2>1. ASSUME NEW k \in Keys PROVE Level(k)' <= Level(k) + 1
    BY <1>5, RateAssumption DEF Tick, Level, Refilled, LimiterTypeOK
  <2>2. \A k \in Keys : Level(k) \in Nat /\ Level(k)' \in Nat /\ granted[k] \in Nat
    BY <1>5, RateAssumption DEF Tick, LimiterTypeOK, Level, Refilled
  <2>3. /\ now \in Int /\ start \in Int
        /\ now' = now + 1 /\ start' = start /\ granted' = granted
    BY <1>5 DEF Tick, observerVars, LimiterTypeOK
  <2>4. ASSUME NEW k \in Keys PROVE granted'[k] + Level(k)' <= Capacity + (now' - start')
    <3>1. granted[k] + Level(k) <= Capacity + (now - start)
      BY DEF LevelBounded
    <3> QED BY <2>1, <2>2, <2>3, <3>1, RateAssumption
  <2> QED BY <2>4 DEF LevelBounded
<1>6. ASSUME Observe PROVE LevelBounded'
  <2>1. \A k \in Keys : Level(k)' = Level(k) /\ Level(k) \in 0 .. Capacity
    BY <1>6, LevelType DEF Observe, Level, Refilled
  <2>2. start' = now' /\ now' \in Nat /\ \A k \in Keys : granted'[k] = 0
    BY <1>6 DEF Observe, LimiterTypeOK
  <2> QED BY <2>1, <2>2, RateAssumption DEF LevelBounded
<1>7. CASE UNCHANGED limiterVars
  BY <1>7 DEF limiterVars, observerVars, LevelBounded, Level, Refilled
<1> QED BY <1>2, <1>3, <1>4, <1>5, <1>6, <1>7 DEF LimiterNext

(* Every interval's grants stay within burst and rate, purges included. *)
THEOREM RateIsBounded == LimiterSpec => []RateBounded
<1>1. LimiterTypeOK /\ LevelBounded => RateBounded
  <2> SUFFICES ASSUME LimiterTypeOK, LevelBounded, NEW k \in Keys
               PROVE  granted[k] <= Capacity + (now - start)
    BY DEF RateBounded
  <2>1. granted[k] + Level(k) <= Capacity + (now - start) /\ Level(k) \in Nat
    BY LevelType DEF LevelBounded
  <2> QED BY <2>1, RateAssumption DEF LimiterTypeOK
<1>2. LevelBounded /\ LimiterTypeOK /\ UNCHANGED limiterVars => LevelBounded'
  BY LevelNext
<1> QED BY <1>1, LevelInit, LevelNext, LimiterTypeCorrect, PTL DEF LimiterSpec

-----------------------------------------------------------------------------
LEMMA SteadyNext == LimiterTypeOK /\ SteadyNeverRefused /\ [LimiterNext]_limiterVars => SteadyNeverRefused'
<1> SUFFICES ASSUME LimiterTypeOK, SteadyNeverRefused, [LimiterNext]_limiterVars PROVE SteadyNeverRefused'
  OBVIOUS
<1>1. ASSUME NEW c \in Conns, Refuse(c) PROVE SteadyNeverRefused'
  <2>1. now - buckets[ClientIP(c)].lastSeen < Token
    BY <1>1, RateAssumption DEF Refuse, Refilled, LimiterTypeOK
  <2>2. steady' = steady \ {ClientIP(c)} /\ refused' = refused \cup {ClientIP(c)}
    BY <1>1, <2>1 DEF Refuse, Paced
  <2> QED BY <2>2 DEF SteadyNeverRefused
<1>2. ASSUME steady' \subseteq steady, UNCHANGED refused PROVE SteadyNeverRefused'
  BY <1>2 DEF SteadyNeverRefused
<1>3. ASSUME NEW c \in Conns, AllowFirst(c) \/ Allow(c) PROVE SteadyNeverRefused'
  BY <1>2, <1>3 DEF AllowFirst, Allow, Grant, Paced
<1>4. CASE Purge \/ Tick \/ Observe \/ UNCHANGED limiterVars
  BY <1>2, <1>4 DEF Purge, Tick, Observe, limiterVars, observerVars
<1> QED BY <1>1, <1>3, <1>4 DEF LimiterNext

(* A key that paces its requests is never refused one. *)
THEOREM SteadyIsServed == LimiterSpec => []SteadyNeverRefused
<1>1. LimiterInit => SteadyNeverRefused
  BY DEF LimiterInit, SteadyNeverRefused
<1>2. SteadyNeverRefused /\ LimiterTypeOK /\ UNCHANGED limiterVars => SteadyNeverRefused'
  BY SteadyNext
<1> QED BY <1>1, SteadyNext, LimiterTypeCorrect, PTL DEF LimiterSpec

-----------------------------------------------------------------------------
(***************************************************************************)
(* Hub, for any set of clients, any capacities and any number of events.   *)
(***************************************************************************)

(* The range loop has an event to hand out. *)
HasEvent == hpc = "fanout" => event \in Events

LEMMA TypeInit == Init => TypeOK /\ HasEvent
  BY CapAssumption DEF Init, TypeOK, HasEvent

LEMMA EventNext == TypeOK /\ HasEvent /\ [Next]_vars => HasEvent'
<1> SUFFICES ASSUME TypeOK, HasEvent, [Next]_vars PROVE HasEvent'
  OBVIOUS
<1>1. ASSUME TakeEvent PROVE HasEvent'
  BY <1>1 DEF TakeEvent, TypeOK, HasEvent
<1>2. ASSUME hpc' = "fanout" => hpc = "fanout", UNCHANGED event PROVE HasEvent'
  BY <1>2 DEF HasEvent
<1>3. ASSUME NEW c \in Clients, ClientStep(c) PROVE HasEvent'
  BY <1>2, <1>3 DEF ClientStep, Upgrade, Register, StartPumps, Unregister, WriteEvent, WriteClose,
     PingFails, ReadFails, CloseConn, hubVars
<1>4. ASSUME NEW c \in Clients, HandOut(c) PROVE HasEvent'
  BY <1>2, <1>4 DEF HandOut
<1>5. CASE Broadcast \/ FanoutDone \/ UNCHANGED vars
  BY <1>2, <1>5 DEF Broadcast, FanoutDone, vars, hubVars
<1> QED BY <1>1, <1>3, <1>4, <1>5 DEF Next, HubStep, Finished

LEMMA TypeNext == TypeOK /\ HasEvent /\ [Next]_vars => TypeOK'
<1> SUFFICES ASSUME TypeOK, HasEvent, [Next]_vars PROVE TypeOK'
  OBVIOUS
<1>0. ASSUME NEW c \in Clients, HandOut(c) PROVE event \in Events
  BY <1>0 DEF HandOut, HasEvent
<1> USE CapAssumption DEF TypeOK
<1>1. ASSUME NEW c \in Clients, Upgrade(c) PROVE TypeOK'
  BY <1>1 DEF Upgrade, hubVars, pumpVars
<1>2. ASSUME NEW c \in Clients, Register(c) PROVE TypeOK'
  BY <1>2 DEF Register, pumpVars
<1>3. ASSUME NEW c \in Clients, StartPumps(c) PROVE TypeOK'
  BY <1>3 DEF StartPumps, hubVars
<1>4. ASSUME Broadcast PROVE TypeOK'
  <2>1. sent + 1 \in Events /\ sent' \in 0 .. MaxEvents
    BY <1>4 DEF Broadcast, Events
  <2>2. broadcast' \in Seq(Events) /\ Len(broadcast') <= BroadcastCap
    BY <1>4, <2>1 DEF Broadcast
  <2> QED BY <1>4, <2>1, <2>2 DEF Broadcast, pumpVars
<1>5. ASSUME TakeEvent PROVE TypeOK'
  <2>1. Head(broadcast) \in Events /\ broadcast' \in Seq(Events) /\ Len(broadcast') <= BroadcastCap
    BY <1>5 DEF TakeEvent
  <2>2. event' \in 0 .. MaxEvents
    BY <1>5, <2>1 DEF TakeEvent, Events
  <2> QED BY <1>5, <2>1, <2>2 DEF TakeEvent, pumpVars
<1>6. ASSUME NEW c \in Clients, HandOut(c), event \in Events PROVE TypeOK'
  <2>1. CASE Len(send[c]) < SendCap /\ send' = [send EXCEPT ![c] = Append(@, event)]
    <3>1. Append(send[c], event) \in Seq(Events) /\ Len(Append(send[c], event)) <= SendCap
      BY <1>6, <2>1
    <3>2. send' \in [Clients -> Seq(Events)] /\ \A d \in Clients : Len(send'[d]) <= SendCap
      BY <2>1, <3>1
    <3> QED BY <1>6, <3>2 DEF HandOut, pumpVars
  <2>2. CASE UNCHANGED send
    BY <1>6, <2>2 DEF HandOut, pumpVars
  <2> QED BY <1>6, <2>1, <2>2 DEF HandOut
<1>7. ASSUME FanoutDone PROVE TypeOK'
  BY <1>7 DEF FanoutDone, pumpVars
<1>8. ASSUME NEW c \in Clients, Unregister(c) PROVE TypeOK'
  BY <1>8 DEF Unregister
<1>9. ASSUME NEW c \in Clients, WriteEvent(c) PROVE TypeOK'
  <2>1. /\ Head(send[c]) \in Events /\ Tail(send[c]) \in Seq(Events)
        /\ Len(Tail(send[c])) <= SendCap
    BY <1>9 DEF WriteEvent
  <2>2. send' \in [Clients -> Seq(Events)] /\ \A d \in Clients : Len(send'[d]) <= SendCap
    <3>1. send' = [send EXCEPT ![c] = Tail(send[c])]
      BY <1>9 DEF WriteEvent
    <3> QED BY <2>1, <3>1
  <2>3. written' \in [Clients -> Seq(Events)]
    <3>1. Append(written[c], Head(send[c])) \in Seq(Events)
      BY <2>1
    <3>2. UNCHANGED written \/ written' = [written EXCEPT ![c] = Append(written[c], Head(send[c]))]
      BY <1>9 DEF WriteEvent
    <3> QED BY <3>1, <3>2
  <2> QED BY <1>9, <2>2, <2>3 DEF WriteEvent, WriterExits, hubVars
<1>10. ASSUME NEW c \in Clients, WriteClose(c) \/ PingFails(c) PROVE TypeOK'
  BY <1>10 DEF WriteClose, PingFails, WriterExits, hubVars
<1>11. ASSUME NEW c \in Clients, ReadFails(c) \/ CloseConn(c) PROVE TypeOK'
  BY <1>11 DEF ReadFails, CloseConn, hubVars
<1>12. CASE UNCHANGED vars
  BY <1>12 DEF vars, hubVars, pumpVars
<1> QED
  BY <1>0, <1>1, <1>2, <1>3, <1>4, <1>5, <1>6, <1>7, <1>8, <1>9, <1>10, <1>11, <1>12
  DEF Next, HubStep, ClientStep, Finished

(* The variables keep their types: no buffer outgrows its capacity. *)
THEOREM TypeCorrect == Spec => []TypeOK
<1>1. TypeOK /\ HasEvent /\ UNCHANGED vars => (TypeOK /\ HasEvent)'
  BY EventNext, TypeNext
<1> QED BY <1>1, TypeInit, EventNext, TypeNext, PTL DEF Spec

-----------------------------------------------------------------------------
(***************************************************************************)
(* Why the hub never panics.  Only Hub.Run closes channels, and it deletes *)
(* the client in the same case of its select; so being in the map means    *)
(* being open, and the range loop, which meets no other deletion while it  *)
(* runs, visits open channels only.  The invariant adds to RegistryExact   *)
(* how far a client must be for the hub to know it.                        *)
(***************************************************************************)
StagesOK ==
    /\ \A c \in Clients : serve[c] # "returned" => reader[c] = "none"
    /\ \A c \in Clients : serve[c] \in {"idle", "register"} => ~closed[c]
    /\ hpc = "select" => todo = {}

FunsOK ==
    /\ serve \in [Clients -> {"idle", "register", "start", "returned"}]
    /\ closed \in [Clients -> BOOLEAN]
    /\ reader \in [Clients -> {"none", "read", "unregister", "close", "exited"}]

HubInv == FunsOK /\ RegistryExact /\ StagesOK /\ NoPanic

LEMMA HubInit == Init => HubInv
  BY DEF Init, HubInv, FunsOK, RegistryExact, StagesOK, NoPanic

LEMMA HubNext == HubInv /\ [Next]_vars => HubInv'
<1> SUFFICES ASSUME HubInv, [Next]_vars PROVE HubInv'
  OBVIOUS
<1> USE DEF HubInv, FunsOK, RegistryExact, StagesOK, NoPanic
<1>1. ASSUME NEW c \in Clients, Upgrade(c) PROVE HubInv'
  BY <1>1 DEF Upgrade, hubVars, pumpVars
<1>2. ASSUME NEW c \in Clients, Register(c) PROVE HubInv'
  BY <1>2 DEF Register, pumpVars
<1>3. ASSUME NEW c \in Clients, StartPumps(c) PROVE HubInv'
  BY <1>3 DEF StartPumps, hubVars
<1>4. ASSUME Broadcast PROVE HubInv'
  BY <1>4 DEF Broadcast, pumpVars
<1>5. ASSUME TakeEvent PROVE HubInv'
  BY <1>5 DEF TakeEvent, pumpVars
<1>6. ASSUME NEW c \in Clients, HandOut(c) PROVE HubInv'
  <2>1. c \in clients /\ ~closed[c] /\ hpc' = hpc /\ UNCHANGED <<serve, reader>>
    BY <1>6 DEF HandOut, pumpVars
  <2>2. CASE UNCHANGED <<clients, closed>>
    BY <1>6, <2>1, <2>2 DEF HandOut
  <2>3. CASE closed' = [closed EXCEPT ![c] = TRUE] /\ clients' = clients \ {c}
    BY <1>6, <2>1, <2>3 DEF HandOut
  <2> QED BY <1>6, <2>2, <2>3 DEF HandOut
<1>7. ASSUME FanoutDone PROVE HubInv'
  BY <1>7 DEF FanoutDone, pumpVars
<1>8. ASSUME NEW c \in Clients, Unregister(c) PROVE HubInv'
  <2>1. /\ reader' = [reader EXCEPT ![c] = "close"] /\ reader[c] = "unregister"
        /\ todo = {} /\ UNCHANGED <<serve, todo>>
    BY <1>8 DEF Unregister
  <2>2. CASE c \in clients
    <3>1. ~closed[c] /\ clients' = clients \ {c} /\ closed' = [closed EXCEPT ![c] = TRUE] /\ hpc' = hpc
      BY <1>8, <2>2 DEF Unregister
    <3> QED BY <2>1, <3>1
  <2>3. CASE c \notin clients
    <3>1. UNCHANGED <<clients, closed, hpc>>
      BY <1>8, <2>3 DEF Unregister
    <3> QED BY <2>1, <3>1
  <2> QED BY <2>2, <2>3
<1>9. ASSUME NEW c \in Clients, ReadFails(c) \/ CloseConn(c) PROVE HubInv'
  BY <1>9 DEF ReadFails, CloseConn, hubVars
<1>10. ASSUME NEW c \in Clients, WriteEvent(c) \/ WriteClose(c) \/ PingFails(c) PROVE HubInv'
  BY <1>10 DEF WriteEvent, WriteClose, PingFails, hubVars
<1>11. CASE UNCHANGED vars
  BY <1>11 DEF vars, hubVars, pumpVars
<1> QED
  BY <1>1, <1>2, <1>3, <1>4, <1>5, <1>6, <1>7, <1>8, <1>9, <1>10, <1>11
  DEF Next, HubStep, ClientStep, Finished

LEMMA HubInvariant == Spec => []HubInv
<1>1. HubInv /\ UNCHANGED vars => HubInv'
  BY HubNext
<1> QED BY HubInit, HubNext, PTL DEF Spec

(* The gateway is never taken down by a close or a send of Hub.Run. *)
THEOREM NeverPanics == Spec => []NoPanic
  BY HubInvariant, PTL DEF HubInv

(* The map of clients is exactly the set of registered open clients. *)
THEOREM RegistryCorrect == Spec => []RegistryExact
  BY HubInvariant, PTL DEF HubInv
-----------------------------------------------------------------------------
(***************************************************************************)
(* Why no client skips an event.  The events in h.broadcast are the ones   *)
(* that follow the event Hub.Run took last.  What a registered client has  *)
(* got, written or buffered, therefore ends with that event, or with the   *)
(* one before it while the range loop has not reached the client; it never *)
(* grows otherwise, since only the range loop sends and a client that it   *)
(* cannot send to leaves the map.                                          *)
(***************************************************************************)
Chain(s) == \A i \in 1 .. Len(s) - 1 : s[i + 1] = s[i] + 1

Got(c) == written[c] \o (IF writer[c] = "exited" THEN <<>> ELSE send[c])

(* The last event the hub has handed to c, if it handed it any. *)
Handed(c) == IF c \in todo THEN event - 1 ELSE event

Numbered ==
    /\ event + Len(broadcast) = sent
    /\ \A i \in 1 .. Len(broadcast) : broadcast[i] = event + i

UpToDate(c) ==
    /\ Chain(Got(c))
    /\ serve[c] \in {"idle", "register"} => send[c] = <<>> /\ written[c] = <<>>
    /\ serve[c] # "returned" => writer[c] = "none"
    /\ c \in clients /\ writer[c] # "exited" /\ Got(c) # <<>> => Got(c)[Len(Got(c))] = Handed(c)

OrderInv == TypeOK /\ HasEvent /\ HubInv /\ Numbered /\ \A c \in Clients : UpToDate(c)

LEMMA ConcatEmpty == ASSUME NEW w \in Seq(Nat) PROVE w \o <<>> = w
  OBVIOUS

LEMMA ConcatMove ==
    ASSUME NEW w \in Seq(Nat), NEW s \in Seq(Nat), s # <<>>
    PROVE  Append(w, Head(s)) \o Tail(s) = w \o s
  OBVIOUS

LEMMA ConcatAppend ==
    ASSUME NEW w \in Seq(Nat), NEW s \in Seq(Nat), NEW e \in Nat
    PROVE  w \o Append(s, e) = Append(w \o s, e)
  OBVIOUS

LEMMA ChainAppend ==
    ASSUME NEW g \in Seq(Nat), NEW e \in Nat, Chain(g), g # <<>> => e = g[Len(g)] + 1
    PROVE  Chain(Append(g, e)) /\ Append(g, e)[Len(Append(g, e))] = e
  BY DEF Chain

LEMMA ChainPrefix ==
    ASSUME NEW w \in Seq(Nat), NEW s \in Seq(Nat), Chain(w \o s)
    PROVE  Chain(w)
<1> DEFINE g == w \o s
<1>1. /\ Len(w) \in Nat /\ Len(s) \in Nat /\ Len(g) = Len(w) + Len(s)
      /\ \A i \in 1 .. Len(w) : g[i] = w[i]
  OBVIOUS
<1>2. \A i \in 1 .. Len(g) - 1 : g[i + 1] = g[i] + 1
  BY DEF Chain
<1> HIDE DEF g
<1>3. ASSUME NEW i \in 1 .. Len(w) - 1 PROVE w[i + 1] = w[i] + 1
  <2>1. i \in 1 .. Len(w) /\ i + 1 \in 1 .. Len(w) /\ i \in 1 .. Len(g) - 1
    BY <1>1
  <2> QED BY <1>1, <1>2, <2>1
<1> QED BY <1>3 DEF Chain

LEMMA NumberedNext ==
    ASSUME TypeOK, Numbered, [Next]_vars PROVE Numbered'
<1>0. event \in Nat /\ sent \in Nat /\ Len(broadcast) \in Nat
  BY CapAssumption DEF TypeOK
<1>1. ASSUME Broadcast PROVE Numbered'
  <2>1. /\ Len(broadcast') = Len(broadcast) + 1 /\ broadcast'[Len(broadcast) + 1] = sent + 1
        /\ \A i \in 1 .. Len(broadcast) : broadcast'[i] = broadcast[i]
    BY <1>1 DEF Broadcast, TypeOK
  <2>2. sent' = sent + 1 /\ event' = event /\ event + Len(broadcast) = sent
    BY <1>1 DEF Broadcast, Numbered
  <2>3. ASSUME NEW i \in 1 .. Len(broadcast') PROVE broadcast'[i] = event' + i
    <3>1. CASE i = Len(broadcast) + 1
      BY <1>0, <2>1, <2>2, <3>1
    <3>2. CASE i \in 1 .. Len(broadcast)
      BY <2>1, <2>2, <3>2 DEF Numbered
    <3> QED BY <1>0, <2>1, <3>1, <3>2
  <2> QED BY <1>0, <2>1, <2>2, <2>3 DEF Numbered
<1>2. ASSUME TakeEvent PROVE Numbered'
  <2>1. /\ Len(broadcast') = Len(broadcast) - 1 /\ Len(broadcast) >= 1 /\ event' = broadcast[1]
        /\ \A i \in 1 .. Len(broadcast) - 1 : broadcast'[i] = broadcast[i + 1]
    BY <1>2 DEF TakeEvent, TypeOK
  <2>2. event' = event + 1 /\ sent' = sent
    BY <1>2, <2>1 DEF TakeEvent, TypeOK, Numbered
  <2>3. \A i \in 1 .. Len(broadcast') : broadcast'[i] = event' + i
    BY <1>0, <2>1, <2>2 DEF Numbered
  <2> QED BY <1>0, <2>1, <2>2, <2>3 DEF Numbered
<1>3. ASSUME UNCHANGED <<broadcast, sent, event>> PROVE Numbered'
  BY <1>3 DEF Numbered
<1>4. ASSUME NEW c \in Clients, ClientStep(c) PROVE UNCHANGED <<broadcast, sent, event>>
  BY <1>4 DEF ClientStep, Upgrade, Register, StartPumps, Unregister, WriteEvent, WriteClose,
     PingFails, ReadFails, CloseConn, hubVars
<1>5. ASSUME NEW c \in Clients, HandOut(c) PROVE UNCHANGED <<broadcast, sent, event>>
  BY <1>5 DEF HandOut
<1>6. CASE FanoutDone \/ UNCHANGED vars
  BY <1>3, <1>6 DEF FanoutDone, vars, hubVars
<1> QED BY <1>1, <1>2, <1>3, <1>4, <1>5, <1>6 DEF Next, HubStep, Finished
LEMMA SeqWider == ASSUME NEW S, NEW T, S \subseteq T, NEW s \in Seq(S) PROVE s \in Seq(T)
  OBVIOUS

LEMMA OrderNext == OrderInv /\ [Next]_vars => OrderInv'
<1> SUFFICES ASSUME OrderInv, [Next]_vars PROVE \A c \in Clients : UpToDate(c)'
  BY EventNext, TypeNext, HubNext, NumberedNext DEF OrderInv
<1>0. TypeOK /\ HasEvent /\ HubInv /\ Numbered /\ \A c \in Clients : UpToDate(c)
  BY DEF OrderInv
<1>a. \A c \in Clients : written[c] \in Seq(Nat) /\ send[c] \in Seq(Nat) /\ Got(c) \in Seq(Nat)
  <2>1. Events \subseteq Nat
    BY CapAssumption DEF Events
  <2>2. \A c \in Clients : written[c] \in Seq(Events) /\ send[c] \in Seq(Events)
    BY <1>0 DEF TypeOK
  <2>3. \A c \in Clients : written[c] \in Seq(Nat) /\ send[c] \in Seq(Nat)
    BY <2>1, <2>2, SeqWider
  <2> QED BY <2>3 DEF Got
<1>b. event \in Nat
  BY <1>0, CapAssumption DEF TypeOK
<1> DEFINE Early(c) == serve[c] \in {"idle", "register"}
           Goal == \A c \in Clients : UpToDate(c)'
(* What a client has got is not touched, and the hub hands out nothing. *)
<1>c. ASSUME NEW c \in Clients, UNCHANGED <<send[c], written[c], Got(c), Handed(c)>>,
             Early(c)' => Early(c), serve'[c] # "returned" => writer'[c] = "none",
             c \in clients' => c \in clients \/ Got(c) = <<>>,
             writer[c] = "exited" => writer'[c] = "exited"
      PROVE  UpToDate(c)'
  BY <1>0, <1>c DEF UpToDate
<1>1. ASSUME NEW c \in Clients, Upgrade(c) PROVE Goal
  <2>1. ASSUME NEW d \in Clients PROVE UpToDate(d)'
    <3>1. UNCHANGED <<written, send, writer, clients, event, todo>>
      BY <1>1 DEF Upgrade, hubVars, pumpVars
    <3>2. /\ serve'[d] \in {"idle", "register"} => serve[d] \in {"idle", "register"}
          /\ serve'[d] # "returned" => serve[d] # "returned"
      BY <1>0, <1>1 DEF Upgrade, TypeOK
    <3>3. Got(d)' = Got(d) /\ Handed(d)' = Handed(d)
      BY <3>1 DEF Got, Handed
    <3> QED BY <1>0, <1>c, <3>1, <3>2, <3>3 DEF UpToDate
  <2> QED BY <2>1
<1>2. ASSUME NEW c \in Clients, Register(c) PROVE Goal
  <2>1. ASSUME NEW d \in Clients PROVE UpToDate(d)'
    <3>1. UNCHANGED <<written, send, writer, event, todo>> /\ clients' = clients \cup {c}
      BY <1>2 DEF Register, pumpVars
    <3>2. /\ serve'[d] \in {"idle", "register"} => serve[d] \in {"idle", "register"}
          /\ serve'[d] # "returned" => serve[d] # "returned"
      BY <1>0, <1>2 DEF Register, TypeOK
    <3>3. Got(d)' = Got(d) /\ Handed(d)' = Handed(d)
      BY <3>1 DEF Got, Handed
    <3>4. ASSUME d = c PROVE Got(d) = <<>>
      <4>1. written[d] = <<>> /\ send[d] = <<>>
        BY <1>0, <1>2, <3>4 DEF Register, UpToDate
      <4> QED BY <4>1 DEF Got
    <3> QED BY <1>0, <1>c, <3>1, <3>2, <3>3, <3>4 DEF UpToDate
  <2> QED BY <2>1
<1>3. ASSUME NEW c \in Clients, StartPumps(c) PROVE Goal
  <2>1. ASSUME NEW d \in Clients PROVE UpToDate(d)'
    <3>1. UNCHANGED <<written, send, clients, event, todo>>
      BY <1>3 DEF StartPumps, hubVars
    <3>2. /\ serve'[d] \in {"idle", "register"} => serve[d] \in {"idle", "register"}
          /\ serve'[d] # "returned" => serve[d] # "returned" /\ d # c
      BY <1>0, <1>3 DEF StartPumps, TypeOK
    <3>3. writer'[d] = writer[d] \/ (writer'[d] = "run" /\ d = c /\ writer[d] = "none")
      BY <1>0, <1>3 DEF StartPumps, TypeOK, UpToDate
    <3>4. d # c => writer'[d] = writer[d]
      BY <1>0, <1>3 DEF StartPumps, TypeOK
    <3>5. Got(d)' = Got(d) /\ Handed(d)' = Handed(d)
      BY <3>1, <3>3 DEF Got, Handed
    <3> QED BY <1>0, <1>c, <3>1, <3>2, <3>3, <3>4, <3>5 DEF UpToDate
  <2> QED BY <2>1
<1>4. ASSUME NEW c \in Clients, Unregister(c) \/ ReadFails(c) \/ CloseConn(c) PROVE Goal
  <2>1. ASSUME NEW d \in Clients PROVE UpToDate(d)'
    <3>1. UNCHANGED <<written, send, writer, serve, event, todo>> /\ clients' \subseteq clients
      BY <1>4 DEF Unregister, ReadFails, CloseConn, hubVars
    <3>2. Got(d)' = Got(d) /\ Handed(d)' = Handed(d)
      BY <3>1 DEF Got, Handed
    <3> QED BY <1>0, <1>c, <3>1, <3>2 DEF UpToDate
  <2> QED BY <2>1
<1>5. CASE Broadcast \/ FanoutDone \/ UNCHANGED vars
  <2>1. ASSUME NEW d \in Clients PROVE UpToDate(d)'
    <3>1. UNCHANGED <<written, send, writer, serve, event, todo, clients>>
      BY <1>5 DEF Broadcast, FanoutDone, vars, hubVars, pumpVars
    <3>2. Got(d)' = Got(d) /\ Handed(d)' = Handed(d)
      BY <3>1 DEF Got, Handed
    <3> QED BY <1>0, <1>c, <3>1, <3>2 DEF UpToDate
  <2> QED BY <2>1
(* The next event is one more than the last one, which everybody has. *)
<1>6. ASSUME TakeEvent PROVE Goal
  <2>1. ASSUME NEW d \in Clients PROVE UpToDate(d)'
    <3>1. UNCHANGED <<written, send, writer, serve, clients>> /\ todo' = clients /\ todo = {}
      BY <1>0, <1>6 DEF TakeEvent, pumpVars, HubInv, StagesOK
    <3>2. event' = event + 1
      <4>1. Len(broadcast) >= 1 /\ Head(broadcast) = broadcast[1]
        BY <1>0, <1>6 DEF TakeEvent, TypeOK
      <4> QED BY <1>0, <1>6, <4>1 DEF TakeEvent, Numbered
    <3>3. d \in clients => Handed(d)' = Handed(d)
      BY <1>b, <3>1, <3>2 DEF Handed
    <3>4. Got(d)' = Got(d)
      BY <3>1 DEF Got
    <3> QED BY <1>0, <3>1, <3>3, <3>4 DEF UpToDate
  <2> QED BY <2>1
<1>7. ASSUME NEW c \in Clients, HandOut(c) PROVE Goal
  <2>0. c \in todo /\ todo' = todo \ {c} /\ UNCHANGED <<serve, event, writer, written>> /\ event \in Nat
    BY <1>7, <1>b DEF HandOut, pumpVars
  <2>1. c \in clients /\ ~Early(c)
    BY <1>0, <2>0 DEF HubInv, RegistryExact, StagesOK, FunsOK
  <2>2. ASSUME NEW d \in Clients, d # c PROVE UpToDate(d)'
    <3>1. send'[d] = send[d] /\ clients' \subseteq clients
      BY <1>0, <1>7, <2>2 DEF HandOut, TypeOK
    <3>2. Got(d)' = Got(d) /\ Handed(d)' = Handed(d)
      BY <2>0, <2>2, <3>1 DEF Got, Handed
    <3> QED BY <1>0, <1>c, <2>0, <3>1, <3>2 DEF UpToDate
  <2>3. CASE clients' = clients \ {c} /\ UNCHANGED send
    <3>1. Got(c)' = Got(c)
      BY <2>0, <2>3 DEF Got
    <3> QED BY <1>0, <2>0, <2>2, <2>3, <3>1 DEF UpToDate
  <2>4. CASE send' = [send EXCEPT ![c] = Append(@, event)]
    <3>1. send'[c] = Append(send[c], event)
      BY <1>0, <2>4 DEF TypeOK
    <3>2. Handed(c)' = event /\ Handed(c) = event - 1
      BY <2>0 DEF Handed
    <3>3. CASE writer[c] = "exited"
      <4>1. Got(c)' = Got(c)
        BY <2>0, <3>3 DEF Got
      <4> QED BY <1>0, <2>0, <2>1, <2>2, <3>3, <4>1 DEF UpToDate
    <3>4. CASE writer[c] # "exited"
      <4>1. Got(c)' = Append(Got(c), event)
        <5>1. Got(c) = written[c] \o send[c]
          BY <3>4 DEF Got
        <5>2. Got(c)' = written[c] \o Append(send[c], event)
          BY <2>0, <3>1, <3>4, Zenon DEF Got
        <5>3. written[c] \in Seq(Nat) /\ send[c] \in Seq(Nat)
          BY <1>a
        <5>4. written[c] \o Append(send[c], event) = Append(written[c] \o send[c], event)
          BY <2>0, <5>3, ConcatAppend, Zenon
        <5> QED BY <5>1, <5>2, <5>4, Zenon
      <4>2. Got(c) # <<>> => event = Got(c)[Len(Got(c))] + 1
        BY <1>0, <2>0, <2>1, <3>2, <3>4 DEF UpToDate
      <4>3. Chain(Got(c))
        BY <1>0 DEF UpToDate
      <4>4. Chain(Got(c)') /\ Got(c)'[Len(Got(c)')] = event
        BY <1>a, <2>0, <4>1, <4>2, <4>3, ChainAppend
      <4>5. UpToDate(c)'
        BY <1>0, <2>0, <2>1, <3>2, <4>4 DEF UpToDate
      <4> QED BY <2>2, <4>5
    <3> QED BY <3>3, <3>4
  <2> QED BY <1>7, <2>3, <2>4 DEF HandOut
<1>8. ASSUME NEW c \in Clients, WriteEvent(c) \/ WriteClose(c) \/ PingFails(c) PROVE Goal
  <2>0. UNCHANGED <<serve, clients, event, todo>> /\ writer[c] = "run"
    BY <1>8 DEF WriteEvent, WriteClose, PingFails, hubVars
  <2>1. serve[c] = "returned" /\ \A d \in Clients : Handed(d)' = Handed(d)
    BY <1>0, <2>0 DEF UpToDate, Handed
  <2>2. ASSUME NEW d \in Clients, d # c PROVE UpToDate(d)'
    <3>1. send'[d] = send[d] /\ written'[d] = written[d] /\ writer'[d] = writer[d]
      BY <1>0, <1>8, <2>2 DEF WriteEvent, WriteClose, PingFails, WriterExits, TypeOK
    <3>2. Got(d)' = Got(d)
      BY <3>1 DEF Got
    <3> QED BY <1>0, <1>c, <2>0, <2>1, <3>1, <3>2 DEF UpToDate
  <2>3. CASE WriterExits(c) /\ UNCHANGED written
    <3>1. writer'[c] = "exited"
      BY <1>0, <2>3 DEF WriterExits, TypeOK
    <3>2. Got(c)' = written[c] /\ Got(c) = written[c] \o send[c]
      BY <1>a, <2>0, <2>3, <3>1, ConcatEmpty DEF Got
    <3>3. Chain(Got(c)')
      BY <1>0, <1>a, <3>2, ChainPrefix DEF UpToDate
    <3> QED BY <2>0, <2>1, <2>2, <3>1, <3>3 DEF UpToDate
  <2>4. CASE /\ send[c] # <<>> /\ send' = [send EXCEPT ![c] = Tail(@)]
             /\ written' = [written EXCEPT ![c] = Append(@, Head(send[c]))] /\ UNCHANGED writer
    <3>1. send'[c] = Tail(send[c]) /\ written'[c] = Append(written[c], Head(send[c]))
      BY <1>0, <2>4 DEF TypeOK
    <3>2. Got(c)' = Got(c)
      <4>1. Got(c) = written[c] \o send[c] /\ Got(c)' = Append(written[c], Head(send[c])) \o Tail(send[c])
        BY <2>0, <2>4, <3>1 DEF Got
      <4>2. Append(written[c], Head(send[c])) \o Tail(send[c]) = written[c] \o send[c]
        BY <1>a, <2>4, ConcatMove
      <4> QED BY <4>1, <4>2
    <3> QED BY <1>0, <2>0, <2>1, <2>2, <2>4, <3>2 DEF UpToDate
  <2> QED BY <1>8, <2>3, <2>4 DEF WriteEvent, WriteClose, PingFails
<1> QED
  BY <1>1, <1>2, <1>3, <1>4, <1>5, <1>6, <1>7, <1>8 DEF Next, HubStep, ClientStep, Finished

(* Whatever is closed, full or slow, no client ever misses an event between *)
(* two that it gets, and none gets them out of order.                       *)
THEOREM EventsInOrder == Spec => []NoGaps
<1>1. Init => OrderInv
  <2> SUFFICES ASSUME Init PROVE Numbered /\ \A c \in Clients : UpToDate(c)
    BY TypeInit, HubInit DEF OrderInv
  <2>1. Numbered
    BY DEF Init, Numbered
  <2>2. ASSUME NEW c \in Clients PROVE UpToDate(c)
    <3>1. written[c] = <<>> /\ send[c] = <<>> /\ writer[c] = "none" /\ clients = {}
      BY DEF Init
    <3>2. Got(c) = <<>>
      BY <3>1 DEF Got
    <3> QED BY <3>1, <3>2 DEF UpToDate, Chain
  <2> QED BY <2>1, <2>2
<1>2. OrderInv => NoGaps
  BY DEF OrderInv, UpToDate, Got, Chain, NoGaps
<1> QED BY <1>1, <1>2, OrderNext, PTL DEF Spec

-----------------------------------------------------------------------------
(***************************************************************************)
(* SSEBroker, for any number of subscribers, any calls of Publish and      *)
(* PublishAll and any capacity.                                            *)
(***************************************************************************)

AnySlice == [arr : Nat \cup {Nil}, len : Nat]

TypeInv ==
    /\ sub \in [Subs -> {"idle", "stream", "unsubscribe", "gone"}]
    /\ arrays \in Seq(Seq(Subs \cup {Nil}))
    /\ list \in AnySlice
    /\ lockedBy \in Subs \cup {Nil}
    /\ hole \in Nat
    /\ readers \subseteq Calls
    /\ call \in [Calls -> {"idle", "walk", "done"}]
    /\ view \in [Calls -> AnySlice]
    /\ next \in [Calls -> Nat]
    /\ present = [p \in Calls |-> present[p]]
    /\ visits \in [Calls -> [Subs -> Nat]]
    /\ disturbed \in [Calls -> BOOLEAN]

(***************************************************************************)
(* The array behind the list while the lock is held for an unsubscribe:    *)
(* all its slots but the hole hold the other members, each once.  A shift  *)
(* fills the hole from the next slot, which becomes the hole; at the end   *)
(* the hole is the last slot and is cut off.                               *)
(***************************************************************************)
ListOK ==
    /\ list.arr = Nil => list.len = 0
    /\ list.arr # Nil => list.arr \in 1 .. Len(arrays) /\ list.len \in 1 .. Len(arrays[list.arr])

Slots == {i \in 1 .. list.len : lockedBy = Nil \/ i # hole}
Members == {s \in Subs : sub[s] \in {"stream", "unsubscribe"} /\ s # lockedBy}
Cell(A, l, i) == A[l.arr][i]

HoldsMembers ==
    /\ \A i \in Slots : Cell(arrays, list, i) \in Members
    /\ \A s \in Members : \E i \in Slots : Cell(arrays, list, i) = s
    /\ \A i, k \in Slots : i # k => Cell(arrays, list, i) # Cell(arrays, list, k)

LockOK == lockedBy # Nil => hole \in 1 .. list.len /\ sub[lockedBy] = "unsubscribe"

RegInv == TypeInv /\ ListOK /\ LockOK /\ HoldsMembers

LEMMA RegInit == BrokerInit => RegInv
  BY BrokerAssumption DEF BrokerInit, RegInv, TypeInv, AnySlice, NilSlice, ListOK, LockOK, HoldsMembers, Slots, Members, Subs

(* One more in a function of counters, wherever it is. *)
LEMMA OneMore ==
    ASSUME NEW S, NEW f \in [S -> Nat], NEW x PROVE [f EXCEPT ![x] = @ + 1] \in [S -> Nat]
<1>1. CASE x \in S
  BY <1>1
<1>2. CASE x \notin S
  BY <1>2
<1> QED BY <1>1, <1>2

(* A store to one cell of one array. *)
Stored(A, B, a, i, x) ==
    /\ Len(B) = Len(A)
    /\ \A b \in 1 .. Len(A) : Len(B[b]) = Len(A[b])
    /\ \A b \in 1 .. Len(A) : \A k \in 1 .. Len(A[b]) :
           B[b][k] = IF b = a /\ k = i THEN x ELSE A[b][k]

LEMMA StoreRow ==
    ASSUME NEW T, NEW A, A \in Seq(T), NEW a, a \in 1 .. Len(A), NEW R, R \in T
    PROVE  /\ [A EXCEPT ![a] = R] \in Seq(T) /\ Len([A EXCEPT ![a] = R]) = Len(A)
           /\ \A b \in 1 .. Len(A) : [A EXCEPT ![a] = R][b] = IF b = a THEN R ELSE A[b]
  OBVIOUS

LEMMA StoreInRow ==
    ASSUME NEW S, NEW r, r \in Seq(S), NEW i, i \in 1 .. Len(r), NEW x, x \in S
    PROVE  /\ [r EXCEPT ![i] = x] \in Seq(S) /\ Len([r EXCEPT ![i] = x]) = Len(r)
           /\ \A k \in 1 .. Len(r) : [r EXCEPT ![i] = x][k] = IF k = i THEN x ELSE r[k]
  OBVIOUS

LEMMA StoreCell ==
    ASSUME NEW S, NEW A, A \in Seq(Seq(S)), NEW a, a \in 1 .. Len(A), NEW i, i \in 1 .. Len(A[a]),
           NEW x, x \in S
    PROVE  [A EXCEPT ![a][i] = x] \in Seq(Seq(S)) /\ Stored(A, [A EXCEPT ![a][i] = x], a, i, x)
<1> DEFINE R == [A[a] EXCEPT ![i] = x]
           B == [A EXCEPT ![a] = R]
<1>1. A[a] \in Seq(S)
  OBVIOUS
<1>2. R \in Seq(S) /\ Len(R) = Len(A[a]) /\ \A k \in 1 .. Len(A[a]) : R[k] = IF k = i THEN x ELSE A[a][k]
  BY <1>1, StoreInRow
<1>3. [A EXCEPT ![a][i] = x] = B
  OBVIOUS
<1> HIDE DEF R
<1>4. B \in Seq(Seq(S)) /\ Len(B) = Len(A) /\ \A b \in 1 .. Len(A) : B[b] = IF b = a THEN R ELSE A[b]
  <2>1. R \in Seq(S)
    BY <1>2
  <2>2. B \in Seq(Seq(S))
    BY <2>1, StoreRow
  <2>3. Len(B) = Len(A)
    BY <2>1, StoreRow
  <2>4. \A b \in 1 .. Len(A) : B[b] = IF b = a THEN R ELSE A[b]
    BY <2>1, StoreRow
  <2> QED BY <2>2, <2>3, <2>4
<1> HIDE DEF B
<1>5. Stored(A, B, a, i, x)
  BY <1>2, <1>4 DEF Stored
<1> QED BY <1>3, <1>4, <1>5, Zenon

(* The two ways append goes. *)
LEMMA AppendInPlace ==
    ASSUME RegInv, NEW s \in Subs, Subscribe(s), list.len < SliceCap(list)
    PROVE  /\ list.arr \in 1 .. Len(arrays) /\ list.len + 1 \in 1 .. Len(arrays[list.arr])
           /\ arrays' \in Seq(Seq(Subs \cup {Nil}))
           /\ Stored(arrays, arrays', list.arr, list.len + 1, s)
           /\ list' \in AnySlice /\ list'.arr = list.arr /\ list'.len = list.len + 1
<1>1. list.arr \in 1 .. Len(arrays) /\ list.len + 1 \in 1 .. Len(arrays[list.arr])
  BY DEF SliceCap, RegInv, TypeInv, AnySlice, ListOK
<1>2. arrays' = [arrays EXCEPT ![list.arr][list.len + 1] = s] /\ list' = [list EXCEPT !.len = @ + 1]
  <2>1. list.len # SliceCap(list)
    BY DEF SliceCap, RegInv, TypeInv, AnySlice, ListOK
  <2> QED BY <2>1 DEF Subscribe
<1>3. arrays' \in Seq(Seq(Subs \cup {Nil})) /\ Stored(arrays, arrays', list.arr, list.len + 1, s)
  <2>1. arrays \in Seq(Seq(Subs \cup {Nil})) /\ s \in Subs \cup {Nil}
    BY DEF RegInv, TypeInv
  <2>2. PICK a, i : a = list.arr /\ i = list.len + 1
    OBVIOUS
  <2>3. /\ a \in 1 .. Len(arrays) /\ i \in 1 .. Len(arrays[a])
        /\ arrays' = [arrays EXCEPT ![a][i] = s]
    BY <1>1, <1>2, <2>2
  <2>4. [arrays EXCEPT ![a][i] = s] \in Seq(Seq(Subs \cup {Nil})) /\ Stored(arrays, [arrays EXCEPT ![a][i] = s], a, i, s)
    BY <2>1, <2>3, StoreCell, Zenon
  <2> QED BY <2>2, <2>3, <2>4, Zenon
<1>4. list' \in AnySlice /\ list'.arr = list.arr /\ list'.len = list.len + 1
  <2>1. list \in AnySlice
    BY DEF RegInv, TypeInv
  <2> QED BY <1>2, <2>1 DEF AnySlice
<1> QED BY <1>1, <1>3, <1>4

LEMMA AppendGrown ==
    ASSUME RegInv, NEW s \in Subs, Subscribe(s), ~(list.len < SliceCap(list))
    PROVE  /\ arrays' \in Seq(Seq(Subs \cup {Nil})) /\ Len(arrays') = Len(arrays) + 1
           /\ \A b \in 1 .. Len(arrays) : arrays'[b] = arrays[b]
           /\ list' \in AnySlice /\ list'.arr = Len(arrays) + 1 /\ list'.len = list.len + 1
           /\ list'.len \in 1 .. Len(arrays'[list'.arr])
           /\ \A i \in 1 .. list.len : arrays'[list'.arr][i] = arrays[list.arr][i]
           /\ arrays'[list'.arr][list.len + 1] = s
<1> DEFINE g == Grown(list, s)
           c == IF SliceCap(list) = 0 THEN 1 ELSE 2 * SliceCap(list)
<1>1. /\ list.len = SliceCap(list) /\ list.len \in Nat /\ Len(arrays) \in Nat
      /\ arrays' = Append(arrays, g) /\ list' = [arr |-> Len(arrays) + 1, len |-> list.len + 1]
  <2>1. list.len \in Nat /\ SliceCap(list) \in Nat /\ list.len <= SliceCap(list) /\ Len(arrays) \in Nat
    BY DEF SliceCap, RegInv, TypeInv, AnySlice, ListOK
  <2> QED BY <2>1 DEF Subscribe
<1>2. c \in Nat /\ list.len + 1 \in 1 .. c /\ list.len <= c
  BY <1>1
<1>3. \A i \in 1 .. list.len : arrays[list.arr][i] \in Subs \cup {Nil}
  BY DEF RegInv, TypeInv, AnySlice, ListOK
<1>4. g = [i \in 1 .. c |-> IF i <= list.len THEN arrays[list.arr][i] ELSE IF i = list.len + 1 THEN s ELSE Nil]
  BY DEF Grown
<1> HIDE DEF c, g
<1>5. g \in Seq(Subs \cup {Nil}) /\ Len(g) = c
  BY <1>1, <1>2, <1>3, <1>4
<1>6. (\A i \in 1 .. list.len : g[i] = arrays[list.arr][i]) /\ g[list.len + 1] = s
  BY <1>1, <1>2, <1>4
<1>7. /\ arrays' \in Seq(Seq(Subs \cup {Nil})) /\ Len(arrays') = Len(arrays) + 1
      /\ \A b \in 1 .. Len(arrays) : arrays'[b] = arrays[b]
      /\ arrays'[Len(arrays) + 1] = g
  BY <1>1, <1>5 DEF RegInv, TypeInv
<1>8. list' \in AnySlice /\ list'.arr = Len(arrays) + 1 /\ list'.len = list.len + 1
  BY <1>1 DEF AnySlice
<1> QED BY <1>2, <1>5, <1>6, <1>7, <1>8
(* Offer's counter is one more in one row of the table. *)
LEMMA VisitRow ==
    ASSUME TypeInv, NEW p \in Calls, Offer(p)
    PROVE  LET s == arrays[view[p].arr][next[p]]
           IN  /\ visits' \in [Calls -> [Subs -> Nat]]
               /\ visits'[p] = [visits[p] EXCEPT ![s] = @ + 1]
               /\ \A q \in Calls \ {p} : visits'[q] = visits[q]
<1> DEFINE s == arrays[view[p].arr][next[p]]
           row == [visits[p] EXCEPT ![s] = @ + 1]
<1>1. visits \in [Calls -> [Subs -> Nat]]
  BY DEF TypeInv
<1>2. visits' = [visits EXCEPT ![p] = row]
  BY DEF Offer
<1>3. row \in [Subs -> Nat]
  BY <1>1, OneMore
<1> HIDE DEF row
<1>4. visits' \in [Calls -> [Subs -> Nat]] /\ visits'[p] = row /\ \A q \in Calls \ {p} : visits'[q] = visits[q]
  BY <1>1, <1>2, <1>3
<1> QED BY <1>4 DEF row

LEMMA RegNext == RegInv /\ [BrokerNext]_brokerVars => RegInv'
<1> SUFFICES ASSUME RegInv, [BrokerNext]_brokerVars PROVE RegInv'
  OBVIOUS
<1>0. TypeInv /\ ListOK /\ LockOK /\ HoldsMembers
  BY DEF RegInv
<1>n. Nil \notin Subs /\ Nil \notin Nat
  BY BrokerAssumption DEF Subs
(* Steps that leave the list, and who is in it, alone. *)
<1>a. ASSUME TypeInv', UNCHANGED <<arrays, list, lockedBy, hole>>,
             \A s \in Subs : (sub'[s] \in {"stream", "unsubscribe"}) = (sub[s] \in {"stream", "unsubscribe"}),
             \A s \in Subs : sub[s] = "unsubscribe" => sub'[s] = "unsubscribe"
      PROVE  RegInv'
  <2>1. Slots' = Slots /\ Members' = Members
    BY <1>a DEF Slots, Members
  <2>2. ListOK' /\ LockOK'
    BY <1>0, <1>a DEF ListOK, LockOK, TypeInv
  <2>3. HoldsMembers'
    BY <1>0, <1>a, <2>1 DEF HoldsMembers, Cell
  <2> QED BY <1>a, <2>2, <2>3 DEF RegInv
<1>1. ASSUME NEW s \in Subs, Stream(s) PROVE RegInv'
  <2>1. TypeInv'
    BY <1>0, <1>1 DEF Stream, TypeInv, listVars, callVars
  <2> QED BY <1>0, <1>1, <1>a, <2>1 DEF Stream, TypeInv, listVars
<1>2. ASSUME NEW s \in Subs, Disconnect(s) PROVE RegInv'
  <2>1. TypeInv'
    BY <1>0, <1>2 DEF Disconnect, TypeInv, listVars, callVars
  <2> QED BY <1>0, <1>2, <1>a, <2>1 DEF Disconnect, TypeInv, listVars
<1>3. ASSUME NEW p \in Calls, Begin(p) PROVE RegInv'
  <2>1. TypeInv'
    BY <1>0, <1>3 DEF Begin, TypeInv, listVars, subVars
  <2> QED BY <1>3, <1>a, <2>1 DEF Begin, listVars, subVars
<1>4. ASSUME NEW p \in Calls, Offer(p) PROVE RegInv'
  <2>1. visits' \in [Calls -> [Subs -> Nat]]
    BY <1>0, <1>4, VisitRow
  <2>2. TypeInv'
    <3>1. next' \in [Calls -> Nat]
      BY <1>0, <1>4 DEF Offer, TypeInv
    <3>2. UNCHANGED <<sub, arrays, list, lockedBy, hole, readers, call, view, present, disturbed>>
      BY <1>4 DEF Offer, listVars
    <3> QED BY <1>0, <2>1, <3>1, <3>2, Zenon DEF TypeInv
  <2> QED BY <1>4, <1>a, <2>2 DEF Offer, listVars
<1>5. ASSUME NEW p \in Calls, End(p) PROVE RegInv'
  <2>1. TypeInv'
    BY <1>0, <1>5 DEF End, TypeInv, listVars, subVars, NilSlice, AnySlice
  <2> QED BY <1>5, <1>a, <2>1 DEF End, listVars, subVars
<1>6. CASE UNCHANGED brokerVars
  <2>1. TypeInv'
    BY <1>0, <1>6 DEF brokerVars, TypeInv, listVars, subVars, callVars
  <2> QED BY <1>6, <1>a, <2>1 DEF brokerVars, listVars, subVars
<1>7. ASSUME NEW s \in Subs, Subscribe(s) PROVE RegInv'
  <2>0. /\ lockedBy = Nil /\ UNCHANGED <<lockedBy, hole>> /\ sub[s] = "idle"
        /\ sub' = [sub EXCEPT ![s] = "stream"]
    BY <1>7 DEF Subscribe, LockFree
  <2>1. Slots = 1 .. list.len /\ Slots' = 1 .. list'.len
    BY <2>0 DEF Slots
  <2>2. Members' = Members \cup {s} /\ s \notin Members
    BY <1>0, <1>n, <2>0 DEF Members, TypeInv
  <2>3. list.len \in Nat
    BY <1>0 DEF TypeInv, AnySlice
  <2>4. /\ arrays' \in Seq(Seq(Subs \cup {Nil})) /\ list' \in AnySlice /\ list'.len = list.len + 1
        /\ ListOK' /\ Cell(arrays', list', list.len + 1) = s
        /\ \A i \in 1 .. list.len : Cell(arrays', list', i) = Cell(arrays, list, i)
    <3>1. CASE list.len < SliceCap(list)
      <4>1. /\ list.arr \in 1 .. Len(arrays) /\ list.len + 1 \in 1 .. Len(arrays[list.arr])
            /\ arrays' \in Seq(Seq(Subs \cup {Nil})) /\ list' \in AnySlice
            /\ Stored(arrays, arrays', list.arr, list.len + 1, s)
            /\ list'.arr = list.arr /\ list'.len = list.len + 1
        BY <1>7, <3>1, AppendInPlace
      <4>2. Len(arrays') = Len(arrays) /\ Len(arrays'[list.arr]) = Len(arrays[list.arr])
        BY <4>1 DEF Stored
      <4>3. ListOK'
        BY <1>n, <2>3, <4>1, <4>2 DEF ListOK
      <4>4. \A i \in 1 .. list.len + 1 : Cell(arrays', list', i) = IF i = list.len + 1 THEN s ELSE Cell(arrays, list, i)
        <5>1. \A i \in 1 .. list.len + 1 : i \in 1 .. Len(arrays[list.arr])
          BY <1>0, <2>3, <4>1 DEF TypeInv
        <5>2. ASSUME NEW i \in 1 .. list.len + 1
              PROVE  arrays'[list.arr][i] = IF i = list.len + 1 THEN s ELSE arrays[list.arr][i]
          BY <4>1, <5>1, Zenon DEF Stored
        <5>3. ASSUME NEW i
              PROVE  Cell(arrays', list', i) = arrays'[list.arr][i] /\ Cell(arrays, list, i) = arrays[list.arr][i]
          BY <4>1, Zenon DEF Cell
        <5> QED BY <5>2, <5>3, Zenon
      <4>5. /\ list.len + 1 \in 1 .. list.len + 1
            /\ \A i \in 1 .. list.len : i \in 1 .. list.len + 1 /\ i # list.len + 1
        BY <2>3
      <4> QED BY <4>1, <4>3, <4>4, <4>5
    <3>2. CASE ~(list.len < SliceCap(list))
      <4>1. /\ arrays' \in Seq(Seq(Subs \cup {Nil})) /\ Len(arrays') = Len(arrays) + 1
            /\ list' \in AnySlice /\ list'.arr = Len(arrays) + 1 /\ list'.len = list.len + 1
            /\ list'.len \in 1 .. Len(arrays'[list'.arr])
            /\ \A i \in 1 .. list.len : arrays'[list'.arr][i] = arrays[list.arr][i]
            /\ arrays'[list'.arr][list.len + 1] = s
        BY <1>7, <3>2, AppendGrown
      <4>2. Len(arrays) \in Nat
        BY <1>0 DEF TypeInv
      <4>3. ListOK'
        BY <1>n, <4>1, <4>2 DEF ListOK
      <4> QED BY <4>1, <4>3 DEF Cell
    <3> QED BY <3>1, <3>2
  <2>5. TypeInv'
    BY <1>0, <1>7, <2>0, <2>4, SMTT(30) DEF Subscribe, TypeInv, callVars
  <2>6. HoldsMembers'
    <3>1. /\ \A i \in 1 .. list.len : Cell(arrays, list, i) \in Members
          /\ \A m \in Members : \E i \in 1 .. list.len : Cell(arrays, list, i) = m
          /\ \A i, k \in 1 .. list.len : i # k => Cell(arrays, list, i) # Cell(arrays, list, k)
      BY <1>0, <2>1 DEF HoldsMembers
    <3>2. \A i \in 1 .. list.len + 1 : i \in 1 .. list.len \/ i = list.len + 1
      BY <2>3
    <3>3. \A i \in Slots' : Cell(arrays', list', i) \in Members'
      BY <2>1, <2>2, <2>4, <3>1, <3>2
    <3>4. \A m \in Members' : \E i \in Slots' : Cell(arrays', list', i) = m
      <4>1. list.len + 1 \in Slots' /\ 1 .. list.len \subseteq Slots'
        BY <2>1, <2>3, <2>4
      <4> QED BY <2>2, <2>4, <3>1, <4>1
    <3>5. \A i, k \in Slots' : i # k => Cell(arrays', list', i) # Cell(arrays', list', k)
      BY <2>1, <2>2, <2>4, <3>1, <3>2
    <3> QED BY <3>3, <3>4, <3>5 DEF HoldsMembers
  <2>7. LockOK'
    BY <2>0 DEF LockOK
  <2> QED BY <2>4, <2>5, <2>6, <2>7 DEF RegInv
<1>8. ASSUME NEW s \in Subs, UnsubscribeLock(s) PROVE RegInv'
  <2>0. /\ lockedBy = Nil /\ lockedBy' = s /\ sub[s] = "unsubscribe" /\ UNCHANGED <<arrays, list, sub>>
        /\ hole' = CHOOSE i \in 1 .. list.len : Elements(list)[i] = s
    BY <1>8 DEF UnsubscribeLock, LockFree, subVars
  <2>1. hole' \in 1 .. list.len /\ Cell(arrays, list, hole') = s
    <3>1. s \in Members
      BY <1>n, <2>0 DEF Members
    <3>2. \E i \in 1 .. list.len : Cell(arrays, list, i) = s
      BY <1>0, <2>0, <3>1 DEF HoldsMembers, Slots
    <3>3. \A i \in 1 .. list.len : Elements(list)[i] = Cell(arrays, list, i)
      BY DEF Elements, Cell
    <3>4. \E i \in 1 .. list.len : Elements(list)[i] = s
      BY <3>2, <3>3
    <3>5. hole' \in 1 .. list.len /\ Elements(list)[hole'] = s
      BY <2>0, <3>4
    <3> QED BY <3>3, <3>5
  <2>2. TypeInv'
    <3>1. hole' \in Nat
      BY <1>0, <2>1 DEF TypeInv, AnySlice
    <3> QED BY <1>0, <1>8, <3>1 DEF UnsubscribeLock, TypeInv, subVars, callVars
  <2>3. ListOK' /\ LockOK'
    BY <1>0, <1>n, <2>0, <2>1 DEF ListOK, LockOK
  <2>4. HoldsMembers'
    <3>1. Members' = Members \ {s} /\ Slots = 1 .. list.len /\ Slots' = Slots \ {hole'}
      BY <1>n, <2>0 DEF Members, Slots
    <3>2. \A i \in Slots : Cell(arrays', list', i) = Cell(arrays, list, i)
      BY <2>0 DEF Cell
    <3>3. /\ \A i \in Slots : Cell(arrays, list, i) \in Members
          /\ \A m \in Members : \E i \in Slots : Cell(arrays, list, i) = m
          /\ \A i, k \in Slots : i # k => Cell(arrays, list, i) # Cell(arrays, list, k)
      BY <1>0 DEF HoldsMembers
    <3> QED BY <2>1, <3>1, <3>2, <3>3 DEF HoldsMembers
  <2> QED BY <2>2, <2>3, <2>4 DEF RegInv
<1>9. ASSUME NEW s \in Subs, UnsubscribeShift(s) PROVE RegInv'
  <2>0. /\ lockedBy = s /\ lockedBy # Nil /\ hole < list.len /\ hole' = hole + 1
        /\ UNCHANGED <<list, sub, lockedBy>>
    BY <1>9, <1>n DEF UnsubscribeShift, subVars
  <2>1. /\ hole \in 1 .. list.len /\ list.len \in Nat
        /\ list.arr \in 1 .. Len(arrays) /\ list.len \in 1 .. Len(arrays[list.arr])
    BY <1>0, <2>0 DEF LockOK, ListOK, TypeInv, AnySlice
  <2>2. PICK a, h, x : a = list.arr /\ h = hole /\ x = Cell(arrays, list, hole + 1)
    OBVIOUS
  <2>3. /\ a \in 1 .. Len(arrays) /\ h \in 1 .. Len(arrays[a]) /\ x \in Subs \cup {Nil}
        /\ arrays' = [arrays EXCEPT ![a][h] = x]
    <3>1. arrays \in Seq(Seq(Subs \cup {Nil})) /\ hole + 1 \in 1 .. Len(arrays[list.arr])
      BY <1>0, <2>0, <2>1 DEF TypeInv
    <3>2. Cell(arrays, list, hole + 1) \in Subs \cup {Nil}
      BY <2>1, <3>1 DEF Cell
    <3> QED BY <1>9, <2>0, <2>1, <2>2, <3>2 DEF UnsubscribeShift, Cell
  <2>4. arrays' \in Seq(Seq(Subs \cup {Nil})) /\ Stored(arrays, arrays', a, h, x)
    <3>1. arrays \in Seq(Seq(Subs \cup {Nil}))
      BY <1>0 DEF TypeInv
    <3>2. [arrays EXCEPT ![a][h] = x] \in Seq(Seq(Subs \cup {Nil})) /\ Stored(arrays, [arrays EXCEPT ![a][h] = x], a, h, x)
      BY <2>3, <3>1, StoreCell, Zenon
    <3> QED BY <2>3, <3>2, Zenon
  <2>5. TypeInv'
    BY <1>0, <1>9, <2>0, <2>4 DEF UnsubscribeShift, TypeInv, subVars, callVars
  <2>6. ListOK' /\ LockOK'
    <3>1. list.arr \in 1 .. Len(arrays') /\ list.len \in 1 .. Len(arrays'[list.arr])
      BY <2>1, <2>4 DEF Stored
    <3>2. ListOK'
      BY <1>0, <2>0, <3>1 DEF ListOK
    <3>3. hole + 1 \in 1 .. list.len /\ sub[s] = "unsubscribe"
      BY <1>0, <2>0, <2>1 DEF LockOK
    <3> QED BY <2>0, <3>2, <3>3 DEF LockOK
  <2>7. HoldsMembers'
    <3>1. Members' = Members
      BY <2>0 DEF Members
    <3>2. Slots = (1 .. list.len) \ {hole} /\ Slots' = (1 .. list.len) \ {hole + 1}
      BY <2>0 DEF Slots
    <3>3. \A i \in 1 .. list.len : Cell(arrays', list', i) = IF i = hole THEN Cell(arrays, list, hole + 1) ELSE Cell(arrays, list, i)
      <4>1. \A i \in 1 .. Len(arrays[a]) : arrays'[a][i] = IF i = h THEN x ELSE arrays[a][i]
        BY <2>3, <2>4 DEF Stored
      <4>2. list' = list /\ \A i \in 1 .. list.len : i \in 1 .. Len(arrays[a])
        BY <2>0, <2>1, <2>2
      <4> QED BY <2>2, <4>1, <4>2 DEF Cell
    <3>4. /\ \A i \in Slots : Cell(arrays, list, i) \in Members
          /\ \A m \in Members : \E i \in Slots : Cell(arrays, list, i) = m
          /\ \A i, k \in Slots : i # k => Cell(arrays, list, i) # Cell(arrays, list, k)
      BY <1>0 DEF HoldsMembers
    <3>5. hole \in Slots' /\ hole + 1 \in Slots /\ hole \notin Slots /\ hole \in Nat
      BY <2>0, <2>1, <3>2
    <3>6. \A i \in Slots' : i # hole => i \in Slots /\ i # hole + 1
      BY <3>2
    <3>7. \A i \in Slots : i # hole + 1 => i \in Slots' /\ i # hole
      BY <3>2
    <3>8. Cell(arrays', list', hole) = Cell(arrays, list, hole + 1) /\ \A i \in Slots' : i # hole => Cell(arrays', list', i) = Cell(arrays, list, i)
      BY <2>1, <3>2, <3>3
    <3>9. \A i \in Slots' : Cell(arrays', list', i) \in Members'
      BY <3>1, <3>4, <3>5, <3>6, <3>8
    <3>10. \A m \in Members' : \E i \in Slots' : Cell(arrays', list', i) = m
      BY <3>1, <3>4, <3>5, <3>7, <3>8
    <3>11. \A i, k \in Slots' : i # k => Cell(arrays', list', i) # Cell(arrays', list', k)
      BY <3>4, <3>5, <3>6, <3>8
    <3> QED BY <3>9, <3>10, <3>11 DEF HoldsMembers
  <2> QED BY <2>5, <2>6, <2>7 DEF RegInv
<1>10. ASSUME NEW s \in Subs, UnsubscribeUnlock(s) PROVE RegInv'
  <2>0. /\ lockedBy = s /\ lockedBy # Nil /\ hole = list.len /\ hole' = 0 /\ lockedBy' = Nil
        /\ sub' = [sub EXCEPT ![s] = "gone"] /\ UNCHANGED arrays
        /\ list' = IF list.len = 1 THEN NilSlice ELSE [list EXCEPT !.len = @ - 1]
    BY <1>10, <1>n DEF UnsubscribeUnlock
  <2>1. /\ list \in AnySlice /\ list.len \in Nat /\ hole \in 1 .. list.len
        /\ list.arr \in 1 .. Len(arrays) /\ list.len \in 1 .. Len(arrays[list.arr])
    BY <1>0, <2>0 DEF LockOK, ListOK, TypeInv, AnySlice
  <2>2. /\ list' \in AnySlice /\ list'.len = list.len - 1
        /\ list'.arr = IF list.len = 1 THEN Nil ELSE list.arr
    BY <2>0, <2>1 DEF AnySlice, NilSlice
  <2>3. TypeInv'
    BY <1>0, <1>10, <2>0, <2>2 DEF UnsubscribeUnlock, TypeInv, callVars
  <2>4. ListOK' /\ LockOK'
    BY <1>n, <2>0, <2>1, <2>2 DEF ListOK, LockOK
  <2>5. HoldsMembers'
    <3>1. Members' = Members
      BY <1>0, <1>n, <2>0 DEF Members, TypeInv
    <3>2. Slots' = Slots
      BY <2>0, <2>1, <2>2 DEF Slots
    <3>3. \A i \in Slots : Cell(arrays', list', i) = Cell(arrays, list, i)
      BY <2>0, <2>1, <2>2 DEF Cell, Slots
    <3> QED BY <1>0, <3>1, <3>2, <3>3 DEF HoldsMembers
  <2> QED BY <2>3, <2>4, <2>5 DEF RegInv
<1> QED BY <1>1, <1>2, <1>3, <1>4, <1>5, <1>6, <1>7, <1>8, <1>9, <1>10
        DEF BrokerNext, Unsubscribe, Walk, BrokerFinished

(* Whenever the lock is free the broker's list holds each subscriber that   *)
(* has yet to leave exactly once, and no key is left for an empty list,     *)
(* whichever array the slice lives in and however appends and shifts have   *)
(* followed each other.                                                     *)
THEOREM ListIsExact == BrokerSpec => []ListExact
<1>1. RegInv => ListExact
  <2> SUFFICES ASSUME RegInv, lockedBy = Nil
               PROVE  /\ {Elements(list)[i] : i \in 1 .. list.len} = {s \in Subs : sub[s] \in {"stream", "unsubscribe"}}
                      /\ \A i, k \in 1 .. list.len : i # k => Elements(list)[i] # Elements(list)[k]
                      /\ list.len = 0 => list.arr = Nil
    BY DEF ListExact
  <2>1. Slots = 1 .. list.len /\ Members = {s \in Subs : sub[s] \in {"stream", "unsubscribe"}}
    BY BrokerAssumption DEF Slots, Members, Subs
  <2>2. \A i \in 1 .. list.len : Elements(list)[i] = Cell(arrays, list, i)
    BY DEF Elements, Cell
  <2>3. /\ \A i \in 1 .. list.len : Cell(arrays, list, i) \in Members
        /\ \A m \in Members : \E i \in 1 .. list.len : Cell(arrays, list, i) = m
        /\ \A i, k \in 1 .. list.len : i # k => Cell(arrays, list, i) # Cell(arrays, list, k)
    BY <2>1 DEF RegInv, HoldsMembers
  <2>4. {Elements(list)[i] : i \in 1 .. list.len} = Members
    BY <2>2, <2>3
  <2>5. list.len = 0 => list.arr = Nil
    BY DEF RegInv, ListOK
  <2> QED BY <2>1, <2>2, <2>3, <2>4, <2>5
<1> QED BY <1>1, RegInit, RegNext, PTL DEF BrokerSpec
(***************************************************************************)
(* A walk nobody unsubscribes during.  As far as the walker's slice goes,  *)
(* the array behind it keeps the subscribers there were at the beginning,  *)
(* each in one cell: an append in place stores behind the slice, as the    *)
(* list it extends is at least as long, and a grown one stores elsewhere.  *)
(***************************************************************************)
Quiet(p) == p \in ToAll \/ ~disturbed[p]

WalkOK(A, v, n, row, there) ==
    /\ v.len > 0 => v.arr \in 1 .. Len(A) /\ v.len <= Len(A[v.arr])
    /\ there \subseteq Subs
    /\ \A i \in 1 .. v.len : Cell(A, v, i) \in there
    /\ \A s \in there : \E i \in 1 .. v.len : Cell(A, v, i) = s
    /\ \A i, k \in 1 .. v.len : i # k => Cell(A, v, i) # Cell(A, v, k)
    /\ n \in 1 .. v.len + 1
    /\ \A s \in Subs : row[s] = IF \E i \in 1 .. n - 1 : Cell(A, v, i) = s THEN 1 ELSE 0

LockedOK ==
    /\ \A p \in ToAll : call[p] = "walk" => p \in readers
    /\ readers # {} => lockedBy = Nil

IdleOK(p) == call[p] = "idle" => next[p] = 1 /\ \A s \in Subs : visits[p][s] = 0

WalkingOK(p) ==
    call[p] = "walk" /\ Quiet(p) =>
        /\ lockedBy = Nil
        /\ list.arr = view[p].arr => view[p].len <= list.len
        /\ WalkOK(arrays, view[p], next[p], visits[p], present[p])

DoneOK(p) == call[p] = "done" /\ Quiet(p) => VisitedOnce(p)

WalkInv == LockedOK /\ \A p \in Calls : IdleOK(p) /\ WalkingOK(p) /\ DoneOK(p)

LEMMA WalkInit == BrokerInit => WalkInv
  BY CallAssumption DEF BrokerInit, WalkInv, LockedOK, IdleOK, WalkingOK, DoneOK

LEMMA WalkKept ==
    ASSUME NEW A, NEW B, NEW v, NEW n, NEW row, NEW there, WalkOK(A, v, n, row, there), v.len \in Nat,
           v.len > 0 => v.arr \in 1 .. Len(B) /\ v.len <= Len(B[v.arr]),
           \A i \in 1 .. v.len : Cell(B, v, i) = Cell(A, v, i)
    PROVE  WalkOK(B, v, n, row, there)
<1>1. n \in 1 .. v.len + 1 /\ \A i \in 1 .. n - 1 : i \in 1 .. v.len
  BY DEF WalkOK
<1>2. \A s \in Subs : (\E i \in 1 .. n - 1 : Cell(B, v, i) = s) <=> (\E i \in 1 .. n - 1 : Cell(A, v, i) = s)
  BY <1>1
<1> QED BY <1>2 DEF WalkOK

LEMMA WalkNext == RegInv /\ WalkInv /\ [BrokerNext]_brokerVars => WalkInv'
<1> SUFFICES ASSUME RegInv, WalkInv, [BrokerNext]_brokerVars PROVE WalkInv'
  OBVIOUS
<1>0. TypeInv /\ ListOK /\ LockOK /\ HoldsMembers /\ LockedOK
  BY DEF RegInv, WalkInv
<1>n. Nil \notin Subs /\ Nil \notin Nat /\ ToAll \subseteq Calls
  BY BrokerAssumption, CallAssumption DEF Subs
<1>v. \A p \in Calls : view[p] \in AnySlice /\ view[p].len \in Nat
  BY <1>0 DEF TypeInv, AnySlice
(* Steps that leave the calls alone. *)
<1>a. ASSUME UNCHANGED <<callVars, disturbed>>, LockedOK', \A p \in Calls : WalkingOK(p)' PROVE WalkInv'
  BY <1>a DEF WalkInv, IdleOK, DoneOK, VisitedOnce, Quiet, callVars
<1>b. ASSUME UNCHANGED <<arrays, list, lockedBy, callVars, disturbed>> PROVE WalkInv'
  BY <1>b DEF WalkInv, LockedOK, IdleOK, WalkingOK, DoneOK, VisitedOnce, Quiet, callVars
<1>1. ASSUME NEW s \in Subs, Stream(s) PROVE WalkInv'
  BY <1>1, <1>b DEF Stream, listVars
<1>2. ASSUME NEW s \in Subs, Disconnect(s) PROVE WalkInv'
  BY <1>2, <1>b DEF Disconnect, listVars
<1>3. CASE UNCHANGED brokerVars
  BY <1>3, <1>b DEF brokerVars, listVars
<1>4. ASSUME NEW s \in Subs, Subscribe(s) PROVE WalkInv'
  <2>0. lockedBy = Nil /\ lockedBy' = Nil /\ UNCHANGED <<readers, call, view, next, present, visits, disturbed>>
    BY <1>4 DEF Subscribe, LockFree, callVars
  <2>1. ASSUME NEW p \in Calls, call[p] = "walk", Quiet(p)
        PROVE  WalkingOK(p)'
    <3> DEFINE v == view[p]
    <3>0. /\ v.len \in Nat /\ list.len \in Nat /\ Len(arrays) \in Nat
          /\ list.arr = v.arr => v.len <= list.len
          /\ WalkOK(arrays, v, next[p], visits[p], present[p])
      BY <1>0, <1>v, <2>1 DEF WalkInv, WalkingOK, TypeInv, AnySlice
    <3>1. v.len > 0 => v.arr \in 1 .. Len(arrays) /\ v.len <= Len(arrays[v.arr])
      BY <3>0 DEF WalkOK
    <3> HIDE DEF v
    <3>2. /\ list'.arr = v.arr => v.len <= list'.len
          /\ v.len > 0 => v.arr \in 1 .. Len(arrays') /\ v.len <= Len(arrays'[v.arr])
          /\ \A i \in 1 .. v.len : Cell(arrays', v, i) = Cell(arrays, v, i)
      <4>1. CASE list.len < SliceCap(list)
        <5>1. /\ list.arr \in 1 .. Len(arrays) /\ list.len + 1 \in 1 .. Len(arrays[list.arr])
              /\ Stored(arrays, arrays', list.arr, list.len + 1, s)
              /\ list'.arr = list.arr /\ list'.len = list.len + 1
          BY <1>4, <4>1, AppendInPlace
        <5>2. v.len > 0 => v.arr \in 1 .. Len(arrays') /\ v.len <= Len(arrays'[v.arr])
          BY <3>0, <3>1, <5>1 DEF Stored
        <5>3. ASSUME NEW i \in 1 .. v.len PROVE Cell(arrays', v, i) = Cell(arrays, v, i)
          <6>1. v.arr \in 1 .. Len(arrays) /\ i \in 1 .. Len(arrays[v.arr])
            BY <3>0, <3>1, <5>3
          <6>2. ~(v.arr = list.arr /\ i = list.len + 1)
            BY <3>0, <5>3
          <6> QED BY <5>1, <6>1, <6>2 DEF Stored, Cell
        <5> QED BY <3>0, <5>1, <5>2, <5>3
      <4>2. CASE ~(list.len < SliceCap(list))
        <5>1. /\ Len(arrays') = Len(arrays) + 1 /\ list'.arr = Len(arrays) + 1 /\ list'.len = list.len + 1
              /\ \A b \in 1 .. Len(arrays) : arrays'[b] = arrays[b]
          BY <1>4, <4>2, AppendGrown
        <5>2. v.len > 0 => v.arr \in 1 .. Len(arrays') /\ v.len <= Len(arrays'[v.arr])
          BY <3>0, <3>1, <5>1
        <5>3. \A i \in 1 .. v.len : Cell(arrays', v, i) = Cell(arrays, v, i)
          BY <3>0, <3>1, <5>1 DEF Cell
        <5> QED BY <3>0, <3>1, <5>1, <5>2, <5>3
      <4> QED BY <4>1, <4>2
    <3>3. WalkOK(arrays', v, next[p], visits[p], present[p])
      BY <3>0, <3>2, WalkKept
    <3> QED BY <2>0, <3>2, <3>3 DEF WalkingOK, v
  <2>2. \A p \in Calls : WalkingOK(p)'
    BY <2>0, <2>1 DEF WalkingOK, Quiet
  <2>3. LockedOK'
    BY <1>0, <2>0 DEF LockedOK
  <2> QED BY <1>4, <1>a, <2>2, <2>3 DEF Subscribe
<1>5. ASSUME NEW s \in Subs, UnsubscribeLock(s) PROVE WalkInv'
  <2>0. /\ readers = {} /\ UNCHANGED <<readers, call, view, next, present, visits>>
        /\ disturbed' = [p \in Calls |-> disturbed[p] \/ call[p] = "walk"]
    BY <1>5 DEF UnsubscribeLock, LockFree, callVars
  <2>1. ASSUME NEW p \in Calls PROVE ~(call'[p] = "walk" /\ Quiet(p)')
    BY <1>0, <2>0 DEF Quiet, LockedOK
  <2>2. \A p \in Calls : IdleOK(p)' /\ DoneOK(p)'
    BY <1>0, <2>0 DEF WalkInv, IdleOK, DoneOK, Quiet, VisitedOnce, TypeInv
  <2>3. LockedOK'
    BY <1>0, <2>0 DEF LockedOK
  <2> QED BY <2>1, <2>2, <2>3 DEF WalkInv, WalkingOK
<1>6. ASSUME lockedBy # Nil, UNCHANGED <<callVars, disturbed>> PROVE WalkInv'
  <2>1. readers = {}
    BY <1>0, <1>6 DEF LockedOK
  <2>2. \A p \in Calls : ~(call[p] = "walk" /\ Quiet(p))
    BY <1>6 DEF WalkInv, WalkingOK
  <2>3. LockedOK' /\ \A p \in Calls : WalkingOK(p)'
    BY <1>0, <1>6, <2>1, <2>2 DEF LockedOK, WalkingOK, Quiet, callVars
  <2> QED BY <1>6, <1>a, <2>3
<1>7. ASSUME NEW s \in Subs, UnsubscribeShift(s) \/ UnsubscribeUnlock(s) PROVE WalkInv'
  BY <1>6, <1>7, <1>n DEF UnsubscribeShift, UnsubscribeUnlock
(* A call's own steps leave the others alone. *)
<1>c. ASSUME NEW p \in Calls, UNCHANGED <<listVars, disturbed>>, LockedOK',
             \A q \in Calls \ {p} : /\ call'[q] = call[q] /\ view'[q] = view[q] /\ next'[q] = next[q]
                                    /\ present'[q] = present[q] /\ visits'[q] = visits[q],
             IdleOK(p)', WalkingOK(p)', DoneOK(p)'
      PROVE  WalkInv'
  <2>1. ASSUME NEW q \in Calls \ {p} PROVE IdleOK(q)' /\ WalkingOK(q)' /\ DoneOK(q)'
    <3>1. /\ call'[q] = call[q] /\ view'[q] = view[q] /\ next'[q] = next[q]
          /\ present'[q] = present[q] /\ visits'[q] = visits[q]
      BY <1>c, <2>1
    <3> QED BY <1>c, <2>1, <3>1 DEF WalkInv, IdleOK, WalkingOK, DoneOK, VisitedOnce, Quiet, listVars
  <2> QED BY <1>c, <2>1 DEF WalkInv
<1>8. ASSUME NEW p \in Calls, Begin(p) PROVE WalkInv'
  <2>0. /\ call[p] = "idle" /\ lockedBy = Nil /\ call' = [call EXCEPT ![p] = "walk"]
        /\ view' = [view EXCEPT ![p] = list]
        /\ present' = [present EXCEPT ![p] = {Elements(list)[i] : i \in 1 .. list.len}]
        /\ readers' = IF p \in ToAll THEN readers \cup {p} ELSE readers
        /\ UNCHANGED <<listVars, next, visits, disturbed>>
    BY <1>8 DEF Begin
  <2>1. /\ call'[p] = "walk" /\ view'[p] = list /\ next'[p] = 1 /\ \A s \in Subs : visits'[p][s] = 0
        /\ present'[p] = {Elements(list)[i] : i \in 1 .. list.len}
    BY <1>0, <2>0 DEF TypeInv, WalkInv, IdleOK
  <2>2. LockedOK'
    BY <1>0, <2>0, <1>n DEF LockedOK, TypeInv, listVars
  <2>3. WalkOK(arrays, list, 1, visits'[p], present'[p])
    <3>1. Slots = 1 .. list.len /\ Members \subseteq Subs /\ list.len \in Nat
      BY <1>0, <2>0 DEF Slots, Members, TypeInv, AnySlice
    <3>2. \A i \in 1 .. list.len : Elements(list)[i] = Cell(arrays, list, i)
      BY DEF Elements, Cell
    <3>3. /\ \A i \in 1 .. list.len : Cell(arrays, list, i) \in Members
          /\ \A i, k \in 1 .. list.len : i # k => Cell(arrays, list, i) # Cell(arrays, list, k)
      BY <1>0, <3>1 DEF HoldsMembers
    <3>4. /\ \A i \in 1 .. list.len : Cell(arrays, list, i) \in present'[p]
          /\ \A s \in present'[p] : \E i \in 1 .. list.len : Cell(arrays, list, i) = s
      BY <2>1, <3>2
    <3>5. present'[p] \subseteq Subs
      BY <3>1, <3>3, <3>4
    <3>6. list.len > 0 => list.arr \in 1 .. Len(arrays) /\ list.len <= Len(arrays[list.arr])
      BY <1>0, <3>1 DEF ListOK, TypeInv
    <3>7. 1 \in 1 .. list.len + 1 /\ \A i \in 1 .. 1 - 1 : FALSE
      BY <3>1
    <3> QED BY <2>1, <3>3, <3>4, <3>5, <3>6, <3>7 DEF WalkOK
  <2>4. IdleOK(p)' /\ DoneOK(p)' /\ WalkingOK(p)'
    <3>1. list.len \in Nat
      BY <1>0 DEF TypeInv, AnySlice
    <3> QED BY <2>0, <2>1, <2>3, <3>1 DEF IdleOK, DoneOK, WalkingOK, listVars
  <2>5. \A q \in Calls \ {p} : /\ call'[q] = call[q] /\ view'[q] = view[q] /\ next'[q] = next[q]
                               /\ present'[q] = present[q] /\ visits'[q] = visits[q]
    BY <1>0, <2>0 DEF TypeInv
  <2> QED BY <1>c, <2>0, <2>2, <2>4, <2>5
<1>9. ASSUME NEW p \in Calls, End(p) PROVE WalkInv'
  <2>0. /\ call[p] = "walk" /\ next[p] > view[p].len /\ call' = [call EXCEPT ![p] = "done"]
        /\ view' = [view EXCEPT ![p] = NilSlice] /\ next' = [next EXCEPT ![p] = 1]
        /\ readers' = readers \ {p} /\ UNCHANGED <<listVars, present, visits, disturbed>>
    BY <1>9 DEF End
  <2>1. LockedOK'
    BY <1>0, <2>0, <1>n DEF LockedOK, TypeInv, listVars
  <2>2. \A q \in Calls \ {p} : /\ call'[q] = call[q] /\ view'[q] = view[q] /\ next'[q] = next[q]
                               /\ present'[q] = present[q] /\ visits'[q] = visits[q]
    BY <1>0, <2>0 DEF TypeInv
  <2>3. call'[p] = "done"
    BY <1>0, <2>0 DEF TypeInv
  <2>4. ASSUME Quiet(p) PROVE VisitedOnce(p)
    <3>1. WalkOK(arrays, view[p], next[p], visits[p], present[p])
      BY <2>0, <2>4 DEF WalkInv, WalkingOK
    <3>2. next[p] - 1 = view[p].len
      <4>1. next[p] \in 1 .. view[p].len + 1 /\ view[p].len \in Nat /\ next[p] > view[p].len
        BY <1>v, <2>0, <3>1 DEF WalkOK
      <4> QED BY <4>1
    <3>3. \A s \in Subs : visits[p][s] = IF \E i \in 1 .. view[p].len : Cell(arrays, view[p], i) = s THEN 1 ELSE 0
      BY <3>1, <3>2, Zenon DEF WalkOK
    <3>4. \A s : s \in present[p] <=> \E i \in 1 .. view[p].len : Cell(arrays, view[p], i) = s
      BY <3>1, Zenon DEF WalkOK
    <3> QED BY <3>3, <3>4, Zenon DEF VisitedOnce
  <2>5. IdleOK(p)' /\ WalkingOK(p)' /\ DoneOK(p)'
    BY <2>0, <2>3, <2>4 DEF IdleOK, WalkingOK, DoneOK, VisitedOnce, Quiet
  <2> QED BY <1>c, <2>0, <2>1, <2>2, <2>5
<1>10. ASSUME NEW p \in Calls, Offer(p) PROVE WalkInv'
  <2> DEFINE v == view[p]
             n == next[p]
             x == Cell(arrays, v, n)
  <2>0. /\ call[p] = "walk" /\ n <= v.len /\ next' = [next EXCEPT ![p] = @ + 1]
        /\ UNCHANGED <<listVars, readers, call, view, present, disturbed>>
    BY <1>10 DEF Offer
  <2>1. /\ visits' \in [Calls -> [Subs -> Nat]] /\ visits'[p] = [visits[p] EXCEPT ![x] = @ + 1]
        /\ \A q \in Calls \ {p} : visits'[q] = visits[q]
    BY <1>0, <1>10, VisitRow DEF Cell
  <2>2. v.len \in Nat /\ next'[p] = n + 1 /\ \A q \in Calls \ {p} : next'[q] = next[q]
    BY <1>0, <1>v, <2>0 DEF TypeInv
  <2>3. LockedOK'
    BY <1>0, <2>0 DEF LockedOK, listVars
  <2>4. ASSUME Quiet(p) PROVE WalkOK(arrays, v, n + 1, visits'[p], present[p])
    <3>1. WalkOK(arrays, v, n, visits[p], present[p])
      BY <2>0, <2>4 DEF WalkInv, WalkingOK
    <3> HIDE DEF v, n
    <3>2. n \in 1 .. v.len /\ n \in Nat /\ n + 1 \in 1 .. v.len + 1 /\ n + 1 - 1 = n
      BY <2>0, <2>2, <3>1 DEF WalkOK
    <3>3. x \in Subs
      BY <3>1, <3>2 DEF WalkOK
    <3>4. ~ \E i \in 1 .. n - 1 : Cell(arrays, v, i) = x
      <4>1. \A i \in 1 .. n - 1 : i \in 1 .. v.len /\ i # n
        BY <2>2, <3>2
      <4> QED BY <3>1, <3>2, <4>1 DEF WalkOK
    <3>5. visits[p][x] = 0
      BY <3>1, <3>3, <3>4 DEF WalkOK
    <3>6. visits[p] \in [Subs -> Nat]
      BY <1>0 DEF TypeInv
    <3> HIDE DEF x
    <3>7. visits'[p][x] = 1 /\ \A s \in Subs \ {x} : visits'[p][s] = visits[p][s]
      BY <2>1, <3>3, <3>5, <3>6
    <3>8. \A i : i \in 1 .. n <=> i \in 1 .. n - 1 \/ i = n
      BY <3>2
    <3>9. \A s \in Subs : visits'[p][s] = IF \E i \in 1 .. n : Cell(arrays, v, i) = s THEN 1 ELSE 0
      <4>1. \A s \in Subs : visits[p][s] = IF \E i \in 1 .. n - 1 : Cell(arrays, v, i) = s THEN 1 ELSE 0
        BY <3>1 DEF WalkOK
      <4>2. \A s \in Subs \ {x} : (\E i \in 1 .. n : Cell(arrays, v, i) = s) <=> (\E i \in 1 .. n - 1 : Cell(arrays, v, i) = s)
        BY <3>8 DEF x
      <4>3. \E i \in 1 .. n : Cell(arrays, v, i) = x
        BY <3>2, <3>8 DEF x
      <4> QED BY <3>7, <4>1, <4>2, <4>3
    <3> QED BY <3>1, <3>2, <3>9 DEF WalkOK
  <2>5. IdleOK(p)' /\ WalkingOK(p)' /\ DoneOK(p)'
    <3>1. Quiet(p)' <=> Quiet(p)
      BY <2>0 DEF Quiet
    <3>2. Quiet(p) => lockedBy' = Nil /\ (list'.arr = v.arr => v.len <= list'.len)
      BY <2>0 DEF WalkInv, WalkingOK, listVars
    <3>3. call'[p] = "walk" /\ arrays' = arrays /\ view'[p] = v /\ present'[p] = present[p]
      BY <2>0 DEF listVars
    <3> HIDE DEF v, n
    <3>4. WalkingOK(p)'
      BY <2>2, <2>4, <3>1, <3>2, <3>3 DEF WalkingOK
    <3> QED BY <3>3, <3>4 DEF IdleOK, DoneOK
  <2> QED BY <1>c, <2>0, <2>1, <2>2, <2>3, <2>5
<1> QED BY <1>1, <1>2, <1>3, <1>4, <1>5, <1>7, <1>8, <1>9, <1>10 DEF BrokerNext, Unsubscribe, Walk, BrokerFinished

(* A call of PublishAll, however the subscribers come and go, and a call of *)
(* Publish that no unsubscribe overlaps with, has when it returns offered   *)
(* its event exactly once to each subscriber there was when it began.       *)
THEOREM EventsAreOfferedOnce == BrokerSpec => []OfferedOnce
<1>1. WalkInv => OfferedOnce
  BY DEF WalkInv, DoneOK, Quiet, OfferedOnce
<1> QED BY <1>1, RegInit, RegNext, WalkInit, WalkNext, PTL DEF BrokerSpec
=============================================================================
