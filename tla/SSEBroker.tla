----------------------------- MODULE SSEBroker -----------------------------
(***************************************************************************)
(* The gateway's broker of server-sent events                              *)
(* (services/api-gateway/server/sse.go), for one job ID.                   *)
(*                                                                         *)
(* A Go slice is a view of a backing array that other slices may share.    *)
(* The broker's list is modelled as one: subscribe appends to it, in place *)
(* when the array has room, unsubscribe shifts the array's elements down,  *)
(* and Publish, which copies the slice under the lock and walks it after   *)
(* the unlock, reads the array while it is being shifted.                  *)
(***************************************************************************)
EXTENDS Naturals, Sequences

CONSTANTS N,         \* the number of handlers ServeSSE of this job
          Calls,     \* calls of Publish and PublishAll, each with its event
          ToAll,     \* those of PublishAll
          Final,     \* those whose event is of type "done" or "failed"
          ChanCap,   \* capacity of a subscriber's channel, 64 in the code
          Nil        \* no channel, no array

ASSUME CallAssumption == ToAll \subseteq Calls /\ Final \subseteq Calls
ASSUME BrokerAssumption == ChanCap \in Nat \ {0} /\ N \in Nat /\ Nil \notin Nat

(* The handlers, one channel each, numbered in the order they subscribe in. *)
Subs == 1 .. N

VARIABLES sub,       \* [Subs -> where ServeSSE is]
          buf,       \* [Subs -> buffer of its channel]
          arrays,    \* the backing arrays made so far
          list,      \* b.subscribers[jobID]; the key is absent when arr is Nil
          lockedBy,    \* the subscriber that holds b.mu for writing, or Nil
          hole,      \* the index it shifts the next element to
          readers,   \* the calls that hold b.mu for reading
          call,      \* [Calls -> "idle", "walk", "done"]
          view,      \* [Calls -> the slice it walks]
          next,      \* [Calls -> the index it looks at next]
          present,   \* [Calls -> the subscribers in the list when it copied it]
          visits,    \* [Calls -> [Subs -> how often it offered them its event]]
          disturbed  \* [Calls -> did an unsubscribe overlap with its walk]

subVars  == <<sub, buf>>
listVars == <<arrays, list, lockedBy, hole>>
callVars == <<readers, call, view, next, present, visits>>
brokerVars == <<subVars, listVars, callVars, disturbed>>

Slices == [arr : (1 .. N) \cup {Nil}, len : 0 .. N]
NilSlice == [arr |-> Nil, len |-> 0]

BrokerInit ==
    /\ sub = [s \in Subs |-> "idle"]
    /\ buf = [s \in Subs |-> <<>>]
    /\ arrays = <<>>
    /\ list = NilSlice
    /\ lockedBy = Nil
    /\ hole = 0
    /\ readers = {}
    /\ call = [p \in Calls |-> "idle"]
    /\ view = [p \in Calls |-> NilSlice]
    /\ next = [p \in Calls |-> 1]
    /\ present = [p \in Calls |-> {}]
    /\ visits = [p \in Calls |-> [s \in Subs |-> 0]]
    /\ disturbed = [p \in Calls |-> FALSE]

(* A slice's elements, and the capacity of the array behind it. *)
Elements(s) == [i \in 1 .. s.len |-> arrays[s.arr][i]]
SliceCap(s) == IF s.arr = Nil THEN 0 ELSE Len(arrays[s.arr])

(* The array append makes when the old one is full: doubled, as the Go      *)
(* runtime does for a slice of pointers this short.                         *)
Grown(s, e) ==
    [i \in 1 .. (IF SliceCap(s) = 0 THEN 1 ELSE 2 * SliceCap(s)) |->
        IF i <= s.len THEN arrays[s.arr][i] ELSE IF i = s.len + 1 THEN e ELSE Nil]

LockFree == lockedBy = Nil /\ readers = {}

(***************************************************************************)
(* ServeSSE                                                                *)
(***************************************************************************)

(* append: in place if there is room, else into a new array. *)
Subscribe(s) ==
    /\ sub[s] = "idle" /\ \A t \in 1 .. s - 1 : sub[t] # "idle"
    /\ LockFree
    /\ sub' = [sub EXCEPT ![s] = "stream"]
    /\ \/ /\ list.len < SliceCap(list)
          /\ arrays' = [arrays EXCEPT ![list.arr][list.len + 1] = s]
          /\ list' = [list EXCEPT !.len = @ + 1]
       \/ /\ list.len = SliceCap(list)
          /\ arrays' = Append(arrays, Grown(list, s))
          /\ list' = [arr |-> Len(arrays) + 1, len |-> list.len + 1]
    /\ UNCHANGED <<buf, lockedBy, hole, callVars, disturbed>>

(* An event is read and written to the client.  The stream ends after a     *)
(* final event or a failed write.                                           *)
Stream(s) ==
    /\ sub[s] = "stream"
    /\ buf[s] # <<>>
    /\ buf' = [buf EXCEPT ![s] = Tail(@)]
    /\ \/ sub' = [sub EXCEPT ![s] = "unsubscribe"]
       \/ Head(buf[s]) \notin Final /\ UNCHANGED sub
    /\ UNCHANGED <<listVars, callVars, disturbed>>

(* The client goes away. *)
Disconnect(s) ==
    /\ sub[s] = "stream"
    /\ sub' = [sub EXCEPT ![s] = "unsubscribe"]
    /\ UNCHANGED <<buf, listVars, callVars, disturbed>>

(* unsubscribe takes the lock and finds the channel in the list. *)
UnsubscribeLock(s) ==
    /\ sub[s] = "unsubscribe"
    /\ LockFree
    /\ lockedBy' = s
    /\ hole' = CHOOSE i \in 1 .. list.len : Elements(list)[i] = s
    /\ disturbed' = [p \in Calls |-> disturbed[p] \/ call[p] = "walk"]
    /\ UNCHANGED <<subVars, arrays, list, callVars>>

(* append(list[:i], list[i+1:]...) moves the elements behind the channel    *)
(* down by one, in the array every copy of the slice shares.                *)
UnsubscribeShift(s) ==
    /\ lockedBy = s
    /\ hole < list.len
    /\ arrays' = [arrays EXCEPT ![list.arr][hole] = arrays[list.arr][hole + 1]]
    /\ hole' = hole + 1
    /\ UNCHANGED <<subVars, list, lockedBy, callVars, disturbed>>

(* Mutant: the job's key stays in the map with an empty list. *)
UnsubscribeKeepsKey(s) ==
    /\ lockedBy = s
    /\ hole = list.len
    /\ list' = [list EXCEPT !.len = @ - 1]
    /\ lockedBy' = Nil
    /\ hole' = 0
    /\ sub' = [sub EXCEPT ![s] = "gone"]
    /\ UNCHANGED <<buf, arrays, callVars, disturbed>>

(* The shortened slice is stored, or the key deleted with the last channel. *)
UnsubscribeUnlock(s) ==
    /\ lockedBy = s
    /\ hole = list.len
    /\ list' = IF list.len = 1 THEN NilSlice ELSE [list EXCEPT !.len = @ - 1]
    /\ lockedBy' = Nil
    /\ hole' = 0
    /\ sub' = [sub EXCEPT ![s] = "gone"]
    /\ UNCHANGED <<buf, arrays, callVars, disturbed>>

(***************************************************************************)
(* Publish and PublishAll                                                  *)
(***************************************************************************)

(* Mutant: PublishAll gives the lock back before it walks. *)
BeginUnlocked(p) ==
    /\ call[p] = "idle"
    /\ lockedBy = Nil
    /\ call' = [call EXCEPT ![p] = "walk"]
    /\ view' = [view EXCEPT ![p] = list]
    /\ present' = [present EXCEPT ![p] = {Elements(list)[i] : i \in 1 .. list.len}]
    /\ UNCHANGED <<subVars, listVars, readers, next, visits, disturbed>>

(* The list is copied under the read lock; PublishAll keeps the lock. *)
Begin(p) ==
    /\ call[p] = "idle"
    /\ lockedBy = Nil
    /\ call' = [call EXCEPT ![p] = "walk"]
    /\ view' = [view EXCEPT ![p] = list]
    /\ present' = [present EXCEPT ![p] = {Elements(list)[i] : i \in 1 .. list.len}]
    /\ readers' = IF p \in ToAll THEN readers \cup {p} ELSE readers
    /\ UNCHANGED <<subVars, listVars, next, visits, disturbed>>

(* The channel the array holds now is offered the event; if its buffer is   *)
(* full the event is dropped.                                               *)
Offer(p) ==
    /\ call[p] = "walk"
    /\ next[p] <= view[p].len
    /\ LET s == arrays[view[p].arr][next[p]]
       IN  /\ visits' = [visits EXCEPT ![p][s] = @ + 1]
           /\ buf' = [buf EXCEPT ![s] = IF Len(@) < ChanCap THEN Append(@, p) ELSE @]
    /\ next' = [next EXCEPT ![p] = @ + 1]
    /\ UNCHANGED <<sub, listVars, readers, call, view, present, disturbed>>

(* Mutant: the read lock is not given back. *)
EndLocked(p) ==
    /\ call[p] = "walk"
    /\ next[p] > view[p].len
    /\ call' = [call EXCEPT ![p] = "done"]
    /\ view' = [view EXCEPT ![p] = NilSlice]
    /\ next' = [next EXCEPT ![p] = 1]
    /\ UNCHANGED <<subVars, listVars, readers, present, visits, disturbed>>

(* The call returns: its slice and its index are gone, and the lock free. *)
End(p) ==
    /\ call[p] = "walk"
    /\ next[p] > view[p].len
    /\ call' = [call EXCEPT ![p] = "done"]
    /\ view' = [view EXCEPT ![p] = NilSlice]
    /\ next' = [next EXCEPT ![p] = 1]
    /\ readers' = readers \ {p}
    /\ UNCHANGED <<subVars, listVars, present, visits, disturbed>>

Unsubscribe(s) == UnsubscribeLock(s) \/ UnsubscribeShift(s) \/ UnsubscribeUnlock(s)
Walk(p) == Offer(p) \/ End(p)

BrokerFinished ==
    /\ \A s \in Subs : sub[s] = "gone"
    /\ \A p \in Calls : call[p] = "done"
    /\ UNCHANGED brokerVars

BrokerNext ==
    \/ \E s \in Subs : Subscribe(s) \/ Stream(s) \/ Disconnect(s) \/ Unsubscribe(s)
    \/ \E p \in Calls : Begin(p) \/ Walk(p)
    \/ BrokerFinished

BrokerSpec == BrokerInit /\ [][BrokerNext]_brokerVars

(* Goroutines that can go on do so, those that wait for a lock that stays   *)
(* free included.                                                           *)
FairBrokerSpec ==
    /\ BrokerSpec
    /\ \A s \in Subs : WF_brokerVars(Unsubscribe(s))
    /\ \A p \in Calls : WF_brokerVars(Walk(p))

-----------------------------------------------------------------------------
(* Whenever the lock is free, the list holds each subscriber that streams   *)
(* or has yet to unsubscribe exactly once, nothing else, and no key is left *)
(* behind when there is none (sse.go:53-74).                                *)
ListExact ==
    lockedBy = Nil =>
        /\ {Elements(list)[i] : i \in 1 .. list.len} = {s \in Subs : sub[s] \in {"stream", "unsubscribe"}}
        /\ \A i, k \in 1 .. list.len : i # k => Elements(list)[i] # Elements(list)[k]
        /\ list.len = 0 => list.arr = Nil

VisitedOnce(p) == \A s \in Subs : visits[p][s] = IF s \in present[p] THEN 1 ELSE 0

(* A call offers its event to every subscriber there is when it begins, and *)
(* to each once: PublishAll however they come and go meanwhile, as it walks *)
(* the list under the lock, and Publish, which walks a shared array after   *)
(* the unlock, as long as nobody unsubscribes during its walk; that others  *)
(* subscribe does no harm (sse.go:27-51, 56, 66).                           *)
OfferedOnce ==
    \A p \in Calls : call[p] = "done" /\ (p \in ToAll \/ ~disturbed[p]) => VisitedOnce(p)

(* A subscriber that ends its stream leaves the list. *)
LeaversLeave == \A s \in Subs : sub[s] = "unsubscribe" ~> sub[s] = "gone"
=============================================================================
