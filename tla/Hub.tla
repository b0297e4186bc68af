-------------------------------- MODULE Hub --------------------------------
(***************************************************************************)
(* The gateway's WebSocket hub (services/api-gateway/server/ws.go): the    *)
(* goroutine Hub.Run, which alone touches the set of clients and closes    *)
(* their channels, and for every client the handler that registers it, its *)
(* writePump and its readPump.  Closing a channel twice or sending on a    *)
(* closed one would be a panic that takes the gateway down.                *)
(*                                                                         *)
(* Events are numbered in the order in which they are broadcast.           *)
(***************************************************************************)
EXTENDS Naturals, Sequences

CONSTANTS Clients,       \* connections
          BroadcastCap,  \* capacity of h.broadcast, 256 in the code
          SendCap,       \* capacity of a client's channel, 64 in the code
          MaxEvents      \* bound on the events broadcast

ASSUME CapAssumption ==
    BroadcastCap \in Nat \ {0} /\ SendCap \in Nat \ {0} /\ MaxEvents \in Nat

VARIABLES serve,      \* [Clients -> where ServeWS is]
          conn,       \* [Clients -> "none", "open", "closed"], the connection
          clients,    \* h.clients
          broadcast,  \* h.broadcast
          sent,       \* number of events broadcast so far
          hpc,        \* where Hub.Run is: "select", "fanout", "panicked"
          event,      \* the event it hands out
          todo,       \* the clients its range loop has yet to visit
          send,       \* [Clients -> buffer of client.send]
          closed,     \* [Clients -> has client.send been closed]
          writer,     \* [Clients -> where writePump is]
          reader,     \* [Clients -> where readPump is]
          written     \* [Clients -> the events written to its connection]

hubVars  == <<clients, broadcast, sent, hpc, event, todo>>
pumpVars == <<writer, reader, written>>
vars == <<serve, conn, hubVars, send, closed, pumpVars>>

Events == 1 .. MaxEvents

TypeOK ==
    /\ serve \in [Clients -> {"idle", "register", "start", "returned"}]
    /\ conn \in [Clients -> {"none", "open", "closed"}]
    /\ clients \subseteq Clients
    /\ broadcast \in Seq(Events) /\ Len(broadcast) <= BroadcastCap
    /\ sent \in 0 .. MaxEvents
    /\ hpc \in {"select", "fanout", "panicked"}
    /\ event \in 0 .. MaxEvents
    /\ todo \subseteq Clients
    /\ send \in [Clients -> Seq(Events)] /\ \A c \in Clients : Len(send[c]) <= SendCap
    /\ closed \in [Clients -> BOOLEAN]
    /\ writer \in [Clients -> {"none", "run", "exited"}]
    /\ reader \in [Clients -> {"none", "read", "unregister", "close", "exited"}]
    /\ written \in [Clients -> Seq(Events)]

Init ==
    /\ serve = [c \in Clients |-> "idle"]
    /\ conn = [c \in Clients |-> "none"]
    /\ clients = {}
    /\ broadcast = <<>>
    /\ sent = 0
    /\ hpc = "select"
    /\ event = 0
    /\ todo = {}
    /\ send = [c \in Clients |-> <<>>]
    /\ closed = [c \in Clients |-> FALSE]
    /\ writer = [c \in Clients |-> "none"]
    /\ reader = [c \in Clients |-> "none"]
    /\ written = [c \in Clients |-> <<>>]

(***************************************************************************)
(* ServeWS                                                                 *)
(***************************************************************************)

(* The upgrade fails and the handler returns, or a client is made of it. *)
Upgrade(c) ==
    /\ serve[c] = "idle"
    /\ \/ serve' = [serve EXCEPT ![c] = "register"] /\ conn' = [conn EXCEPT ![c] = "open"]
       \/ serve' = [serve EXCEPT ![c] = "returned"] /\ UNCHANGED conn
    /\ UNCHANGED <<hubVars, send, closed, pumpVars>>

(* h.register is not buffered: handler and hub meet at the hub's select. *)
Register(c) ==
    /\ serve[c] = "register"
    /\ hpc = "select"
    /\ clients' = clients \cup {c}
    /\ serve' = [serve EXCEPT ![c] = "start"]
    /\ UNCHANGED <<conn, broadcast, sent, hpc, event, todo, send, closed, pumpVars>>

StartPumps(c) ==
    /\ serve[c] = "start"
    /\ serve' = [serve EXCEPT ![c] = "returned"]
    /\ writer' = [writer EXCEPT ![c] = "run"]
    /\ reader' = [reader EXCEPT ![c] = "read"]
    /\ UNCHANGED <<conn, hubVars, send, closed, written>>

(***************************************************************************)
(* Hub.Run and Broadcast                                                   *)
(***************************************************************************)

(* The caller of Broadcast blocks while h.broadcast is full. *)
Broadcast ==
    /\ sent < MaxEvents
    /\ Len(broadcast) < BroadcastCap
    /\ sent' = sent + 1
    /\ broadcast' = Append(broadcast, sent + 1)
    /\ UNCHANGED <<serve, conn, clients, hpc, event, todo, send, closed, pumpVars>>

TakeEvent ==
    /\ hpc = "select"
    /\ broadcast # <<>>
    /\ event' = Head(broadcast)
    /\ broadcast' = Tail(broadcast)
    /\ todo' = clients
    /\ hpc' = "fanout"
    /\ UNCHANGED <<serve, conn, clients, sent, send, closed, pumpVars>>

(* Mutant: an event is dropped and the slow client kept. *)
HandOutOrDrop(c) ==
    /\ hpc = "fanout"
    /\ c \in todo
    /\ todo' = todo \ {c}
    /\ \/ /\ Len(send[c]) < SendCap
          /\ send' = [send EXCEPT ![c] = Append(@, event)]
       \/ /\ Len(send[c]) = SendCap
          /\ UNCHANGED send
    /\ UNCHANGED <<serve, conn, clients, broadcast, sent, hpc, event, closed, pumpVars>>

(* Mutant: the slow client is closed and stays in the map. *)
HandOutKeeps(c) ==
    /\ hpc = "fanout"
    /\ c \in todo
    /\ todo' = todo \ {c}
    /\ hpc' = IF closed[c] THEN "panicked" ELSE hpc
    /\ \/ /\ Len(send[c]) < SendCap
          /\ send' = [send EXCEPT ![c] = Append(@, event)]
          /\ UNCHANGED closed
       \/ /\ Len(send[c]) = SendCap
          /\ closed' = [closed EXCEPT ![c] = TRUE]
          /\ UNCHANGED send
    /\ UNCHANGED <<serve, conn, clients, broadcast, sent, event, pumpVars>>

(* One iteration of the range loop: the event goes into the client's       *)
(* channel, or the channel is full and the client is closed and deleted.   *)
(* A send on a channel that is already closed panics.                      *)
HandOut(c) ==
    /\ hpc = "fanout"
    /\ c \in todo
    /\ todo' = todo \ {c}
    /\ hpc' = IF closed[c] THEN "panicked" ELSE hpc
    /\ \/ /\ Len(send[c]) < SendCap
          /\ send' = [send EXCEPT ![c] = Append(@, event)]
          /\ UNCHANGED <<clients, closed>>
       \/ /\ Len(send[c]) = SendCap
          /\ closed' = [closed EXCEPT ![c] = TRUE]
          /\ clients' = clients \ {c}
          /\ UNCHANGED send
    /\ UNCHANGED <<serve, conn, broadcast, sent, event, pumpVars>>

FanoutDone ==
    /\ hpc = "fanout"
    /\ todo = {}
    /\ hpc' = "select"
    /\ UNCHANGED <<serve, conn, clients, broadcast, sent, event, todo, send, closed, pumpVars>>

(* Mutant: the channel is closed whether or not the client is registered. *)
UnregisterUnchecked(c) ==
    /\ reader[c] = "unregister"
    /\ hpc = "select"
    /\ reader' = [reader EXCEPT ![c] = "close"]
    /\ clients' = clients \ {c}
    /\ closed' = [closed EXCEPT ![c] = TRUE]
    /\ hpc' = IF closed[c] THEN "panicked" ELSE hpc
    /\ UNCHANGED <<serve, conn, broadcast, sent, event, todo, send, writer, written>>

(* readPump's deferred function meets the hub at its select, ... *)
Unregister(c) ==
    /\ reader[c] = "unregister"
    /\ hpc = "select"
    /\ reader' = [reader EXCEPT ![c] = "close"]
    /\ \/ /\ c \in clients
          /\ clients' = clients \ {c}
          /\ closed' = [closed EXCEPT ![c] = TRUE]
          /\ hpc' = IF closed[c] THEN "panicked" ELSE hpc
       \/ /\ c \notin clients
          /\ UNCHANGED <<clients, closed, hpc>>
    /\ UNCHANGED <<serve, conn, broadcast, sent, event, todo, send, writer, written>>

(* ... then it closes the connection and the goroutine ends. *)
CloseConn(c) ==
    /\ reader[c] = "close"
    /\ reader' = [reader EXCEPT ![c] = "exited"]
    /\ conn' = [conn EXCEPT ![c] = "closed"]
    /\ UNCHANGED <<serve, hubVars, send, closed, writer, written>>

(***************************************************************************)
(* The pumps                                                               *)
(***************************************************************************)

(* Mutant: the connection of a pump that ends stays open. *)
WriterExitsOpen(c) ==
    /\ writer' = [writer EXCEPT ![c] = "exited"]
    /\ UNCHANGED conn

(* The deferred function of writePump. *)
WriterExits(c) ==
    /\ writer' = [writer EXCEPT ![c] = "exited"]
    /\ conn' = [conn EXCEPT ![c] = "closed"]

(* An event is taken from the channel and written; a write error ends the   *)
(* pump.  What was buffered before the channel was closed is still written. *)
WriteEvent(c) ==
    /\ writer[c] = "run"
    /\ send[c] # <<>>
    /\ send' = [send EXCEPT ![c] = Tail(@)]
    /\ \/ /\ conn[c] = "open"
          /\ written' = [written EXCEPT ![c] = Append(@, Head(send[c]))]
          /\ UNCHANGED <<writer, conn>>
       \/ WriterExits(c) /\ UNCHANGED written
    /\ UNCHANGED <<serve, hubVars, closed, reader>>

(* The channel is closed and empty: a close message, and the pump ends. *)
WriteClose(c) ==
    /\ writer[c] = "run"
    /\ send[c] = <<>> /\ closed[c]
    /\ WriterExits(c)
    /\ UNCHANGED <<serve, hubVars, send, closed, reader, written>>

(* The ping of the ticker cannot be written. *)
PingFails(c) ==
    /\ writer[c] = "run"
    /\ WriterExits(c)
    /\ UNCHANGED <<serve, hubVars, send, closed, reader, written>>

(* ReadMessage fails: the connection is closed, the peer has gone away, or  *)
(* no pong came within pongWait.                                            *)
ReadFails(c) ==
    /\ reader[c] = "read"
    /\ reader' = [reader EXCEPT ![c] = "unregister"]
    /\ UNCHANGED <<serve, conn, hubVars, send, closed, writer, written>>

HubStep == TakeEvent \/ FanoutDone \/ \E c \in Clients : HandOut(c)
ClientStep(c) ==
    \/ Upgrade(c) \/ Register(c) \/ StartPumps(c) \/ Unregister(c) \/ CloseConn(c)
    \/ WriteEvent(c) \/ WriteClose(c) \/ PingFails(c) \/ ReadFails(c)

(* Every client has come and gone and the bound on events is used up. *)
Finished ==
    /\ sent = MaxEvents /\ broadcast = <<>> /\ hpc = "select"
    /\ \A c \in Clients : /\ serve[c] = "returned"
                          /\ reader[c] \in {"none", "exited"} /\ writer[c] \in {"none", "exited"}
    /\ UNCHANGED vars

Next == Broadcast \/ HubStep \/ (\E c \in Clients : ClientStep(c)) \/ Finished

Spec == Init /\ [][Next]_vars

(***************************************************************************)
(* Every goroutine that can go on does.  The reader of a closed connection *)
(* gets its error at once; peers that stay and pings that work are not     *)
(* forced to fail.                                                         *)
(***************************************************************************)
Fairness ==
    /\ WF_vars(HubStep)
    /\ \A c \in Clients :
        /\ WF_vars(Register(c)) /\ WF_vars(StartPumps(c))
        /\ SF_vars(Unregister(c)) /\ WF_vars(CloseConn(c))
        /\ WF_vars(WriteEvent(c)) /\ WF_vars(WriteClose(c))
        /\ WF_vars(conn[c] = "closed" /\ ReadFails(c))

FairSpec == Spec /\ Fairness

-----------------------------------------------------------------------------
(* Hub.Run never closes a channel twice and never sends on a closed one,    *)
(* however a full buffer, a failing reader and a broadcast coincide.        *)
NoPanic == hpc # "panicked"

(* The clients that registered and were not closed are those in the map,    *)
(* and the range loop only visits such clients (ws.go:41-63).               *)
RegistryExact ==
    /\ clients = {c \in Clients : ~closed[c] /\ (serve[c] = "start" \/ reader[c] # "none")}
    /\ todo \subseteq clients

(* A client gets the events from its registration on, in order and without  *)
(* a gap: one that is too slow is cut off and never skips (ws.go:56-63).    *)
NoGaps ==
    \A c \in Clients :
        LET got == written[c] \o (IF writer[c] = "exited" THEN <<>> ELSE send[c])
        IN  \A i \in 1 .. Len(got) - 1 : got[i + 1] = got[i] + 1

(* A client that is closed by the hub, or whose connection is closed by a   *)
(* pump, is forgotten: both its goroutines end and the map loses it.        *)
ClosedIsForgotten ==
    \A c \in Clients :
        (reader[c] # "none" /\ (closed[c] \/ conn[c] = "closed")) ~>
        (reader[c] = "exited" /\ writer[c] = "exited" /\ c \notin clients)
=============================================================================
