------------------------------- MODULE WsHub -------------------------------
(***************************************************************************)
(* The WebSocket hub (internal/ws/hub.go) and the two pumps of each client *)
(* (internal/ws/client.go): one goroutine owns the registry, senders and   *)
(* registrations that find it busy give up at once (select ... default),   *)
(* and a client whose buffer is full is cut off.                           *)
(*                                                                         *)
(* Writing a frame takes time: gorilla/websocket allows one writer at a    *)
(* time on a connection and panics, at its best effort, when it finds two. *)
(* A panic in the hub or in a pump ends the process.                       *)
(***************************************************************************)
EXTENDS Integers, Sequences, FiniteSets

CONSTANTS
  Clients,     \* connections that may be upgraded
  Users,
  UserOf,      \* the user a client's ticket was issued to
  BufferSize,  \* 256 in the code
  MaxMessages  \* bound: messages the hub takes for one user

ASSUME HubAssumption ==
  /\ UserOf \in [Clients -> Users]
  /\ BufferSize \in Nat \ {0}
  /\ MaxMessages \in Nat

VARIABLES
  hub,         \* what Run does: pc, the clients left to serve, the message, and
               \* the client whose close frame it is writing
  registered,  \* h.clients
  taken,       \* messages the hub has taken for each user
  send,        \* client.send: buffered messages
  closes,      \* how often client.send was closed
  conn,        \* none, open or closed
  reader,      \* program counter of readPump (and of the handler before it)
  writer,      \* program counter of writePump and the frame it writes
  received,    \* messages written to the connection
  shutdown     \* h.shutdown is closed

vars == <<hub, registered, taken, send, closes, conn, reader, writer, received, shutdown>>

-----------------------------------------------------------------------------
(* States *)

Messages == 1 .. MaxMessages

HubStates ==
  [pc : {"busy", "select", "fanout", "closing", "stopped", "crashed"},
   todo : SUBSET Clients, message : {0} \cup Messages, frame : SUBSET Clients]

Select == [pc |-> "select", todo |-> {}, message |-> 0, frame |-> {}]
Busy == [Select EXCEPT !.pc = "busy"]

Writers ==
  [pc : {"none", "select", "ping", "close", "done"}, message : {0}]
    \cup [pc : {"write"}, message : Messages]

NoWriter == [pc |-> "none", message |-> 0]
WriterWaits == [pc |-> "select", message |-> 0]
WriterPings == [pc |-> "ping", message |-> 0]
WriterEnds == [pc |-> "close", message |-> 0]
WriterDone == [pc |-> "done", message |-> 0]

\* writePump is inside a write of the connection.
Writing(c) == writer[c].pc \in {"write", "ping", "close"}

Init ==
  /\ hub = Busy
  /\ registered = {}
  /\ taken = [u \in Users |-> 0]
  /\ send = [c \in Clients |-> <<>>]
  /\ closes = [c \in Clients |-> 0]
  /\ conn = [c \in Clients |-> "none"]
  /\ reader = [c \in Clients |-> "none"]
  /\ writer = [c \in Clients |-> NoWriter]
  /\ received = [c \in Clients |-> <<>>]
  /\ shutdown = FALSE

Move(pcs, c, from, to) == pcs[c] = from /\ pcs' = [pcs EXCEPT ![c] = to]

CloseConn(c) == conn' = [conn EXCEPT ![c] = "closed"]

\* close(client.send); delete(userClients, client)
Drop(c) ==
  /\ closes' = [closes EXCEPT ![c] = @ + 1]
  /\ registered' = registered \ {c}

-----------------------------------------------------------------------------
(* The connection handler *)

\* Upgrade and NewClient.
Connect(c) ==
  /\ Move(reader, c, "none", "register")
  /\ conn' = [conn EXCEPT ![c] = "open"]
  /\ UNCHANGED <<hub, registered, taken, send, closes, writer, received, shutdown>>

\* Register meets the hub at its select.
Register(c) ==
  /\ hub = Select
  /\ Move(reader, c, "register", "start")
  /\ registered' = registered \cup {c}
  /\ hub' = Busy
  /\ UNCHANGED <<taken, send, closes, conn, writer, received, shutdown>>

\* Register finds the hub busy and closes the connection.
RegisterRefused(c) ==
  /\ hub # Select
  /\ Move(reader, c, "register", "start")
  /\ CloseConn(c)
  /\ UNCHANGED <<hub, registered, taken, send, closes, writer, received, shutdown>>

Start(c) ==
  /\ Move(reader, c, "start", "read")
  /\ writer' = [writer EXCEPT ![c] = WriterWaits]
  /\ UNCHANGED <<hub, registered, taken, send, closes, conn, received, shutdown>>

-----------------------------------------------------------------------------
(* Run *)

Loop ==
  /\ hub = Busy
  /\ hub' = Select
  /\ UNCHANGED <<registered, taken, send, closes, conn, reader, writer, received, shutdown>>

\* Mutant: the hub does not look whether it still has the client.
UnregisterAny(c) ==
  /\ hub = Select
  /\ Move(reader, c, "unregister", "close")
  /\ Drop(c)
  /\ hub' = Busy
  /\ UNCHANGED <<taken, send, conn, writer, received, shutdown>>

\* readPump hands its client over; a client the hub no longer has is ignored.
Unregister(c) ==
  /\ hub = Select
  /\ Move(reader, c, "unregister", "close")
  /\ IF c \in registered THEN Drop(c) ELSE UNCHANGED <<closes, registered>>
  /\ hub' = Busy
  /\ UNCHANGED <<taken, send, conn, writer, received, shutdown>>

\* SendToUser meets the hub at its select; otherwise the message is dropped.
SendToUser(u) ==
  /\ hub = Select
  /\ taken[u] < MaxMessages
  /\ taken' = [taken EXCEPT ![u] = @ + 1]
  /\ hub' = [Select EXCEPT !.pc = "fanout", !.todo = {c \in registered : UserOf[c] = u},
                           !.message = taken[u] + 1]
  /\ UNCHANGED <<registered, send, closes, conn, reader, writer, received, shutdown>>

\* What every turn of the loop over the user's clients does.
Serve(c) ==
  /\ hub.pc = "fanout"
  /\ c \in hub.todo
  /\ hub' = [hub EXCEPT !.todo = @ \ {c}]
  /\ UNCHANGED <<taken, conn, reader, writer, received, shutdown>>

Buffer(c) ==
  /\ send' = [send EXCEPT ![c] = Append(@, hub.message)]
  /\ UNCHANGED <<closes, registered>>

\* Mutant: the send does not look at the capacity.
FanOutUnbounded(c) == Serve(c) /\ Buffer(c)

\* Mutant: the send has no default case and waits for room.
FanOutWaits(c) == Serve(c) /\ Len(send[c]) < BufferSize /\ Buffer(c)

\* Mutant: a client whose buffer is full misses the message and stays.
FanOutSkips(c) ==
  /\ Serve(c)
  /\ \/ Len(send[c]) < BufferSize /\ Buffer(c)
     \/ Len(send[c]) >= BufferSize /\ UNCHANGED <<send, closes, registered>>

\* Mutant: a full buffer loses its oldest message to the new one.
FanOutOverwrites(c) ==
  /\ Serve(c)
  /\ \/ Len(send[c]) < BufferSize /\ Buffer(c)
     \/ /\ Len(send[c]) >= BufferSize
        /\ send' = [send EXCEPT ![c] = Append(Tail(@), hub.message)]
        /\ UNCHANGED <<closes, registered>>

\* One turn of the loop over the user's clients: the message is buffered, or
\* the client is cut off because its buffer is full.
FanOut(c) ==
  /\ Serve(c)
  /\ \/ Len(send[c]) < BufferSize /\ Buffer(c)
     \/ Len(send[c]) >= BufferSize /\ Drop(c) /\ UNCHANGED send

FanOutDone ==
  /\ hub.pc = "fanout"
  /\ hub.todo = {}
  /\ hub' = Busy
  /\ UNCHANGED <<registered, taken, send, closes, conn, reader, writer, received, shutdown>>

Shutdown ==
  /\ ~shutdown
  /\ shutdown' = TRUE
  /\ UNCHANGED <<hub, registered, taken, send, closes, conn, reader, writer, received>>

\* The select may pick another ready case first.
BeginClosing ==
  /\ hub = Select
  /\ shutdown
  /\ hub' = [Select EXCEPT !.pc = "closing", !.todo = registered]
  /\ UNCHANGED <<registered, taken, send, closes, conn, reader, writer, received, shutdown>>

\* close(client.send), whereupon writePump may wake up, and a close frame.
CloseSend(c) ==
  /\ hub.pc = "closing"
  /\ hub.frame = {}
  /\ c \in hub.todo
  /\ hub' = [hub EXCEPT !.todo = @ \ {c}, !.frame = {c}]
  /\ Drop(c)
  /\ UNCHANGED <<taken, send, conn, reader, writer, received, shutdown>>

\* The frame is written or not, then conn.Close().  In between, and after, other
\* writes fail.
CloseClient(c) ==
  /\ c \in hub.frame
  /\ hub' = [hub EXCEPT !.frame = {}]
  /\ CloseConn(c)
  /\ UNCHANGED <<registered, taken, send, closes, reader, writer, received, shutdown>>

\* The hub and writePump write at the same time, one of them notices and panics.
\* Every goroutine is gone and the kernel closes the connections.
ConcurrentWrite(c) ==
  /\ c \in hub.frame
  /\ Writing(c)
  /\ hub' = [Select EXCEPT !.pc = "crashed"]
  /\ registered' = {}
  /\ conn' = [d \in Clients |-> IF conn[d] = "open" THEN "closed" ELSE conn[d]]
  /\ reader' = [d \in Clients |-> "done"]
  /\ writer' = [d \in Clients |-> WriterDone]
  /\ UNCHANGED <<taken, send, closes, received, shutdown>>

Stop ==
  /\ hub.pc = "closing"
  /\ hub.todo = {}
  /\ hub.frame = {}
  /\ hub' = [Select EXCEPT !.pc = "stopped"]
  /\ UNCHANGED <<registered, taken, send, closes, conn, reader, writer, received, shutdown>>

-----------------------------------------------------------------------------
(* readPump *)

\* Mutant: readPump ends without telling the hub.
ReadFailsQuietly(c) ==
  /\ Move(reader, c, "read", "close")
  /\ UNCHANGED <<hub, registered, taken, send, closes, conn, writer, received, shutdown>>

\* ReadMessage fails: the connection is closed, the peer is gone, or no pong
\* came within pongWait.
ReadFails(c) ==
  /\ Move(reader, c, "read", "unregister")
  /\ UNCHANGED <<hub, registered, taken, send, closes, conn, writer, received, shutdown>>

ReaderCloses(c) ==
  /\ Move(reader, c, "close", "done")
  /\ CloseConn(c)
  /\ UNCHANGED <<hub, registered, taken, send, closes, writer, received, shutdown>>

-----------------------------------------------------------------------------
(* writePump *)

TakeMessage(c) ==
  /\ writer[c] = WriterWaits
  /\ send[c] # <<>>
  /\ writer' = [writer EXCEPT ![c] = [pc |-> "write", message |-> Head(send[c])]]
  /\ send' = [send EXCEPT ![c] = Tail(@)]
  /\ UNCHANGED <<hub, registered, taken, closes, conn, reader, received, shutdown>>

Receive(c) ==
  /\ writer[c].pc = "write"
  /\ conn[c] = "open"
  /\ received' = [received EXCEPT ![c] = Append(@, writer[c].message)]

WriteMessage(c) ==
  /\ Receive(c)
  /\ writer' = [writer EXCEPT ![c] = WriterWaits]
  /\ UNCHANGED <<hub, registered, taken, send, closes, conn, reader, shutdown>>

\* The ticker fires.
BeginPing(c) ==
  /\ writer[c] = WriterWaits
  /\ writer' = [writer EXCEPT ![c] = WriterPings]
  /\ UNCHANGED <<hub, registered, taken, send, closes, conn, reader, received, shutdown>>

EndPing(c) ==
  /\ writer[c] = WriterPings
  /\ conn[c] = "open"
  /\ writer' = [writer EXCEPT ![c] = WriterWaits]
  /\ UNCHANGED <<hub, registered, taken, send, closes, conn, reader, received, shutdown>>

\* A message or a ping fails: the connection is closed or broken, or the hub's
\* close frame ended the message, which may have been flushed, in its writer's
\* place.
WriteFails(c) ==
  /\ writer[c].pc \in {"write", "ping"}
  /\ UNCHANGED received \/ (c \in hub.frame /\ Receive(c))
  /\ writer' = [writer EXCEPT ![c] = WriterDone]
  /\ CloseConn(c)
  /\ UNCHANGED <<hub, registered, taken, send, closes, reader, shutdown>>

\* The hub closed the channel and everything buffered has been written: one more
\* close frame.
WriterFinishes(c) ==
  /\ writer[c] = WriterWaits
  /\ send[c] = <<>> /\ closes[c] > 0
  /\ writer' = [writer EXCEPT ![c] = WriterEnds]
  /\ UNCHANGED <<hub, registered, taken, send, closes, conn, reader, received, shutdown>>

\* Mutant: writePump returns and leaves the connection open.
WriterLeaves(c) ==
  /\ writer[c] = WriterEnds
  /\ writer' = [writer EXCEPT ![c] = WriterDone]
  /\ UNCHANGED <<hub, registered, taken, send, closes, conn, reader, received, shutdown>>

WriterCloses(c) ==
  /\ writer[c] = WriterEnds
  /\ writer' = [writer EXCEPT ![c] = WriterDone]
  /\ CloseConn(c)
  /\ UNCHANGED <<hub, registered, taken, send, closes, reader, received, shutdown>>

-----------------------------------------------------------------------------
(* Specification *)

Next ==
  \/ Loop \/ FanOutDone \/ Shutdown \/ BeginClosing \/ Stop
  \/ \E u \in Users : SendToUser(u)
  \/ \E c \in Clients :
       \/ Connect(c) \/ Register(c) \/ RegisterRefused(c) \/ Start(c)
       \/ Unregister(c) \/ FanOut(c)
       \/ CloseSend(c) \/ CloseClient(c) \/ ConcurrentWrite(c)
       \/ ReadFails(c) \/ ReaderCloses(c)
       \/ TakeMessage(c) \/ WriteMessage(c) \/ BeginPing(c) \/ EndPing(c)
       \/ WriteFails(c) \/ WriterFinishes(c) \/ WriterCloses(c)

Spec == Init /\ [][Next]_vars

\* The hub's goroutine runs; its select picks among the cases that are ready
\* at random, so that one that is ready again and again is picked.
HubFairness ==
  /\ WF_vars(Loop) /\ WF_vars(FanOutDone) /\ SF_vars(BeginClosing) /\ WF_vars(Stop)
  /\ \A c \in Clients :
       WF_vars(FanOut(c)) /\ WF_vars(CloseSend(c)) /\ WF_vars(CloseClient(c))

\* The pumps run too, reading from a closed connection fails, and the hub's
\* select picks a waiting readPump.
PumpFairness ==
  \A c \in Clients :
    /\ WF_vars(Start(c))
    /\ WF_vars(conn[c] = "closed" /\ ReadFails(c))
    /\ SF_vars(Unregister(c))
    /\ WF_vars(ReaderCloses(c))
    /\ SF_vars(TakeMessage(c)) /\ SF_vars(WriterFinishes(c))
    /\ WF_vars(WriteMessage(c) \/ EndPing(c) \/ WriteFails(c) \/ WriterCloses(c))

HubFairSpec == Spec /\ HubFairness
FairSpec == HubFairSpec /\ PumpFairness

-----------------------------------------------------------------------------
(* Properties *)

\* Type invariant: the hub, the registry and the pumps are well formed.
TypeOK ==
  /\ hub \in HubStates
  /\ registered \subseteq Clients
  /\ taken \in [Users -> 0 .. MaxMessages]
  /\ send \in [Clients -> Seq(Messages)]
  /\ \A c \in Clients : Len(send[c]) =< BufferSize
  /\ closes \in [Clients -> Nat]
  /\ conn \in [Clients -> {"none", "open", "closed"}]
  /\ reader \in [Clients -> {"none", "register", "start", "read", "unregister",
                             "close", "done"}]
  /\ writer \in [Clients -> Writers]
  /\ received \in [Clients -> Seq(Messages)]
  /\ shutdown \in BOOLEAN

\* No operation of the hub on a channel panics: no channel is closed twice, and
\* none it may still send to or close is closed, although readPump, a full buffer
\* and the shutdown all drop clients.
NoPanic ==
  /\ \A c \in Clients : closes[c] =< 1
  /\ \A c \in registered \cup hub.todo : closes[c] = 0

Consecutive(s) == \A i \in 1 .. Len(s) - 1 : s[i + 1] = s[i] + 1

\* What a connection receives has no gap: from its first message on, every
\* message the hub took for the user, in order, until the connection ends.
NoGaps == \A c \in Clients : Consecutive(received[c])

\* A registered client is up to date: the newest message the hub took for its
\* user is buffered, being written or received, unless the hub is about to
\* serve it or it was registered later, or its writer has died.
UpToDate ==
  \A c \in registered :
    LET stream == received[c]
                    \o (IF writer[c].pc = "write" THEN <<writer[c].message>> ELSE <<>>)
                    \o send[c]
    IN stream # <<>> /\ writer[c].pc # "done" =>
         stream[Len(stream)] =
           taken[UserOf[c]] - (IF c \in hub.todo /\ hub.pc = "fanout" THEN 1 ELSE 0)

\* A client whose connection is closed leaves the registry.
ClosedClientsLeave ==
  \A c \in Clients : conn[c] = "closed" ~> c \notin registered

\* A client the hub has cut off loses its connection.
DroppedClientsDisconnect ==
  \A c \in Clients : closes[c] > 0 ~> conn[c] = "closed"

\* Shutdown ends the hub, whatever its clients do meanwhile: connect, fall
\* behind, or stop without a word.  The one exception ends the whole process: its
\* close frame to a client meets a frame that the client's writePump is writing
\* (Run: case <-h.shutdown).
ShutdownStops == shutdown ~> hub.pc \in {"stopped", "crashed"}
=============================================================================
