----------------------------- MODULE WsHubProofs -----------------------------
(***************************************************************************)
(* What the hub promises for any number of clients, any buffer size and    *)
(* any number of messages.                                                 *)
(***************************************************************************)
EXTENDS WsHub, TLAPS

\* A client is dropped once, after it was registered, and the hub's loops only
\* run over clients it still has.
DropsOK ==
  /\ \A c \in Clients : closes[c] \in {0, 1}
  /\ \A c \in Clients : closes[c] = 1 => c \notin registered
  /\ \A c \in Clients : reader[c] \in {"none", "register"} =>
       closes[c] = 0 /\ c \notin registered
  /\ hub.todo \subseteq registered
  /\ hub.pc \in {"busy", "select", "stopped", "crashed"} => hub.todo = {}

\* A client that has not been started has nothing.
FreshOK ==
  \A c \in Clients :
    /\ reader[c] \in {"none", "register"} => send[c] = <<>>
    /\ reader[c] \in {"none", "register", "start"} =>
         writer[c] = NoWriter /\ received[c] = <<>>

\* The message of a fan-out is the newest of the user it goes to.
MessageOK ==
  hub.pc = "fanout" =>
    hub.message \in Messages /\ \A c \in hub.todo : hub.message = taken[UserOf[c]]

\* What was received, is being written and is buffered follows on.
InOrder(got, w, buf) ==
  /\ got # <<>> /\ w.pc = "write" => w.message = got[Len(got)] + 1
  /\ buf # <<>> /\ w.pc = "write" => buf[1] = w.message + 1
  /\ got # <<>> /\ buf # <<>> /\ w.pc # "write" => buf[1] = got[Len(got)] + 1

\* ... up to the newest message, where nothing is buffered.
EndsWith(got, w, buf, top) ==
  /\ buf = <<>> /\ w.pc = "write" => w.message = top
  /\ buf = <<>> /\ w.pc # "write" /\ got # <<>> => got[Len(got)] = top

Newest(c) ==
  taken[UserOf[c]] - (IF c \in hub.todo /\ hub.pc = "fanout" THEN 1 ELSE 0)

StreamOK(c) ==
  /\ Consecutive(received[c])
  /\ Consecutive(send[c])
  /\ c \in registered /\ send[c] # <<>> => send[c][Len(send[c])] = Newest(c)
  /\ writer[c].pc # "done" =>
       /\ InOrder(received[c], writer[c], send[c])
       /\ c \in registered => EndsWith(received[c], writer[c], send[c], Newest(c))

StreamsOK == \A c \in Clients : StreamOK(c)

IInv == TypeOK /\ DropsOK /\ FreshOK /\ MessageOK /\ StreamsOK

LEMMA Constants ==
  /\ Select \in HubStates /\ Select.pc = "select" /\ Select.todo = {}
  /\ Busy \in HubStates /\ Busy.pc = "busy" /\ Busy.todo = {}
  /\ NoWriter \in Writers /\ WriterWaits \in Writers /\ WriterDone \in Writers
  /\ NoWriter.pc = "none" /\ WriterWaits.pc = "select" /\ WriterDone.pc = "done"
  /\ WriterPings \in Writers /\ WriterPings.pc = "ping"
  /\ WriterEnds \in Writers /\ WriterEnds.pc = "close"
BY DEF Select, Busy, HubStates, Writers, NoWriter, WriterWaits, WriterDone, WriterPings,
       WriterEnds

-----------------------------------------------------------------------------
(* Sequences of messages *)

LEMMA AppendFollows ==
  ASSUME NEW q \in Seq(Messages), NEW m \in Messages, Consecutive(q),
         q # <<>> => m = q[Len(q)] + 1
  PROVE  /\ Append(q, m) \in Seq(Messages)
         /\ Consecutive(Append(q, m))
         /\ Append(q, m) # <<>>
         /\ Append(q, m)[Len(Append(q, m))] = m
         /\ Len(Append(q, m)) = Len(q) + 1
         /\ q # <<>> => Append(q, m)[1] = q[1]
         /\ q = <<>> => Append(q, m)[1] = m
<1> DEFINE r == Append(q, m)
<1>1. /\ r \in Seq(Messages) /\ Len(r) = Len(q) + 1 /\ r[Len(q) + 1] = m
      /\ \A i \in 1 .. Len(q) : r[i] = q[i]
  OBVIOUS
<1>2. Len(q) \in Nat /\ (q = <<>> <=> Len(q) = 0) /\ (r = <<>> <=> Len(r) = 0)
  BY <1>1
<1>3. \A i \in 1 .. Len(q) - 1 : q[i + 1] = q[i] + 1
  BY DEF Consecutive
<1> HIDE DEF r
<1>4. Consecutive(r)
  <2> SUFFICES ASSUME NEW i \in 1 .. Len(r) - 1 PROVE r[i + 1] = r[i] + 1
    BY DEF Consecutive
  <2>1. CASE i = Len(q)
    BY <1>1, <1>2, <2>1
  <2>2. CASE i # Len(q)
    <3>1. i \in 1 .. Len(q) - 1 /\ i + 1 \in 1 .. Len(q)
      BY <1>1, <1>2, <2>2
    <3> QED BY <1>1, <1>3, <3>1
  <2> QED BY <2>1, <2>2
<1>5. r # <<>> /\ r[Len(r)] = m
  BY <1>1, <1>2
<1>6. (q # <<>> => r[1] = q[1]) /\ (q = <<>> => r[1] = m)
  BY <1>1, <1>2
<1> QED BY <1>1, <1>4, <1>5, <1>6 DEF r

LEMMA TailFollows ==
  ASSUME NEW q \in Seq(Messages), q # <<>>, Consecutive(q)
  PROVE  /\ Tail(q) \in Seq(Messages)
         /\ Consecutive(Tail(q))
         /\ Head(q) \in Messages /\ Head(q) = q[1]
         /\ Len(Tail(q)) = Len(q) - 1
         /\ Tail(q) # <<>> => Tail(q)[1] = Head(q) + 1 /\ Tail(q)[Len(Tail(q))] = q[Len(q)]
         /\ Tail(q) = <<>> => Head(q) = q[Len(q)]
<1>1. Len(q) \in Nat /\ Len(q) >= 1 /\ Head(q) = q[1] /\ q[1] \in Messages
  OBVIOUS
<1>2. Tail(q) \in Seq(Messages) /\ Len(Tail(q)) = Len(q) - 1
  OBVIOUS
<1>3. \A i \in 1 .. Len(q) - 1 : Tail(q)[i] = q[i + 1]
  OBVIOUS
<1>4. \A i \in 1 .. Len(q) - 1 : q[i + 1] = q[i] + 1
  BY DEF Consecutive
<1>5. Consecutive(Tail(q))
  <2> SUFFICES ASSUME NEW i \in 1 .. Len(Tail(q)) - 1 PROVE Tail(q)[i + 1] = Tail(q)[i] + 1
    BY DEF Consecutive
  <2>1. i \in 1 .. Len(q) - 1 /\ i + 1 \in 1 .. Len(q) - 1
    BY <1>1, <1>2
  <2>2. Tail(q)[i] = q[i + 1] /\ Tail(q)[i + 1] = q[(i + 1) + 1]
    BY <1>3, <2>1
  <2> QED BY <1>4, <2>1, <2>2
<1>6. Tail(q) # <<>> => Tail(q)[1] = Head(q) + 1 /\ Tail(q)[Len(Tail(q))] = q[Len(q)]
  <2> SUFFICES ASSUME Tail(q) # <<>>
               PROVE  Tail(q)[1] = Head(q) + 1 /\ Tail(q)[Len(Tail(q))] = q[Len(q)]
    OBVIOUS
  <2>1. Len(q) - 1 >= 1
    BY <1>1, <1>2
  <2>2. 1 \in 1 .. Len(q) - 1 /\ Len(q) - 1 \in 1 .. Len(q) - 1
    BY <1>1, <2>1
  <2>3. Tail(q)[1] = q[1 + 1] /\ Tail(q)[Len(q) - 1] = q[(Len(q) - 1) + 1]
    BY <1>3, <2>2
  <2>4. (Len(q) - 1) + 1 = Len(q)
    BY <1>1
  <2> QED BY <1>1, <1>2, <1>4, <2>2, <2>3, <2>4
<1>7. Tail(q) = <<>> => Head(q) = q[Len(q)]
  BY <1>1, <1>2
<1> QED BY <1>1, <1>2, <1>5, <1>6, <1>7

\* The last element of a concatenation.
LEMMA LastOf ==
  ASSUME NEW S, NEW a \in Seq(S), NEW b \in Seq(S), NEW s, s = a \o b
  PROVE  /\ s \in Seq(S)
         /\ b # <<>> => s[Len(s)] = b[Len(b)]
         /\ b = <<>> => s = a
<1>1. /\ s \in Seq(S) /\ Len(s) = Len(a) + Len(b)
      /\ Len(a) \in Nat /\ Len(b) \in Nat
      /\ b # <<>> => Len(b) >= 1
  OBVIOUS
<1>2. \A i \in 1 .. Len(a) + Len(b) : i > Len(a) => s[i] = b[i - Len(a)]
  OBVIOUS
<1>3. b # <<>> => s[Len(a) + Len(b)] = b[(Len(a) + Len(b)) - Len(a)]
  BY <1>1, <1>2
<1>4. (Len(a) + Len(b)) - Len(a) = Len(b)
  BY <1>1
<1>5. b = <<>> => s = a
  OBVIOUS
<1> QED BY <1>1, <1>3, <1>4, <1>5

\* A client whose messages stay where they are, and for which the hub takes none.
LEMMA StreamKept ==
  ASSUME NEW d \in Clients, StreamOK(d),
         UNCHANGED <<received[d], send[d]>>,
         \/ UNCHANGED writer[d]
         \/ writer'[d].pc = "done"
         \/ /\ writer[d].pc \in {"none", "select", "ping", "close"}
            /\ writer'[d].pc \in {"none", "select", "ping", "close"},
         d \in registered' => d \in registered /\ Newest(d)' = Newest(d)
  PROVE  StreamOK(d)'
BY DEF StreamOK, InOrder, EndsWith

-----------------------------------------------------------------------------
(* The connection handler *)

LEMMA HandlerSound ==
  ASSUME IInv, NEW c \in Clients,
         Connect(c) \/ Register(c) \/ RegisterRefused(c) \/ Start(c)
  PROVE  IInv'
<1>1. TypeOK'
  BY Constants DEF IInv, TypeOK, Connect, Register, RegisterRefused, Start, Move, CloseConn
<1>2. /\ send' = send /\ received' = received /\ taken' = taken /\ closes' = closes
      /\ \A d \in Clients \ {c} : reader'[d] = reader[d] /\ writer'[d] = writer[d]
      /\ reader[c] \in {"none", "register", "start"}
      /\ reader'[c] # "none"
      /\ reader'[c] \in {"none", "register"} => reader[c] \in {"none", "register"}
      /\ reader'[c] \in {"none", "register", "start"} => writer'[c] = writer[c]
      /\ writer'[c] = IF reader[c] = "start" THEN WriterWaits ELSE writer[c]
  BY DEF IInv, TypeOK, Connect, Register, RegisterRefused, Start, Move
<1>3. \/ hub' = hub /\ registered' = registered
      \/ /\ hub.pc = "select" /\ hub' = Busy
         /\ registered' = registered \cup {c}
         /\ reader[c] = "register" /\ reader'[c] = "start"
  BY DEF IInv, TypeOK, Connect, Register, RegisterRefused, Start, Move, Select
<1>4. DropsOK'
  <2>1. CASE hub' = hub /\ registered' = registered
    BY <1>2, <2>1 DEF IInv, DropsOK
  <2>2. CASE /\ hub.pc = "select" /\ hub' = Busy
             /\ registered' = registered \cup {c}
             /\ reader[c] = "register" /\ reader'[c] = "start"
    <3>1. closes[c] = 0 /\ hub.todo = {} /\ hub'.todo = {}
      BY <2>2 DEF IInv, DropsOK, Busy, Select
    <3> QED BY <1>2, <2>2, <3>1 DEF IInv, DropsOK
  <2> QED BY <1>3, <2>1, <2>2
<1>5. FreshOK'
  BY <1>2 DEF IInv, FreshOK
<1>6. MessageOK'
  BY <1>2, <1>3 DEF IInv, MessageOK, Busy, Select
<1>7. ASSUME NEW d \in Clients PROVE StreamOK(d)'
  <2>1. CASE d = c /\ reader[c] = "register" /\ registered' = registered \cup {c}
    <3>1. send'[c] = <<>> /\ received'[c] = <<>> /\ writer'[c].pc = "none"
      BY <1>2, <2>1, Constants DEF IInv, FreshOK
    <3> QED BY <2>1, <3>1 DEF StreamOK, InOrder, EndsWith, Consecutive
  <2>2. CASE ~(d = c /\ reader[c] = "register" /\ registered' = registered \cup {c})
    <3>1. d \in registered' => d \in registered
      BY <1>3, <2>2
    <3>2. Newest(d)' = Newest(d)
      BY <1>2, <1>3 DEF Newest, Busy, Select
    <3>3. \/ writer'[d] = writer[d]
          \/ writer[d].pc = "none" /\ writer'[d].pc = "select"
      BY <1>2 DEF IInv, FreshOK, NoWriter, WriterWaits
    <3> QED BY <1>2, <3>1, <3>2, <3>3, StreamKept DEF IInv, StreamsOK
  <2> QED BY <2>1, <2>2
<1> QED BY <1>1, <1>4, <1>5, <1>6, <1>7 DEF IInv, StreamsOK

-----------------------------------------------------------------------------
(* Run *)

LEMMA LoopSound ==
  ASSUME IInv, Loop \/ FanOutDone \/ Shutdown \/ BeginClosing \/ Stop
  PROVE  IInv'
<1>1. /\ UNCHANGED <<registered, taken, send, closes, conn, reader, writer, received>>
      /\ shutdown' \in BOOLEAN
      /\ \/ hub' = hub
         \/ hub.pc # "fanout" /\ hub'.pc # "fanout"
         \/ hub.todo = {} /\ hub'.pc # "fanout"
      /\ hub' \in HubStates
      /\ \/ hub' = hub
         \/ hub'.todo = {}
         \/ hub'.todo = registered /\ hub'.pc = "closing"
  <2>1. CASE Loop \/ FanOutDone
    BY <2>1, Constants DEF Loop, FanOutDone, IInv, TypeOK
  <2>2. CASE Shutdown
    BY <2>2 DEF Shutdown, IInv, TypeOK
  <2>3. CASE BeginClosing
    BY <2>3 DEF BeginClosing, Select, HubStates, IInv, TypeOK
  <2>4. CASE Stop
    BY <2>4 DEF Stop, Select, HubStates, IInv, TypeOK
  <2> QED BY <2>1, <2>2, <2>3, <2>4
<1>2. TypeOK'
  BY <1>1 DEF IInv, TypeOK
<1>3. DropsOK'
  BY <1>1 DEF IInv, DropsOK
<1>4. FreshOK'
  BY <1>1 DEF IInv, FreshOK
<1>5. MessageOK'
  BY <1>1 DEF IInv, MessageOK
<1>6. ASSUME NEW d \in Clients PROVE StreamOK(d)'
  <2>1. Newest(d)' = Newest(d)
    BY <1>1 DEF Newest
  <2> QED BY <1>1, <2>1, StreamKept DEF IInv, StreamsOK
<1> QED BY <1>2, <1>3, <1>4, <1>5, <1>6 DEF IInv, StreamsOK

LEMMA DropSound ==
  ASSUME IInv, NEW c \in Clients,
         \/ Unregister(c)
         \/ CloseSend(c)
         \/ FanOut(c) /\ Drop(c) /\ UNCHANGED send
  PROVE  IInv'
<1>1. /\ UNCHANGED <<taken, send, writer, received, shutdown>>
      /\ conn' \in [Clients -> {"none", "open", "closed"}]
      /\ reader' \in [Clients -> {"none", "register", "start", "read", "unregister",
                                  "close", "done"}]
      /\ \A d \in Clients : reader'[d] = reader[d] \/ reader'[d] = "close"
  BY DEF Unregister, CloseSend, FanOut, Serve, Move, IInv, TypeOK
<1>2. \/ closes' = closes /\ registered' = registered /\ c \notin registered
      \/ /\ c \in registered /\ registered' = registered \ {c}
         /\ closes' = [closes EXCEPT ![c] = @ + 1]
  BY DEF Unregister, CloseSend, FanOut, Serve, Drop, IInv, DropsOK
<1>3. /\ hub' \in HubStates
      /\ \/ hub.pc = "select" /\ hub.todo = {} /\ hub'.pc = "busy" /\ hub'.todo = {}
         \/ /\ hub.pc \in {"closing", "fanout"} /\ hub'.pc = hub.pc
            /\ hub'.todo = hub.todo \ {c} /\ hub'.message = hub.message
  <2>1. CASE Unregister(c)
    BY <2>1, Constants DEF Unregister
  <2>2. CASE FanOut(c)
    BY <2>2 DEF FanOut, Serve, HubStates, IInv, TypeOK
  <2>3. CASE CloseSend(c)
    <3>1. /\ hub.pc = "closing" /\ hub \in HubStates
          /\ hub' = [hub EXCEPT !.todo = hub.todo \ {c}, !.frame = {c}]
      BY <2>3 DEF CloseSend, IInv, TypeOK
    <3> QED BY <3>1 DEF HubStates
  <2> QED BY <2>1, <2>2, <2>3
<1>4. /\ closes' \in [Clients -> Nat]
      /\ registered' \subseteq Clients
      /\ \A d \in Clients : closes'[d] \in {0, 1} /\ (closes'[d] = 1 => d \notin registered')
      /\ \A d \in Clients : closes'[d] = closes[d] \/ (d \in registered /\ d = c)
  <2>1. CASE closes' = closes /\ registered' = registered
    BY <2>1 DEF IInv, TypeOK, DropsOK
  <2>2. CASE /\ c \in registered /\ registered' = registered \ {c}
             /\ closes' = [closes EXCEPT ![c] = @ + 1]
    <3>1. closes[c] = 0
      BY <2>2 DEF IInv, TypeOK, DropsOK
    <3>2. closes'[c] = 1 /\ \A d \in Clients \ {c} : closes'[d] = closes[d]
      BY <2>2, <3>1 DEF IInv, TypeOK
    <3>3. closes' \in [Clients -> Nat] /\ registered' \subseteq Clients
      BY <2>2, <3>1 DEF IInv, TypeOK
    <3> QED BY <2>2, <3>2, <3>3 DEF IInv, DropsOK
  <2> QED BY <1>2, <2>1, <2>2
<1>5. TypeOK'
  BY <1>1, <1>3, <1>4 DEF IInv, TypeOK
<1>6. DropsOK'
  <2>1. hub'.todo \subseteq registered'
    BY <1>2, <1>3 DEF IInv, DropsOK
  <2>2. \A d \in Clients : reader'[d] \in {"none", "register"} =>
          closes'[d] = 0 /\ d \notin registered'
    BY <1>1, <1>2, <1>4 DEF IInv, DropsOK
  <2> QED BY <1>3, <1>4, <2>1, <2>2 DEF DropsOK
<1>7. FreshOK'
  BY <1>1 DEF IInv, FreshOK
<1>8. MessageOK'
  BY <1>1, <1>3 DEF IInv, MessageOK
<1>9. ASSUME NEW d \in Clients PROVE StreamOK(d)'
  <2>1. d \in registered' => d \in registered /\ Newest(d)' = Newest(d)
    BY <1>1, <1>2, <1>3 DEF Newest
  <2> QED BY <1>1, <2>1, StreamKept DEF IInv, StreamsOK
<1> QED BY <1>5, <1>6, <1>7, <1>8, <1>9 DEF IInv, StreamsOK

LEMMA CloseSound ==
  ASSUME IInv, NEW c \in Clients, CloseClient(c)
  PROVE  IInv'
<1>1. /\ UNCHANGED <<registered, taken, send, closes, reader, writer, received, shutdown>>
      /\ conn' \in [Clients -> {"none", "open", "closed"}]
      /\ hub' \in HubStates /\ hub'.pc = hub.pc /\ hub'.todo = hub.todo
      /\ hub'.message = hub.message
  BY DEF CloseClient, CloseConn, HubStates, IInv, TypeOK
<1>2. TypeOK' /\ DropsOK' /\ FreshOK' /\ MessageOK'
  BY <1>1 DEF IInv, TypeOK, DropsOK, FreshOK, MessageOK
<1>3. ASSUME NEW d \in Clients PROVE StreamOK(d)'
  <2>1. Newest(d)' = Newest(d)
    BY <1>1 DEF Newest
  <2> QED BY <1>1, <2>1, StreamKept DEF IInv, StreamsOK
<1> QED BY <1>2, <1>3 DEF IInv, StreamsOK

LEMMA CrashSound ==
  ASSUME IInv, NEW c \in Clients, ConcurrentWrite(c)
  PROVE  IInv'
<1>1. /\ UNCHANGED <<taken, send, closes, received, shutdown>>
      /\ registered' = {}
      /\ conn' \in [Clients -> {"none", "open", "closed"}]
      /\ reader' = [d \in Clients |-> "done"]
      /\ writer' = [d \in Clients |-> WriterDone]
      /\ hub' \in HubStates /\ hub'.pc = "crashed" /\ hub'.todo = {}
  BY DEF ConcurrentWrite, Select, HubStates, IInv, TypeOK
<1>2. \A d \in Clients : reader'[d] = "done" /\ writer'[d].pc = "done"
  BY <1>1, Constants
<1>3. TypeOK'
  BY <1>1, Constants DEF IInv, TypeOK
<1>4. DropsOK' /\ FreshOK' /\ MessageOK'
  BY <1>1, <1>2 DEF IInv, DropsOK, FreshOK, MessageOK
<1>5. ASSUME NEW d \in Clients PROVE StreamOK(d)'
  BY <1>1, <1>2, StreamKept DEF IInv, StreamsOK
<1> QED BY <1>3, <1>4, <1>5 DEF IInv, StreamsOK

LEMMA SendSound ==
  ASSUME IInv, NEW u \in Users, SendToUser(u)
  PROVE  IInv'
<1>1. /\ UNCHANGED <<registered, send, closes, conn, reader, writer, received, shutdown>>
      /\ hub.pc = "select" /\ hub.todo = {} /\ taken[u] < MaxMessages
      /\ taken' = [taken EXCEPT ![u] = @ + 1]
      /\ hub' = [pc |-> "fanout", todo |-> {c \in registered : UserOf[c] = u},
                 message |-> taken[u] + 1, frame |-> {}]
  BY Constants DEF SendToUser, Select
<1>2. taken[u] \in 0 .. MaxMessages /\ MaxMessages \in Nat
  BY HubAssumption DEF IInv, TypeOK
<1>3. taken[u] + 1 \in Messages /\ taken' \in [Users -> 0 .. MaxMessages] /\ taken'[u] = taken[u] + 1
  BY <1>1, <1>2 DEF IInv, TypeOK, Messages
<1>4. hub' \in HubStates
  BY <1>1, <1>3 DEF IInv, TypeOK, HubStates
<1>5. TypeOK'
  BY <1>1, <1>3, <1>4 DEF IInv, TypeOK
<1>6. DropsOK' /\ FreshOK'
  BY <1>1 DEF IInv, DropsOK, FreshOK
<1>7. MessageOK'
  BY <1>1, <1>3 DEF MessageOK
<1>8. ASSUME NEW d \in Clients PROVE StreamOK(d)'
  <2>1. UserOf[d] \in Users /\ taken[UserOf[d]] \in Int
    BY HubAssumption DEF IInv, TypeOK
  <2>2. d \in registered' => Newest(d)' = Newest(d)
    <3>1. CASE UserOf[d] = u
      BY <1>1, <1>2, <1>3, <3>1 DEF Newest
    <3>2. CASE UserOf[d] # u
      BY <1>1, <2>1, <3>2 DEF Newest, IInv, TypeOK
    <3> QED BY <3>1, <3>2
  <2> QED BY <1>1, <2>2, StreamKept DEF IInv, StreamsOK
<1> QED BY <1>5, <1>6, <1>7, <1>8 DEF IInv, StreamsOK

LEMMA BufferSound ==
  ASSUME IInv, NEW c \in Clients, FanOut(c), Len(send[c]) < BufferSize, Buffer(c)
  PROVE  IInv'
<1> DEFINE m == hub.message
<1>1. /\ UNCHANGED <<taken, conn, reader, writer, received, shutdown, closes, registered>>
      /\ hub.pc = "fanout" /\ c \in hub.todo /\ hub' = [hub EXCEPT !.todo = @ \ {c}]
      /\ send' = [send EXCEPT ![c] = Append(@, m)]
  BY DEF FanOut, Serve, Buffer
<1>2. /\ hub' \in HubStates /\ hub'.pc = "fanout" /\ hub'.message = m
      /\ hub'.todo = hub.todo \ {c}
  BY <1>1 DEF HubStates, IInv, TypeOK
<1>3. /\ c \in registered /\ m \in Messages /\ m = taken[UserOf[c]] /\ m \in Int
      /\ send[c] \in Seq(Messages) /\ Consecutive(send[c]) /\ StreamOK(c)
  BY <1>1 DEF IInv, DropsOK, MessageOK, TypeOK, Messages, StreamsOK, StreamOK
<1>4. Newest(c) = m - 1 /\ Newest(c)' = m
  BY <1>1, <1>2, <1>3 DEF Newest
<1>5. /\ send'[c] = Append(send[c], m)
      /\ \A d \in Clients \ {c} : send'[d] = send[d]
  BY <1>1 DEF IInv, TypeOK
<1> HIDE DEF m
<1>6. /\ Append(send[c], m) \in Seq(Messages)
      /\ Consecutive(Append(send[c], m))
      /\ Append(send[c], m) # <<>>
      /\ Append(send[c], m)[Len(Append(send[c], m))] = m
      /\ Len(Append(send[c], m)) = Len(send[c]) + 1
      /\ send[c] # <<>> => Append(send[c], m)[1] = send[c][1]
      /\ send[c] = <<>> => Append(send[c], m)[1] = m
  <2>1. send[c] # <<>> => m = send[c][Len(send[c])] + 1
    BY <1>3, <1>4 DEF StreamOK
  <2> QED BY <1>3, <2>1, AppendFollows
<1>7. StreamOK(c)'
  <2>1. CASE writer[c].pc = "done"
    BY <1>1, <1>3, <1>4, <1>5, <1>6, <2>1 DEF StreamOK
  <2>2. CASE writer[c].pc # "done"
    <3>1. send[c] = <<>> /\ writer[c].pc = "write" => m = writer[c].message + 1
      BY <1>3, <1>4, <2>2 DEF StreamOK, EndsWith, IInv, TypeOK, Messages
    <3>2. send[c] = <<>> /\ writer[c].pc # "write" /\ received[c] # <<>> =>
            m = received[c][Len(received[c])] + 1
      BY <1>3, <1>4, <2>2 DEF StreamOK, EndsWith
    <3>3. InOrder(received[c], writer[c], send[c])'
      BY <1>1, <1>3, <1>5, <1>6, <2>2, <3>1, <3>2 DEF StreamOK, InOrder
    <3>4. EndsWith(received[c], writer[c], send[c], Newest(c))'
      BY <1>4, <1>5, <1>6 DEF EndsWith
    <3> QED BY <1>1, <1>3, <1>4, <1>5, <1>6, <3>3, <3>4 DEF StreamOK
  <2> QED BY <2>1, <2>2
<1>8. ASSUME NEW d \in Clients PROVE StreamOK(d)'
  <2>1. CASE d = c
    BY <1>7, <2>1
  <2>2. CASE d # c
    <3>1. Newest(d)' = Newest(d)
      BY <1>1, <1>2, <2>2 DEF Newest
    <3> QED BY <1>1, <1>5, <2>2, <3>1, StreamKept DEF IInv, StreamsOK
  <2> QED BY <2>1, <2>2
<1>9. TypeOK'
  <2>1. send' \in [Clients -> Seq(Messages)]
    BY <1>1, <1>5, <1>6 DEF IInv, TypeOK
  <2>2. \A d \in Clients : Len(send'[d]) =< BufferSize
    <3>1. Len(send[c]) \in Nat /\ BufferSize \in Nat
      BY <1>3, HubAssumption
    <3> QED BY <1>5, <1>6, <3>1 DEF IInv, TypeOK
  <2> QED BY <1>1, <1>2, <2>1, <2>2 DEF IInv, TypeOK
<1>10. DropsOK'
  BY <1>1, <1>2 DEF IInv, DropsOK
<1>11. FreshOK'
  BY <1>1, <1>3, <1>5 DEF IInv, FreshOK, DropsOK
<1>12. MessageOK'
  BY <1>1, <1>2 DEF IInv, MessageOK
<1> QED BY <1>8, <1>9, <1>10, <1>11, <1>12 DEF IInv, StreamsOK

-----------------------------------------------------------------------------
(* The pumps *)

LEMMA ReaderSound ==
  ASSUME IInv, NEW c \in Clients, ReadFails(c) \/ ReaderCloses(c)
  PROVE  IInv'
<1>1. /\ UNCHANGED <<hub, registered, taken, send, closes, writer, received, shutdown>>
      /\ conn' \in [Clients -> {"none", "open", "closed"}]
      /\ reader' \in [Clients -> {"none", "register", "start", "read", "unregister",
                                  "close", "done"}]
      /\ \A d \in Clients : reader'[d] = reader[d] \/ reader'[d] \in {"unregister", "done"}
  BY DEF ReadFails, ReaderCloses, Move, CloseConn, IInv, TypeOK
<1>2. TypeOK' /\ DropsOK' /\ FreshOK' /\ MessageOK'
  BY <1>1 DEF IInv, TypeOK, DropsOK, FreshOK, MessageOK
<1>3. ASSUME NEW d \in Clients PROVE StreamOK(d)'
  <2>1. Newest(d)' = Newest(d)
    BY <1>1 DEF Newest
  <2> QED BY <1>1, <2>1, StreamKept DEF IInv, StreamsOK
<1> QED BY <1>2, <1>3 DEF IInv, StreamsOK

\* A step of one client's writePump.
LEMMA WriterSound ==
  ASSUME IInv, NEW c \in Clients, StreamOK(c)',
         UNCHANGED <<hub, registered, taken, closes, reader, shutdown>>,
         conn' \in [Clients -> {"none", "open", "closed"}],
         writer[c].pc # "none",
         NEW w \in Writers,
         NEW buf \in Seq(Messages), Len(buf) =< Len(send[c]),
         NEW got \in Seq(Messages),
         writer' = [writer EXCEPT ![c] = w],
         send' = [send EXCEPT ![c] = buf],
         received' = [received EXCEPT ![c] = got]
  PROVE  IInv'
<1>1. \A d \in Clients \ {c} :
        writer'[d] = writer[d] /\ send'[d] = send[d] /\ received'[d] = received[d]
  BY DEF IInv, TypeOK
<1>2. TypeOK'
  <2>1. \A d \in Clients : Len(send'[d]) =< BufferSize
    <3>1. Len(send[c]) \in Nat /\ BufferSize \in Nat /\ Len(buf) \in Nat
      BY HubAssumption DEF IInv, TypeOK
    <3>2. send'[c] = buf
      BY DEF IInv, TypeOK
    <3> QED BY <1>1, <3>1, <3>2 DEF IInv, TypeOK
  <2>2. /\ writer' \in [Clients -> Writers]
        /\ send' \in [Clients -> Seq(Messages)] /\ received' \in [Clients -> Seq(Messages)]
    BY DEF IInv, TypeOK
  <2> QED BY <2>1, <2>2 DEF IInv, TypeOK
<1>3. DropsOK' /\ MessageOK'
  BY DEF IInv, DropsOK, MessageOK
<1>4. FreshOK'
  <2>1. reader[c] \notin {"none", "register", "start"}
    BY Constants DEF IInv, FreshOK
  <2> QED BY <1>1, <2>1 DEF IInv, FreshOK
<1>5. ASSUME NEW d \in Clients, d # c PROVE StreamOK(d)'
  <2>1. Newest(d)' = Newest(d)
    BY DEF Newest
  <2> QED BY <1>1, <1>5, <2>1, StreamKept DEF IInv, StreamsOK
<1> QED BY <1>2, <1>3, <1>4, <1>5 DEF IInv, StreamsOK

LEMMA PumpSound ==
  ASSUME IInv, NEW c \in Clients,
         \/ TakeMessage(c) \/ WriteMessage(c) \/ WriteFails(c)
         \/ BeginPing(c) \/ EndPing(c) \/ WriterFinishes(c) \/ WriterCloses(c)
  PROVE  IInv'
<1>1. /\ StreamOK(c)
      /\ send[c] \in Seq(Messages) /\ received[c] \in Seq(Messages)
      /\ Consecutive(send[c]) /\ Consecutive(received[c])
      /\ writer[c] \in Writers
  BY DEF IInv, TypeOK, StreamsOK, StreamOK
<1>2. CASE TakeMessage(c)
  <2> DEFINE w == [pc |-> "write", message |-> Head(send[c])]
  <2>1. /\ UNCHANGED <<hub, registered, taken, closes, conn, reader, shutdown, received>>
        /\ writer[c] = WriterWaits /\ send[c] # <<>>
        /\ writer' = [writer EXCEPT ![c] = w]
        /\ send' = [send EXCEPT ![c] = Tail(send[c])]
    BY <1>2 DEF TakeMessage
  <2>2. /\ Tail(send[c]) \in Seq(Messages)
        /\ Consecutive(Tail(send[c]))
        /\ Head(send[c]) \in Messages /\ Head(send[c]) = send[c][1]
        /\ Len(Tail(send[c])) = Len(send[c]) - 1
        /\ Tail(send[c]) # <<>> => /\ Tail(send[c])[1] = Head(send[c]) + 1
                                   /\ Tail(send[c])[Len(Tail(send[c]))] = send[c][Len(send[c])]
        /\ Tail(send[c]) = <<>> => Head(send[c]) = send[c][Len(send[c])]
    BY <1>1, <2>1, TailFollows
  <2>3. writer'[c] = w /\ send'[c] = Tail(send[c]) /\ received'[c] = received[c]
    BY <2>1 DEF IInv, TypeOK
  <2>4. Newest(c)' = Newest(c)
    BY <2>1 DEF Newest
  <2>5. w.pc = "write" /\ w.message = Head(send[c]) /\ writer[c].pc = "select"
    BY <2>1, Constants
  <2>6. w \in Writers
    BY <2>2 DEF Writers
  <2> HIDE DEF w
  <2>7. InOrder(received[c], writer[c], send[c])'
    BY <1>1, <2>1, <2>2, <2>3, <2>5 DEF StreamOK, InOrder
  <2>8. StreamOK(c)'
    BY <1>1, <2>1, <2>2, <2>3, <2>4, <2>5, <2>7 DEF StreamOK, EndsWith
  <2>9. Len(Tail(send[c])) =< Len(send[c])
    BY <1>1, <2>2
  <2>10. received' = [received EXCEPT ![c] = received[c]]
    BY <2>1 DEF IInv, TypeOK
  <2>11. conn' \in [Clients -> {"none", "open", "closed"}]
    BY <2>1 DEF IInv, TypeOK
  <2> QED BY <1>1, <2>1, <2>2, <2>5, <2>6, <2>8, <2>9, <2>10, <2>11, WriterSound
<1>3. CASE Receive(c) /\ (WriteMessage(c) \/ WriteFails(c))
  <2> DEFINE got == Append(received[c], writer[c].message)
  <2>1. /\ UNCHANGED <<hub, registered, taken, send, closes, reader, shutdown>>
        /\ writer[c].pc = "write"
        /\ received' = [received EXCEPT ![c] = got]
        /\ conn' \in [Clients -> {"none", "open", "closed"}]
    BY <1>3 DEF WriteMessage, WriteFails, Receive, CloseConn, IInv, TypeOK
  <2>2. PICK w \in {WriterWaits, WriterDone} : writer' = [writer EXCEPT ![c] = w]
    BY <1>3 DEF WriteMessage, WriteFails
  <2>3. writer[c].message \in Messages
    BY <1>1, <2>1 DEF Writers
  <2>4. received[c] # <<>> => writer[c].message = received[c][Len(received[c])] + 1
    BY <1>1, <2>1 DEF StreamOK, InOrder
  <2>5. /\ got \in Seq(Messages) /\ Consecutive(got) /\ got # <<>>
        /\ got[Len(got)] = writer[c].message
    BY <1>1, <2>3, <2>4, AppendFollows
  <2> HIDE DEF got
  <2>6. writer'[c] = w /\ send'[c] = send[c] /\ received'[c] = got
    BY <2>1, <2>2 DEF IInv, TypeOK
  <2>7. Newest(c)' = Newest(c)
    BY <2>1 DEF Newest
  <2>8. StreamOK(c)'
    BY <1>1, <2>1, <2>2, <2>5, <2>6, <2>7, Constants DEF StreamOK, InOrder, EndsWith
  <2>9. send' = [send EXCEPT ![c] = send[c]]
    BY <2>1 DEF IInv, TypeOK
  <2>10. Len(send[c]) =< Len(send[c]) /\ w \in Writers
    BY <1>1, <2>2, Constants
  <2> QED BY <1>1, <2>1, <2>2, <2>5, <2>8, <2>9, <2>10, WriterSound
<1>4. CASE \/ WriteFails(c) /\ UNCHANGED received
           \/ BeginPing(c) \/ EndPing(c) \/ WriterFinishes(c) \/ WriterCloses(c)
  <2>1. /\ UNCHANGED <<hub, registered, taken, send, closes, reader, shutdown, received>>
        /\ conn' \in [Clients -> {"none", "open", "closed"}]
    BY <1>4 DEF WriteFails, BeginPing, EndPing, WriterFinishes, WriterCloses, CloseConn,
                IInv, TypeOK
  <2>2. PICK w \in {WriterWaits, WriterPings, WriterEnds, WriterDone} :
          /\ writer' = [writer EXCEPT ![c] = w]
          /\ writer[c].pc # "none"
          /\ w = WriterDone \/ writer[c].pc \in {"select", "ping"}
    BY <1>4, Constants DEF WriteFails, BeginPing, EndPing, WriterFinishes, WriterCloses
  <2>3. writer'[c] = w /\ Newest(c)' = Newest(c)
    BY <2>1, <2>2 DEF IInv, TypeOK, Newest
  <2>4. StreamOK(c)'
    BY <1>1, <2>1, <2>2, <2>3, StreamKept, Constants
  <2>5. /\ send' = [send EXCEPT ![c] = send[c]]
        /\ received' = [received EXCEPT ![c] = received[c]]
        /\ Len(send[c]) =< Len(send[c])
    BY <1>1, <2>1 DEF IInv, TypeOK
  <2>6. w \in Writers
    BY <2>2, Constants
  <2> QED BY <1>1, <2>1, <2>2, <2>4, <2>5, <2>6, WriterSound
<1>5. (WriteMessage(c) => Receive(c)) /\ (WriteFails(c) => UNCHANGED received \/ Receive(c))
  BY DEF WriteMessage, WriteFails
<1> QED BY <1>2, <1>3, <1>4, <1>5

-----------------------------------------------------------------------------
(* The theorems *)

LEMMA InitSound == Init => IInv
<1> SUFFICES ASSUME Init PROVE IInv
  OBVIOUS
<1>1. TypeOK
  <2>1. <<>> \in Seq(Messages) /\ Len(<<>>) =< BufferSize
    BY HubAssumption
  <2>2. /\ hub \in HubStates /\ registered \subseteq Clients
        /\ shutdown \in BOOLEAN
    BY Constants DEF Init
  <2>6. taken \in [Users -> 0 .. MaxMessages]
    <3>1. 0 \in 0 .. MaxMessages
      BY HubAssumption
    <3> QED BY <3>1 DEF Init
  <2>3. /\ send \in [Clients -> Seq(Messages)] /\ received \in [Clients -> Seq(Messages)]
        /\ \A c \in Clients : Len(send[c]) =< BufferSize
    BY <2>1 DEF Init
  <2>4. closes \in [Clients -> Nat] /\ writer \in [Clients -> Writers]
    BY Constants DEF Init
  <2>5. /\ conn \in [Clients -> {"none", "open", "closed"}]
        /\ reader \in [Clients -> {"none", "register", "start", "read", "unregister",
                                   "close", "done"}]
    BY DEF Init
  <2> QED BY <2>2, <2>3, <2>4, <2>5, <2>6 DEF TypeOK
<1>2. DropsOK /\ FreshOK /\ MessageOK
  BY Constants DEF Init, DropsOK, FreshOK, MessageOK
<1>3. StreamsOK
  BY Constants DEF Init, StreamsOK, StreamOK, InOrder, EndsWith, Consecutive
<1> QED BY <1>1, <1>2, <1>3 DEF IInv

LEMMA NextSound == IInv /\ [Next]_vars => IInv'
<1> SUFFICES ASSUME IInv, [Next]_vars PROVE IInv'
  OBVIOUS
<1>1. CASE Loop \/ FanOutDone \/ Shutdown \/ BeginClosing \/ Stop
  BY <1>1, LoopSound
<1>2. CASE \E u \in Users : SendToUser(u)
  BY <1>2, SendSound
<1>3. ASSUME NEW c \in Clients,
             Connect(c) \/ Register(c) \/ RegisterRefused(c) \/ Start(c)
      PROVE  IInv'
  BY <1>3, HandlerSound
<1>4. ASSUME NEW c \in Clients,
             Unregister(c) \/ CloseSend(c) \/ CloseClient(c) \/ ConcurrentWrite(c)
      PROVE  IInv'
  BY <1>4, DropSound, CloseSound, CrashSound
<1>5. ASSUME NEW c \in Clients, FanOut(c) PROVE IInv'
  BY <1>5, DropSound, BufferSound DEF FanOut
<1>6. ASSUME NEW c \in Clients, ReadFails(c) \/ ReaderCloses(c) PROVE IInv'
  BY <1>6, ReaderSound
<1>7. ASSUME NEW c \in Clients,
             \/ TakeMessage(c) \/ WriteMessage(c) \/ WriteFails(c)
             \/ BeginPing(c) \/ EndPing(c) \/ WriterFinishes(c) \/ WriterCloses(c)
      PROVE  IInv'
  BY <1>7, PumpSound
<1>8. CASE UNCHANGED vars
  BY <1>8 DEF vars, IInv, TypeOK, DropsOK, FreshOK, MessageOK, StreamsOK,
              StreamOK, InOrder, EndsWith, Newest
<1> QED BY <1>1, <1>2, <1>3, <1>4, <1>5, <1>6, <1>7, <1>8 DEF Next

LEMMA Invariance == Spec => []IInv
BY InitSound, NextSound, PTL DEF Spec

\* The hub, the registry and the pumps stay well formed; no buffer outgrows
\* its capacity.
THEOREM TypeCorrect == Spec => []TypeOK
<1>1. IInv => TypeOK
  BY DEF IInv
<1> QED BY <1>1, Invariance, PTL

\* No channel is closed twice, sent to or closed after it was closed: the
\* registry is what tells, and only the hub's goroutine changes it.
THEOREM HubNeverPanics == Spec => []NoPanic
<1>1. IInv => NoPanic
  <2> SUFFICES ASSUME IInv PROVE NoPanic
    OBVIOUS
  <2>1. \A c \in Clients : closes[c] \in {0, 1} /\ (c \in registered => closes[c] = 0)
    BY DEF IInv, DropsOK
  <2>2. registered \cup hub.todo \subseteq registered /\ registered \subseteq Clients
    BY DEF IInv, DropsOK, TypeOK
  <2>3. \A c \in Clients : closes[c] =< 1
    BY <2>1
  <2>4. \A c \in registered \cup hub.todo : closes[c] = 0
    BY <2>1, <2>2
  <2> QED BY <2>3, <2>4 DEF NoPanic
<1> QED BY <1>1, Invariance, PTL

\* A connection receives the user's messages without a gap, however slow its
\* client is and whenever the hub cuts it off.
THEOREM ReceivedWithoutGaps == Spec => []NoGaps
<1>1. IInv => NoGaps
  BY DEF IInv, StreamsOK, StreamOK, NoGaps
<1> QED BY <1>1, Invariance, PTL

\* A registered client is up to date: what the hub has not handed to its
\* buffer, nobody has sent.
THEOREM RegisteredUpToDate == Spec => []UpToDate
<1>1. IInv => UpToDate
  <2> SUFFICES ASSUME IInv, NEW c \in registered PROVE
        LET stream == received[c]
                        \o (IF writer[c].pc = "write" THEN <<writer[c].message>> ELSE <<>>)
                        \o send[c]
        IN stream # <<>> /\ writer[c].pc # "done" => stream[Len(stream)] = Newest(c)
    BY DEF UpToDate, Newest
  <2> DEFINE w == IF writer[c].pc = "write" THEN <<writer[c].message>> ELSE <<>>
             stream == received[c] \o w \o send[c]
             S == Messages
  <2>1. /\ received[c] \in Seq(S) /\ send[c] \in Seq(S) /\ writer[c] \in Writers
        /\ StreamOK(c)
    BY DEF IInv, TypeOK, StreamsOK
  <2>2. w \in Seq(S)
    BY <2>1 DEF Writers
  <2>3. SUFFICES ASSUME stream # <<>>, writer[c].pc # "done"
                 PROVE  stream[Len(stream)] = Newest(c)
    OBVIOUS
  <2>4. /\ writer[c].pc = "write" => w # <<>> /\ w[Len(w)] = writer[c].message
        /\ writer[c].pc # "write" => w = <<>>
    OBVIOUS
  <2>5. /\ send[c] # <<>> => send[c][Len(send[c])] = Newest(c)
        /\ EndsWith(received[c], writer[c], send[c], Newest(c))
    BY <2>1, <2>3 DEF StreamOK
  <2> HIDE DEF w, S
  <2>6. received[c] \o w \in Seq(S)
    BY <2>1, <2>2
  <2>7. stream = (received[c] \o w) \o send[c]
    OBVIOUS
  <2>8. PICK a \in Seq(S) : a = received[c] \o w /\ stream = a \o send[c]
    BY <2>6, <2>7
  <2> HIDE DEF stream
  <2>9. CASE send[c] # <<>>
    <3>1. send[c] \in Seq(S) /\ a \in Seq(S) /\ stream = a \o send[c] /\ send[c] # <<>>
      BY <2>1, <2>8, <2>9
    <3>2. stream[Len(stream)] = send[c][Len(send[c])]
      BY <3>1, LastOf
    <3> QED BY <2>5, <2>9, <3>2
  <2>10. CASE send[c] = <<>> /\ writer[c].pc = "write"
    <3>1. stream = received[c] \o w
      BY <2>1, <2>8, <2>10, LastOf
    <3>2. w # <<>> /\ w[Len(w)] = writer[c].message
      BY <2>4, <2>10
    <3>3. received[c] \in Seq(S) /\ w \in Seq(S)
      BY <2>1, <2>2
    <3>4. stream[Len(stream)] = w[Len(w)]
      BY <3>1, <3>2, <3>3, LastOf
    <3> QED BY <2>5, <2>10, <3>2, <3>4 DEF EndsWith
  <2>11. CASE send[c] = <<>> /\ writer[c].pc # "write"
    <3>1. w = <<>>
      BY <2>4, <2>11
    <3>2. stream = received[c]
      BY <2>1, <2>2, <2>8, <2>11, <3>1, LastOf
    <3> QED BY <2>3, <2>5, <2>11, <3>2 DEF EndsWith
  <2> QED BY <2>9, <2>10, <2>11
<1> QED BY <1>1, Invariance, PTL
=============================================================================
