---------------------------- MODULE Notifications ----------------------------
(***************************************************************************)
(* Notifications and the connections they are pushed to                    *)
(* (internal/service/notification_service.go, ws_auth_service.go,          *)
(* internal/app/ws_ticket_redis.go, handler/ws_handler.go).                *)
(*                                                                         *)
(* After its response a call hands a request to a goroutine of its own,    *)
(* which looks up the recipients, stores a row for each and pushes every   *)
(* row from one more goroutine.  A browser gets a ticket for its access    *)
(* token and opens a connection with it.  The process may crash: its       *)
(* goroutines and connections are gone, the rows and the tickets in Redis  *)
(* are not.  The hub is WsHub; here a push is one step.                    *)
(***************************************************************************)
EXTENDS Integers, FiniteSets

CONSTANTS
  Workers,        \* bound: notifications being sent at the same time
  Users,
  NoticeIds,      \* bound: rows of notifications
  TicketIds,      \* bound: tickets ever issued
  Connections,    \* bound: connections ever opened
  Ttl,            \* of a ticket
  LastTick,       \* bound on the clock
  None            \* no value

VARIABLES
  clock,
  notices,      \* rows of notifications
  workers,      \* what each goroutine of Notify does next
  tickets,      \* what was issued, and whether Redis still has it
  connections

vars == <<clock, notices, workers, tickets, connections>>

Times == 0..LastTick

\* lookups counts the queries left: by employee, by role, by permission.
NoticeRows == [user : Users, read : BOOLEAN]
WorkerStates == [pc : {"idle", "resolving", "delivering"}, users : SUBSET Users,
                 lookups : 0..3, notices : SUBSET NoticeIds]
TicketRows == [user : Users, token : Times, expires : Times, stored : BOOLEAN]
ConnectionRows == [ticket : TicketIds, user : Users, since : Times,
                   state : {"accepted", "open", "closed"}, shown : SUBSET NoticeIds]

Idle == [pc |-> "idle", users |-> {}, lookups |-> 0, notices |-> {}]

NotificationsAssumption ==
  /\ Ttl \in Nat \ {0}
  /\ LastTick \in Nat
  /\ None \notin Users /\ None \notin TicketIds
  /\ None \notin NoticeRows /\ None \notin TicketRows /\ None \notin ConnectionRows

Init ==
  /\ clock = 0
  /\ notices = [n \in NoticeIds |-> None]
  /\ workers = [w \in Workers |-> Idle]
  /\ tickets = [t \in TicketIds |-> None]
  /\ connections = [c \in Connections |-> None]

Tick ==
  /\ clock < LastTick
  /\ clock' = clock + 1
  /\ UNCHANGED <<notices, workers, tickets, connections>>

-----------------------------------------------------------------------------
(* The worker *)

Notify(w, users, lookups) ==
  /\ workers[w] = Idle
  /\ workers' = [workers EXCEPT ![w] = [Idle EXCEPT !.pc = "resolving", !.users = users,
                                                    !.lookups = lookups]]
  /\ UNCHANGED <<clock, notices, tickets, connections>>

\* One query; what it finds is up to the roles and employees of the moment.
ResolveRecipients(w) ==
  /\ workers[w].pc = "resolving" /\ workers[w].lookups > 0
  /\ \E found \in SUBSET Users :
       workers' = [workers EXCEPT ![w].users = @ \cup found, ![w].lookups = @ - 1]
  /\ UNCHANGED <<clock, notices, tickets, connections>>

\* One INSERT for all recipients; nothing to do without any.
CreateNotifications(w) ==
  /\ workers[w].pc = "resolving" /\ workers[w].lookups = 0
  /\ LET users == workers[w].users IN
     \E ids \in SUBSET {n \in NoticeIds : notices[n] = None},
        owner \in [NoticeIds -> Users] :
       /\ {owner[n] : n \in ids} = users
       /\ Cardinality(ids) = Cardinality(users)
       /\ notices' = [n \in NoticeIds |->
                        IF n \in ids THEN [user |-> owner[n], read |-> FALSE] ELSE notices[n]]
       /\ workers' = [workers EXCEPT ![w] =
                        IF ids = {} THEN Idle
                        ELSE [Idle EXCEPT !.pc = "delivering", !.notices = ids]]
  /\ UNCHANGED <<clock, tickets, connections>>

\* A query fails, or the 30 seconds are over: nothing is tried again.
Fail(w) ==
  /\ workers[w].pc = "resolving"
  /\ workers' = [workers EXCEPT ![w] = Idle]
  /\ UNCHANGED <<clock, notices, tickets, connections>>

OpenFor(u) ==
  {c \in Connections : connections[c] # None /\ connections[c].state = "open"
                                             /\ connections[c].user = u}

Delivered(w, n) ==
  LET left == workers[w].notices \ {n} IN
  workers' = [workers EXCEPT ![w] = IF left = {} THEN Idle ELSE [@ EXCEPT !.notices = left]]

\* The hub takes the message and cuts off the clients whose buffer is full.
Deliver(w, n) ==
  /\ n \in workers[w].notices
  /\ \E slow \in SUBSET OpenFor(notices[n].user) :
       connections' = [c \in Connections |->
         CASE c \in slow -> [connections[c] EXCEPT !.state = "closed"]
           [] c \in OpenFor(notices[n].user) \ slow ->
                [connections[c] EXCEPT !.shown = @ \cup {n}]
           [] OTHER -> connections[c]]
  /\ Delivered(w, n)
  /\ UNCHANGED <<clock, notices, tickets>>

\* The hub is busy: the message is dropped and not sent again.
DropMessage(w, n) ==
  /\ n \in workers[w].notices
  /\ Delivered(w, n)
  /\ UNCHANGED <<clock, notices, tickets, connections>>

-----------------------------------------------------------------------------
(* The user's calls *)

MarkAsRead(n, u) ==
  /\ notices[n] # None /\ notices[n].user = u /\ ~notices[n].read
  /\ notices' = [notices EXCEPT ![n].read = TRUE]
  /\ UNCHANGED <<clock, workers, tickets, connections>>

MarkAllAsRead(u) ==
  /\ notices' = [n \in NoticeIds |->
                   IF notices[n] # None /\ notices[n].user = u
                   THEN [notices[n] EXCEPT !.read = TRUE] ELSE notices[n]]
  /\ UNCHANGED <<clock, workers, tickets, connections>>

Earlier(a, b) == IF a < b THEN a ELSE b

\* A ticket lives no longer than the access token it is issued for.
IssueTicket(t, u, token) ==
  LET expires == Earlier(clock + Ttl, token) IN
  /\ tickets[t] = None
  /\ expires > clock
  /\ tickets' = [tickets EXCEPT ![t] =
       [user |-> u, token |-> token, expires |-> expires, stored |-> TRUE]]
  /\ UNCHANGED <<clock, notices, workers, connections>>

\* Redis drops the key at its expiry, by its own clock.
Evict(t) ==
  /\ tickets[t] # None /\ tickets[t].stored
  /\ clock >= tickets[t].expires
  /\ tickets' = [tickets EXCEPT ![t].stored = FALSE]
  /\ UNCHANGED <<clock, notices, workers, connections>>

Accept(c, t) ==
  IF clock > tickets[t].expires
  THEN UNCHANGED connections
  ELSE connections' = [connections EXCEPT ![c] =
         [ticket |-> t, user |-> tickets[t].user, since |-> clock,
          state |-> "accepted", shown |-> {}]]

\* Mutant: GET in the place of GETDEL.
ConsumeTicketTwice(c, t) ==
  /\ connections[c] = None
  /\ tickets[t] # None /\ tickets[t].stored
  /\ Accept(c, t)
  /\ UNCHANGED <<clock, notices, workers, tickets>>

\* GETDEL, and only then the look at the time.
ConsumeTicket(c, t) ==
  /\ connections[c] = None
  /\ tickets[t] # None /\ tickets[t].stored
  /\ tickets' = [tickets EXCEPT ![t].stored = FALSE]
  /\ Accept(c, t)
  /\ UNCHANGED <<clock, notices, workers>>

Goto(c, from, to) ==
  /\ connections[c] # None /\ connections[c].state \in from
  /\ connections' = [connections EXCEPT ![c].state = to]
  /\ UNCHANGED <<clock, notices, workers, tickets>>

\* Upgraded and registered with the hub.
Connect(c) == Goto(c, {"accepted"}, "open")

\* The upgrade fails, the hub is busy, or the peer goes: the ticket is spent.
Disconnect(c) == Goto(c, {"accepted", "open"}, "closed")

Crash ==
  /\ workers' = [w \in Workers |-> Idle]
  /\ connections' = [c \in Connections |->
       IF connections[c] = None THEN None ELSE [connections[c] EXCEPT !.state = "closed"]]
  /\ UNCHANGED <<clock, notices, tickets>>

Next ==
  \/ Tick
  \/ \E w \in Workers :
       \/ \E users \in SUBSET Users, lookups \in 0..3 : Notify(w, users, lookups)
       \/ ResolveRecipients(w) \/ CreateNotifications(w) \/ Fail(w)
       \/ \E n \in NoticeIds : Deliver(w, n) \/ DropMessage(w, n)
  \/ \E u \in Users : MarkAllAsRead(u) \/ \E n \in NoticeIds : MarkAsRead(n, u)
  \/ \E t \in TicketIds :
       \/ \E u \in Users, token \in Times : IssueTicket(t, u, token)
       \/ Evict(t)
       \/ \E c \in Connections : ConsumeTicket(c, t)
  \/ \E c \in Connections : Connect(c) \/ Disconnect(c)
  \/ Crash

Spec == Init /\ [][Next]_vars

-----------------------------------------------------------------------------
(* Properties *)

TypeOK ==
  /\ clock \in Times
  /\ notices \in [NoticeIds -> NoticeRows \cup {None}]
  /\ workers \in [Workers -> WorkerStates]
  /\ tickets \in [TicketIds -> TicketRows \cup {None}]
  /\ connections \in [Connections -> ConnectionRows \cup {None}]

Opened == {c \in Connections : connections[c] # None}

\* A ticket opens one connection, while the access token it was issued for is
\* valid, and what that connection is shown is stored for the user of that
\* token: across lookups, pushes, crashes and tickets presented twice.
PushesReachTheirUser ==
  \A c \in Opened :
    LET ticket == tickets[connections[c].ticket] IN
    /\ \A d \in Opened : connections[d].ticket = connections[c].ticket => d = c
    /\ connections[c].since <= ticket.token
    /\ \A n \in connections[c].shown :
         notices[n] # None /\ notices[n].user = ticket.user
=============================================================================
