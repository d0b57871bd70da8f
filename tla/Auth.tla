-------------------------------- MODULE Auth --------------------------------
(***************************************************************************)
(* Logging in (internal/service/auth_service.go): the sessions table, the  *)
(* second factor of every user, and the two in-memory counters of failed   *)
(* attempts.                                                               *)
(*                                                                         *)
(* A request takes the time once, asks both counters, goes to the          *)
(* database, and then counts a failure or clears the counters; the mutex   *)
(* is free in between.  Passwords and codes are right or wrong, a token is *)
(* the session it names.                                                   *)
(***************************************************************************)
EXTENDS Integers, FiniteSets

CONSTANTS
  Requests,      \* bound: requests served at the same time
  Users,
  Ips,
  SessionIds,    \* bound: rows of sessions
  MaxFailures,   \* 5 in the code
  Window,        \* 15 minutes in the code
  Lifetime,      \* of a session
  LastTick,      \* bound on the clock
  None           \* no value

Keys == Users \cup Ips   \* an email address or a client's address
Stores == {"login", "code"}
Times == 0..LastTick
Deadlines == 0..(LastTick + Window + Lifetime)

VARIABLES
  clock,
  attempts,   \* loginAttempts and twoFAAttempts
  sessions,   \* rows of sessions: logins, and challenges for the second factor
  factor,     \* the second factor of every user
  pc,         \* what each request does next
  req         \* what it has in hand

vars == <<clock, attempts, sessions, factor, pc, req>>

\* locked is the end of the lock, or 0.
States == [count : Nat, first : Times, locked : Deadlines]
SessionRows == [user : Users, kind : {"login", "challenge"}, expires : Deadlines]
Factors == [enabled : BOOLEAN, secret : BOOLEAN, temp : BOOLEAN]
PCs == {"idle", "password", "session", "code", "spending", "enabling", "disabling"}
Reqs == [user : Users \cup {None}, ip : Ips \cup {None}, now : Times,
         session : SessionIds \cup {None}, kind : {"login", "challenge"}]
NoReq == [user |-> None, ip |-> None, now |-> 0, session |-> None, kind |-> "login"]

AuthAssumption ==
  /\ MaxFailures \in Nat \ {0}
  /\ Window \in Nat \ {0}
  /\ Lifetime \in Nat
  /\ LastTick \in Nat
  /\ IsFiniteSet(Requests)
  /\ Users \cap Ips = {}
  /\ None \notin Users /\ None \notin Ips /\ None \notin SessionIds
  /\ None \notin States /\ None \notin SessionRows

Init ==
  /\ clock = 0
  /\ attempts = [store \in Stores |-> [k \in Keys |-> None]]
  /\ sessions = [i \in SessionIds |-> None]
  /\ factor = [u \in Users |-> [enabled |-> FALSE, secret |-> FALSE, temp |-> FALSE]]
  /\ pc = [q \in Requests |-> "idle"]
  /\ req = [q \in Requests |-> NoReq]

Tick ==
  /\ clock < LastTick
  /\ clock' = clock + 1
  /\ UNCHANGED <<attempts, sessions, factor, pc, req>>

Goto(q, from, to) ==
  /\ pc[q] = from
  /\ pc' = [pc EXCEPT ![q] = to]

Return(q) ==
  /\ pc' = [pc EXCEPT ![q] = "idle"]
  /\ req' = [req EXCEPT ![q] = NoReq]

\* The database fails; a failure is not counted.
Fail(q) ==
  /\ pc[q] # "idle"
  /\ Return(q)
  /\ UNCHANGED <<clock, attempts, sessions, factor>>

-----------------------------------------------------------------------------
(* The counters *)

IsLocked(a, now) == a # None /\ a.locked > now

IsOld(a, now) == a # None /\ now - a.first > Window

\* Mutant: one failure more is let through.
IsFullTooLate(a) == a # None /\ a.count > MaxFailures

IsFull(a) == a # None /\ a.count >= MaxFailures

\* checkAttemptAllowed, by what it answers and by what it leaves behind.
Allowed(a, now) == ~IsLocked(a, now) /\ (IsFull(a) => IsOld(a, now))

Checked(a, now) ==
  IF IsLocked(a, now) THEN a
  ELSE IF IsOld(a, now) THEN None
  ELSE IF IsFull(a) THEN [a EXCEPT !.locked = now + Window]
  ELSE a

\* recordAttemptFailure.
Recorded(a, now) ==
  IF a = None \/ IsOld(a, now) THEN [count |-> 1, first |-> now, locked |-> 0]
  ELSE [a EXCEPT !.count = @ + 1]

RecordAttemptFailure(store, keys, now) ==
  attempts' = [attempts EXCEPT ![store] =
    [k \in Keys |-> IF k \in keys THEN Recorded(@[k], now) ELSE @[k]]]

ClearAttemptState(store, keys) ==
  attempts' = [attempts EXCEPT ![store] =
    [k \in Keys |-> IF k \in keys THEN None ELSE @[k]]]

-----------------------------------------------------------------------------
(* Login *)

\* The email is asked first; the client's address only when it may go on.
Login(q, u, ip) ==
  LET login == attempts["login"] IN
  /\ pc[q] = "idle"
  /\ IF Allowed(login[u], clock)
     THEN attempts' = [attempts EXCEPT !["login"][u] = Checked(@, clock),
                                       !["login"][ip] = Checked(@, clock)]
     ELSE attempts' = [attempts EXCEPT !["login"][u] = Checked(@, clock)]
  /\ IF Allowed(login[u], clock) /\ Allowed(login[ip], clock)
     THEN /\ pc' = [pc EXCEPT ![q] = "password"]
          /\ req' = [req EXCEPT ![q] = [NoReq EXCEPT !.user = u, !.ip = ip, !.now = clock]]
     ELSE UNCHANGED <<pc, req>>
  /\ UNCHANGED <<clock, sessions, factor>>

\* GetUserByEmail finds nobody, or the password is wrong.
RefusePassword(q) ==
  /\ pc[q] = "password"
  /\ RecordAttemptFailure("login", {req[q].user, req[q].ip}, req[q].now)
  /\ Return(q)
  /\ UNCHANGED <<clock, sessions, factor>>

AcceptPassword(q) ==
  /\ Goto(q, "password", "session")
  /\ ClearAttemptState("login", {req[q].user, req[q].ip})
  /\ req' = [req EXCEPT ![q] = [NoReq EXCEPT
       !.user = req[q].user,
       !.kind = IF factor[req[q].user].enabled THEN "challenge" ELSE "login"]]
  /\ UNCHANGED <<clock, sessions, factor>>

CreateSession(q, i) ==
  /\ pc[q] = "session"
  /\ sessions[i] = None
  /\ sessions' = [sessions EXCEPT ![i] =
       [user |-> req[q].user, kind |-> req[q].kind, expires |-> clock + Lifetime]]
  /\ Return(q)
  /\ UNCHANGED <<clock, attempts, factor>>

Logout(i) ==
  /\ sessions' = [sessions EXCEPT ![i] = None]
  /\ UNCHANGED <<clock, attempts, factor, pc, req>>

-----------------------------------------------------------------------------
(* Verify2FA: only the address's counter is asked *)

\* i is the session the token names, or None for a token that does not verify.
Verify2FA(q, i, ip) ==
  LET a == attempts["code"][ip]
      challenged == /\ sessions[i] # None
                    /\ sessions[i].kind = "challenge" /\ clock <= sessions[i].expires
                    /\ factor[sessions[i].user].secret
  IN
  /\ pc[q] = "idle"
  /\ attempts' = [attempts EXCEPT !["code"][ip] = Checked(@, clock)]
  /\ IF Allowed(a, clock) /\ (i = None \/ challenged)
     THEN /\ pc' = [pc EXCEPT ![q] = "code"]
          /\ req' = [req EXCEPT ![q] = [NoReq EXCEPT
                !.user = IF i = None THEN None ELSE sessions[i].user,
                !.ip = ip, !.now = clock, !.session = i]]
     ELSE UNCHANGED <<pc, req>>
  /\ UNCHANGED <<clock, sessions, factor>>

\* A token that does not verify counts against the address alone.
RefuseCode(q) ==
  /\ pc[q] = "code"
  /\ RecordAttemptFailure("code", {req[q].user, req[q].ip}, req[q].now)
  /\ Return(q)
  /\ UNCHANGED <<clock, sessions, factor>>

AcceptCode(q) ==
  /\ Goto(q, "code", "spending")
  /\ req[q].session # None
  /\ ClearAttemptState("code", {req[q].user, req[q].ip})
  /\ req' = [req EXCEPT ![q] = [NoReq EXCEPT !.user = req[q].user, !.session = req[q].session]]
  /\ UNCHANGED <<clock, sessions, factor>>

\* The challenge is deleted; when that fails the login goes on all the same.
SpendChallenge(q) ==
  /\ Goto(q, "spending", "session")
  /\ sessions' \in {sessions, [sessions EXCEPT ![req[q].session] = None]}
  /\ req' = [req EXCEPT ![q].session = None]
  /\ UNCHANGED <<clock, attempts, factor>>

-----------------------------------------------------------------------------
(* The second factor: read the user, check, write *)

Setup2FA(u) ==
  /\ ~factor[u].enabled
  /\ factor' = [factor EXCEPT ![u].temp = TRUE]
  /\ UNCHANGED <<clock, attempts, sessions, pc, req>>

Enable2FA(q, u) ==
  /\ Goto(q, "idle", "enabling")
  /\ ~factor[u].enabled /\ factor[u].temp
  /\ req' = [req EXCEPT ![q].user = u]
  /\ UNCHANGED <<clock, attempts, sessions, factor>>

StoreSecret(q) ==
  /\ pc[q] = "enabling"
  /\ factor' = [factor EXCEPT ![req[q].user] =
                  [enabled |-> TRUE, secret |-> TRUE, temp |-> FALSE]]
  /\ Return(q)
  /\ UNCHANGED <<clock, attempts, sessions>>

Disable2FA(q, u) ==
  /\ Goto(q, "idle", "disabling")
  /\ factor[u].enabled /\ factor[u].secret
  /\ req' = [req EXCEPT ![q].user = u]
  /\ UNCHANGED <<clock, attempts, sessions, factor>>

RemoveSecret(q) ==
  /\ pc[q] = "disabling"
  /\ factor' = [factor EXCEPT ![req[q].user] =
                  [enabled |-> FALSE, secret |-> FALSE, temp |-> FALSE]]
  /\ Return(q)
  /\ UNCHANGED <<clock, attempts, sessions>>

-----------------------------------------------------------------------------

Next ==
  \/ Tick
  \/ \E q \in Requests :
       \/ \E u \in Users, ip \in Ips : Login(q, u, ip)
       \/ RefusePassword(q)
       \/ AcceptPassword(q)
       \/ \E i \in SessionIds : CreateSession(q, i)
       \/ \E i \in SessionIds \cup {None}, ip \in Ips : Verify2FA(q, i, ip)
       \/ RefuseCode(q)
       \/ AcceptCode(q)
       \/ SpendChallenge(q)
       \/ \E u \in Users : Enable2FA(q, u) \/ Disable2FA(q, u)
       \/ StoreSecret(q)
       \/ RemoveSecret(q)
       \/ Fail(q)
  \/ \E i \in SessionIds : Logout(i)
  \/ \E u \in Users : Setup2FA(u)

Spec == Init /\ [][Next]_vars

-----------------------------------------------------------------------------
(* Properties *)

\* Every variable keeps its type.
TypeOK ==
  /\ clock \in Times
  /\ attempts \in [Stores -> [Keys -> States \cup {None}]]
  /\ sessions \in [SessionIds -> SessionRows \cup {None}]
  /\ factor \in [Users -> Factors]
  /\ pc \in [Requests -> PCs]
  /\ req \in [Requests -> Reqs]

\* Failures between two successes stop at the limit, or at the most one per
\* further request that was on its way when the limit was reached: the check
\* and the count are two critical sections (auth_service.go:952, 977).
\* (The email's counter of wrong codes is never asked, and not bounded.)
FailuresBounded ==
  \A k \in Keys :
    /\ attempts["login"][k] # None
         => attempts["login"][k].count < MaxFailures + Cardinality(Requests)
    /\ k \in Ips /\ attempts["code"][k] # None
         => attempts["code"][k].count < MaxFailures + Cardinality(Requests)
=============================================================================
