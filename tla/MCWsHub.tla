------------------------------ MODULE MCWsHub ------------------------------
(***************************************************************************)
(* Small instances of WsHub: one or two connections of one user.           *)
(***************************************************************************)
EXTENDS WsHub, TLC

CONSTANTS c1, c2, u1

MCClients == {c1, c2}
MCUserOf == [c \in Clients |-> u1]
=============================================================================
