----------------------------- MODULE ConnService -----------------------------
(***************************************************************************)
(* What tcp.Server promises about its connections, whatever its pool of     *)
(* slots and its goroutines do: a connection that arrived is served or      *)
(* refused, at most `limit` of them are served at once, and the service of  *)
(* a connection is over only when the server has closed it, for good.       *)
(* TcpServer implements it (ImplementsService there).                       *)
(***************************************************************************)
EXTENDS Naturals, FiniteSets

CONSTANT Conns   \* the TCP connections that clients may open

VARIABLES
  limit,  \* the most connections served at once; 0: any number
  life    \* where every connection is in its life

vars == <<limit, life>>

Served  == {c \in Conns : life[c] = "served"}
Waiting == {c \in Conns : life[c] = "waiting"}

Init ==
  /\ limit \in Nat
  /\ life = [c \in Conns |-> "new"]

\* A client connects.
Arrive(c) ==
  /\ life[c] = "new"
  /\ life' = [life EXCEPT ![c] = "waiting"]
  /\ UNCHANGED limit

\* The accept loop gives the connection a slot and a goroutine.
Admit(c) ==
  /\ life[c] = "waiting"
  /\ limit = 0 \/ Cardinality(Served) < limit
  /\ life' = [life EXCEPT ![c] = "served"]
  /\ UNCHANGED limit

\* Connections nobody served are closed: one over the limit, or all that wait
\* when the listener is closed.
Refuse ==
  \E S \in SUBSET Waiting :
    /\ life' = [c \in Conns |-> IF c \in S THEN "over" ELSE life[c]]
    /\ UNCHANGED limit

\* The goroutine of the connection gives its slot back.
Release(c) ==
  /\ life[c] = "served"
  /\ life' = [life EXCEPT ![c] = "over"]
  /\ UNCHANGED limit

Next ==
  \/ \E c \in Conns : Arrive(c) \/ Admit(c) \/ Release(c)
  \/ Refuse

Spec == Init /\ [][Next]_vars
=============================================================================
