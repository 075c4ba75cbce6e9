----------------------------- MODULE LeasePool -----------------------------
(***************************************************************************)
(* What a connection pool promises, without semaphore, deque or clock: a   *)
(* client is lent a connection nobody else has, reused or new, and the     *)
(* connections kept or lent never exceed Limit.                            *)
(***************************************************************************)
EXTENDS Naturals, FiniteSets

CONSTANTS Clients, Conns, NoConn, Limit

VARIABLES
    kept,   \* open connections nobody is using
    lease,  \* the connection lent to each client
    gone    \* open connections withdrawn from the pool

leaseVars == <<kept, lease, gone>>

Lent == {lease[t] : t \in Clients} \ {NoConn}
Borrowers == {t \in Clients : lease[t] # NoConn}

LeaseInit ==
    /\ kept = {}
    /\ lease = [t \in Clients |-> NoConn]
    /\ gone = {}

(* A kept connection is lent; others may be discarded on the way. *)
Reuse(t) ==
    /\ lease[t] = NoConn
    /\ \E c \in kept :
          /\ lease' = [lease EXCEPT ![t] = c]
          /\ kept' \in SUBSET (kept \ {c})
    /\ UNCHANGED gone

(* A new connection is opened, if there is room for it. *)
Create(t) ==
    /\ lease[t] = NoConn
    /\ Cardinality(kept) + Cardinality(Borrowers) < Limit
    /\ \E c \in Conns \ (kept \cup Lent \cup gone) :
          lease' = [lease EXCEPT ![t] = c]
    /\ UNCHANGED <<kept, gone>>

(* A lease ends: the connection is kept, or closed. *)
GiveBack(t) ==
    /\ lease[t] # NoConn
    /\ kept' \in {kept, kept \cup {lease[t]}}
    /\ lease' = [lease EXCEPT ![t] = NoConn]
    /\ UNCHANGED gone

Withdraw(t) ==
    /\ lease[t] # NoConn
    /\ gone' = gone \cup {lease[t]}
    /\ lease' = [lease EXCEPT ![t] = NoConn]
    /\ UNCHANGED kept

Discard ==
    /\ kept' \in SUBSET kept
    /\ gone' \in SUBSET gone
    /\ UNCHANGED lease

LeaseNext ==
    \/ \E t \in Clients : Reuse(t) \/ Create(t) \/ GiveBack(t) \/ Withdraw(t)
    \/ Discard

LeaseSpec == LeaseInit /\ [][LeaseNext]_leaseVars
=============================================================================
