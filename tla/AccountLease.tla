---------------------------- MODULE AccountLease ----------------------------
(***************************************************************************)
(* What every user of the account pool promises it, whatever path it takes:  *)
(* it takes an account, and settles it, once.                               *)
(*                                                                          *)
(* A user is whoever has to settle a selection: a request in the failover   *)
(* loop, a stream, a websocket, a retry, a fetch of the models.  The mark   *)
(* it leaves on the account is in_flight_requests, by which                 *)
(* least_in_flight balances and by which a deleted account is kept until    *)
(* its last user is gone: both go wrong for good if one path settles twice, *)
(* or not at all.                                                           *)
(***************************************************************************)
EXTENDS Integers, FiniteSets

CONSTANTS
  Accounts,
  Users,
  Nobody     \* what a user of no account holds

VARIABLES
  lease,   \* the account each user has still to settle
  count    \* in_flight_requests of each account

vars == <<lease, count>>

HeldBy(a) == {u \in Users : lease[u] = a}

Init ==
  /\ lease \in [Users -> Accounts \cup {Nobody}]
  /\ count = [a \in Accounts |-> Cardinality(HeldBy(a))]

\* select_account
Take(u, a) ==
  /\ lease[u] = Nobody
  /\ lease' = [lease EXCEPT ![u] = a]
  /\ count' = [count EXCEPT ![a] = @ + 1]

\* apply_account_settlement
Settle(u) ==
  /\ lease[u] # Nobody
  /\ lease' = [lease EXCEPT ![u] = Nobody]
  /\ count' = [count EXCEPT ![lease[u]] = @ - 1]

\* User u settles what it has and goes on with the account of user v.
TakeOver(u, v) ==
  /\ u # v /\ lease[u] # Nobody /\ lease[v] # Nobody
  /\ lease' = [lease EXCEPT ![u] = lease[v], ![v] = Nobody]
  /\ count' = [count EXCEPT ![lease[u]] = @ - 1]

Next ==
  \E u \in Users :
    \/ \E a \in Accounts : Take(u, a)
    \/ Settle(u)
    \/ \E v \in Users : TakeOver(u, v)

Spec == Init /\ [][Next]_vars

\* An account is marked with as many requests as have still to settle it.
CountExact ==
  /\ lease \in [Users -> Accounts \cup {Nobody}]
  /\ count = [a \in Accounts |-> Cardinality(HeldBy(a))]
=============================================================================
