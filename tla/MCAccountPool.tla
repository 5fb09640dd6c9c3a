--------------------------- MODULE MCAccountPool ---------------------------
(* Small instances of AccountPool for TLC. *)
EXTENDS AccountPool, TLC

\* Requests and accounts are interchangeable: the pool compares ids for
\* equality only, since the routing policy's choice is left open.
Symmetry == Permutations(Accounts) \cup Permutations(Requests)
=============================================================================
