-------------------------- MODULE MCWebsocketProxy --------------------------
(* Small instances of WebsocketProxy for TLC. *)
EXTENDS WebsocketProxy

\* Accounts are interchangeable: the failover loop may choose any.
Symmetry == Permutations(Accounts)
=============================================================================
