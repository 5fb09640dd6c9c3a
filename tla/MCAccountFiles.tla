--------------------------- MODULE MCAccountFiles ---------------------------
(* Small instances of AccountFiles for TLC. *)
EXTENDS AccountFiles, TLC

\* Requests are interchangeable.
Symmetry == Permutations(Workers)

\* Token 0 is replaced by token 1 when it is used; token 2 is never replaced.
OneRotation == 0 :> 1

\* The directory holds token 0 twice, once under a name of the operator's choice.
OneFile == 0 :> 0

Duplicates == (0 :> 0) @@ (3 :> 0)
=============================================================================
