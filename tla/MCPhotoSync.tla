----------------------------- MODULE MCPhotoSync -----------------------------
(***************************************************************************)
(* PhotoSync for TLC: a photo of the first day, which is at rest when the  *)
(* server starts, and one of the second, which arrives.                    *)
(***************************************************************************)
EXTENDS PhotoSync

CONSTANTS p1, p2

Dates == [p \in Photo |-> IF p = p1 THEN 1 ELSE 2]

(* Directories that are not nested overlap only themselves.                *)
SameOnly == {<<d, d>> : d \in Dir}

MCInit == Init /\ source[p1] = "settled"

MCSpec == MCInit /\ [][Next]_vars /\ Fairness
=============================================================================
