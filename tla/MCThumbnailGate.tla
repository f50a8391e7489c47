--------------------------- MODULE MCThumbnailGate ---------------------------
(***************************************************************************)
(* ThumbnailGate for TLC.  What key holds before a thread's first request  *)
(* is never read, so every thread may begin with the same; and photos are  *)
(* interchangeable, so it matters only whether one is cached at first.     *)
(***************************************************************************)
EXTENDS ThumbnailGate

CONSTANT k1

MCInit == Init /\ key = [t \in Thread |-> k1] /\ cached \in {{}, {k1}}

MCSpec == MCInit /\ [][Next]_vars /\ Fairness
=============================================================================
