----------------------------- MODULE DecoderPool -----------------------------
(***************************************************************************)
(* What generating thumbnails promises: at most Limit photos are decoded   *)
(* at any time, and no photo by two threads.                               *)
(***************************************************************************)
EXTENDS Naturals, FiniteSets

CONSTANTS Key, Thread, NoThread, Limit

VARIABLE decoder    \* decoder[k]: the thread that decodes k, or NoThread

Init == decoder = [k \in Key |-> NoThread]

Busy == {k \in Key : decoder[k] # NoThread}

Start(t, k) ==
    /\ decoder[k] = NoThread
    /\ \A other \in Key : decoder[other] # t
    /\ Cardinality(Busy) < Limit
    /\ decoder' = [decoder EXCEPT ![k] = t]

Stop(k) ==
    /\ decoder[k] # NoThread
    /\ decoder' = [decoder EXCEPT ![k] = NoThread]

Next == \E k \in Key : Stop(k) \/ \E t \in Thread : Start(t, k)

Spec == Init /\ [][Next]_decoder
=============================================================================
