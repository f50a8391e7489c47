--------------------------- MODULE BatchLifecycle ---------------------------
(***************************************************************************)
(* What an import promises of each workbook: while its batch is open, rows *)
(* leave the set still to be dealt with one request at a time; it closes   *)
(* as processed exactly when that set is empty, and as in error exactly    *)
(* when it is not; a closed batch is never touched again, except that one  *)
(* in error can be abandoned.                                              *)
(***************************************************************************)
CONSTANTS Batch

VARIABLES
    status,   \* status[b], "absent" before the upload
    open      \* open[b]: rows neither deleted nor resolved to a job

vars == <<status, open>>

Init == status = [b \in Batch |-> "absent"]

Opened == {"pending", "awaiting_review"}

(* What may become of one batch in one step.                               *)
BatchStep(b) ==
    \/ status'[b] = status[b] /\ open'[b] = open[b]
    \/ /\ status[b] = "absent"
       /\ status'[b] \in Opened
       /\ open'[b] = open[b]
    \/ /\ status[b] \in Opened
       /\ status'[b] = status[b]
       /\ open'[b] \subseteq open[b]
    \/ /\ status[b] \in Opened
       /\ status'[b] = IF open[b] = {} THEN "processed" ELSE "error"
       /\ open'[b] = open[b]
    \/ /\ status[b] \in {"awaiting_review", "error"}
       /\ status'[b] = "abandoned"
       /\ open'[b] = open[b]

Next == \A b \in Batch : BatchStep(b)

Spec == Init /\ [][Next]_vars
=============================================================================
