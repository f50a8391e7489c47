---------------------------- MODULE RowLifecycle ----------------------------
(***************************************************************************)
(* What staging review promises of each row, whatever requests it serves:  *)
(* an open row resolves to a job or is discarded, a discarded row can be   *)
(* reopened, and a resolved row is final: it keeps its job and can be      *)
(* neither discarded nor reopened.                                         *)
(***************************************************************************)
CONSTANTS Row, Job, NoJob

VARIABLES
    state,   \* state[r]: "open", "discarded" or "resolved"
    job      \* job[r]: the job a resolved row resolved to

vars == <<state, job>>

Init ==
    /\ state \in [Row -> {"open", "discarded"}]
    /\ job = [r \in Row |-> NoJob]

(* What may become of one row in one step.                                 *)
RowStep(r) ==
    \/ state'[r] = state[r] /\ job'[r] = job[r]
    \/ /\ state[r] = "open"
       /\ state'[r] = "resolved"
       /\ job'[r] \in Job
    \/ /\ state[r] = "open"
       /\ state'[r] = "discarded"
       /\ job'[r] = NoJob
    \/ /\ state[r] = "discarded"
       /\ state'[r] = "open"
       /\ job'[r] = NoJob

Next == \A r \in Row : RowStep(r)

Spec == Init /\ [][Next]_vars
=============================================================================
