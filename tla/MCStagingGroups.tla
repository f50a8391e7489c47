-------------------------- MODULE MCStagingGroups --------------------------
(* Small instances of StagingGroups for TLC.                               *)
EXTENDS StagingGroups, TLC

CONSTANTS r1, r2, r3, b1, b2

(* One live workbook.                                                      *)
OneBatch == [r \in Row |-> b1]
OneLive == [b \in Batch |-> "live"]

(* A live workbook with two rows and a historical one with one row.        *)
TwoBatches == [r \in Row |-> IF r = r3 THEN b2 ELSE b1]
LiveAndHistorical == [b \in Batch |-> IF b = b2 THEN "historical" ELSE "live"]

(* Row, Job, Ident and Worker values are interchangeable; of the rows only *)
(* those of one batch are.                                                 *)
SymmetryOneBatch ==
    Permutations(Row) \union Permutations(Job) \union Permutations(Ident)
        \union Permutations(Worker)
SymmetryTwoBatches ==
    Permutations({r1, r2}) \union Permutations(Job) \union Permutations(Ident)
        \union Permutations(Worker)
=============================================================================
