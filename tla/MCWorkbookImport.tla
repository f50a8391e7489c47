-------------------------- MODULE MCWorkbookImport --------------------------
(* Small instances of WorkbookImport for TLC.                              *)
EXTENDS WorkbookImport, TLC

CONSTANTS r1, r2, r3, b1, b2, i1, i2, i3, p1, p2, f1, f2

(* The first two rows, in this order, are one workbook, the third another. *)
Batches == [r \in Row |-> IF r = r3 THEN b2 ELSE b1]
Positions == [r \in Row |-> IF r = r2 THEN 2 ELSE 1]

(* Every row belongs to a workbook of its own.                             *)
OneRowEach == [r \in Row |-> IF r = r2 THEN b2 ELSE b1]

Files == [b \in Batch |-> IF b = b2 THEN f2 ELSE f1]
OneFile == [b \in Batch |-> f1]

Live == [b \in Batch |-> "live"]
Historical == [b \in Batch |-> "historical"]

(* Two builds of one part, one of another.                                 *)
Parts == [i \in Ident |-> IF i = i3 THEN p2 ELSE p1]

(* Job ids are interchangeable, and so are request threads.                *)
Symmetry == Permutations(Job) \union Permutations(Worker)

(* A JOB cell that does not parse still shows the digits of the first part.*)
FirstPart == [r \in Row |-> IF r = r1 THEN {p1} ELSE {}]
=============================================================================
