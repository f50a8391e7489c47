------------------------------ MODULE JobStore ------------------------------
(***************************************************************************)
(* The jobs table and the one function that writes it from a spreadsheet   *)
(* row, transform_staging_row (backend/app/transform.py).  Ingest, staging *)
(* corrections and sibling re-evaluation all go through the operators of   *)
(* this module, so they are constant-level: each takes the table (and the  *)
(* row as the session sees it) and returns the table the code would flush. *)
(*                                                                         *)
(* A job identity (part number, build type, split suffix, repeat           *)
(* reference, qualifier) is one member of Ident.  The cells of a row that  *)
(* are not its identity are abstracted to what the transform tells apart.  *)
(***************************************************************************)
EXTENDS FiniteSets

CONSTANTS
    Row,       \* primary keys of import_staging_rows
    Job,       \* primary keys of jobs, a finite pool
    Ident,     \* job identities
    NoIdent,   \* an unparseable JOB cell, a NULL group key or override
    NoJob,     \* resolved_job_id IS NULL
    NoRow      \* a job written before the rows in Row existed

ASSUME NullsAreApart ==
    /\ NoIdent \notin Ident
    /\ NoJob \notin Job
    /\ NoRow \notin Row

(* "invalid": QTY, CUSTOMER or a 32-character limit is refused.  Otherwise *)
(* the row is told apart by SHIPPED: blank, a date, or unparseable text.   *)
CellKind == {"invalid", "badship", "blank", "dated"}

(* ident = NoIdent says the id is not in use.  writer is the last row the  *)
(* job's data columns (customer, quantity, notes, ...) were copied from.   *)
JobRecord ==
    [ident     : Ident \union {NoIdent},
     status    : {"planned", "shipped"},
     discarded : BOOLEAN,
     writer    : Row \union {NoRow}]

Unused == [ident |-> NoIdent, status |-> "planned", discarded |-> FALSE,
           writer |-> NoRow]

StagingRecord ==
    [raw       : Ident \union {NoIdent},   \* what the JOB cell parses to
     override  : Ident \union {NoIdent},   \* identity under review overrides
     cells     : CellKind,
     status    : {"pending", "error", "processed"},
     key       : Ident \union {NoIdent},   \* duplicate_group_key
     resolved  : Job \union {NoJob},
     discarded : BOOLEAN]
-----------------------------------------------------------------------------
Free(jobs) == {j \in Job : jobs[j].ident = NoIdent}

IsActive(jobs, j) == jobs[j].ident # NoIdent /\ ~jobs[j].discarded

(* The active-job lookup: identity equal, not superseded, not discarded.   *)
ActiveAt(jobs, i) == {j \in Job : IsActive(jobs, j) /\ jobs[j].ident = i}

(* effective_decomposition: a parse failure wins, then the operator's      *)
(* override, then the raw parse.                                           *)
EffectiveIdent(row) ==
    IF row.raw # NoIdent /\ row.override # NoIdent THEN row.override ELSE row.raw

(* The validations that return before any job column is assigned,          *)
(* including the historical "Conflict" arm.                                *)
RejectedEarly(jobs, row, kind) ==
    \/ EffectiveIdent(row) = NoIdent
    \/ row.cells = "invalid"
    \/ /\ kind = "historical"
       /\ \E j \in ActiveAt(jobs, EffectiveIdent(row)) : jobs[j].status = "shipped"

(* _apply_shipped refuses the SHIPPED text after the job was inserted or   *)
(* its customer, quantity and notes were assigned.                         *)
RejectedLate(jobs, row, kind) ==
    ~RejectedEarly(jobs, row, kind) /\ row.cells = "badship"

Accepted(jobs, row, kind) ==
    ~RejectedEarly(jobs, row, kind) /\ row.cells # "badship"

(* Mutant of TargetJobs: the lookup is skipped, every row inserts a job.   *)
AlwaysInsert(jobs, row) == Free(jobs)

(* The ids the row may be written under: the active job with its identity, *)
(* or else any fresh one.  (scalar_one_or_none: at most one is active.)    *)
TargetJobs(jobs, row) ==
    LET existing == ActiveAt(jobs, EffectiveIdent(row))
    IN  IF existing = {} THEN Free(jobs) ELSE existing

(* A blank SHIPPED un-ships a shipped job (the historical kind never gets  *)
(* here with one) and leaves a planned one planned; a date ships it.       *)
StatusAfter(cells, old) ==
    CASE cells = "dated" -> "shipped"
      [] cells = "blank" -> "planned"
      [] OTHER           -> old

(* The jobs table once row (with primary key id) has been written to j.    *)
WrittenJobs(jobs, row, id, j) ==
    [jobs EXCEPT ![j] = [ident     |-> EffectiveIdent(row),
                         status    |-> StatusAfter(row.cells, @.status),
                         discarded |-> FALSE,
                         writer    |-> id]]

(* No two active jobs share an identity.                                   *)
UniqueIdentity(jobs) ==
    \A i, j \in Job :
        IsActive(jobs, i) /\ IsActive(jobs, j) /\ jobs[i].ident = jobs[j].ident
            => i = j

(* Tables the program may start from: planned and shipped jobs of rows     *)
(* imported before those in Row.                                           *)
InitialJobs ==
    {jobs \in [Job -> {Unused} \union [ident     : Ident,
                                      status    : {"planned", "shipped"},
                                      discarded : {FALSE},
                                      writer    : {NoRow}]] :
       UniqueIdentity(jobs)}
=============================================================================
