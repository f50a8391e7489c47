--------------------------- MODULE WorkbookImport ---------------------------
(***************************************************************************)
(* From an uploaded workbook to jobs: the duplicate guard, staging, review *)
(* by the operator, confirmation, Stages 4 to 6 and the sweep of planned   *)
(* jobs the workbook no longer lists (ingest.py and the review routes of   *)
(* api/ingest.py).                                                         *)
(*                                                                         *)
(* Every stage has a session of its own.  Stage 5 opens a savepoint per    *)
(* row with no transaction around it, so each row commits by itself until  *)
(* the first one is in error: rolling back to a savepoint leaves the       *)
(* transaction open, and whatever follows commits at the end of Stage 6.   *)
(* Steps of such an open transaction (errored) exclude every other worker: *)
(* nobody sees them, and a read that falls among them sees what it would   *)
(* have seen before the transaction.                                       *)
(***************************************************************************)
EXTENDS JobStore, Naturals

CONSTANTS
    Batch,      \* import batches, each the target of at most one upload
    NoBatch,
    BatchOf,    \* the batch of each row
    FileOf,     \* the content (SHA-256) uploaded as each batch
    KindOf,     \* sheet_kind of each batch
    Position,   \* source_row_number of each row
    Part,       \* part numbers
    PartOf,     \* the part number of each identity
    Mentions,   \* part numbers among the digits of a JOB cell that fails to parse
    Worker,
    Cells,      \* the cell contents considered
    MayRename,  \* may the operator change part numbers during review?
    MayForce,   \* may an upload override the duplicate guard?
    MayFail,    \* may a request die, or the database refuse it?
    Threshold   \* missing_job_sweep_max_discards

ASSUME ImportAssumption ==
    /\ NoBatch \notin Batch
    /\ BatchOf \in [Row -> Batch]
    /\ KindOf \in [Batch -> {"live", "historical"}]
    /\ Position \in [Row -> Nat]
    /\ \A r, s \in Row : BatchOf[r] = BatchOf[s] /\ Position[r] = Position[s] => r = s
    /\ PartOf \in [Ident -> Part]
    /\ Mentions \in [Row -> SUBSET Part]
    /\ Cells \subseteq CellKind
    /\ {MayRename, MayForce, MayFail} \subseteq BOOLEAN
    /\ Threshold \in Nat

VARIABLES batch, rows, review, jobs, req

vars == <<batch, rows, review, jobs, req>>

RowsOf(b) == {r \in Row : BatchOf[r] = b}

(* pc "stage": the workbook passed the duplicate guard.                    *)
(* pc "load": Stages 4 to 6 are about to read the batch.                   *)
(* pc "mark", "transform": todo are the rows loaded and not yet dealt with,*)
(* ident the identities they were loaded with.                             *)
(* pc "rename": ident holds the overrides to store for the rows in todo.   *)
(* pc "delete", "abandon": the guards passed, nothing is written yet.      *)
Request ==
    [pc      : {"idle", "stage", "load", "mark", "transform", "rename",
                "delete", "abandon"},
     batch   : Batch \union {NoBatch},
     todo    : SUBSET Row,
     ident   : [Row -> Ident \union {NoIdent}],
     errored : BOOLEAN]

Nothing == [r \in Row |-> NoIdent]

Idle == [pc |-> "idle", batch |-> NoBatch, todo |-> {}, ident |-> Nothing,
         errored |-> FALSE]

(* review: not on the review panel, on it (verified or edited), deleted.   *)
TypeOK ==
    /\ batch \in [Batch -> {"absent", "pending", "awaiting_review",
                            "processed", "error", "abandoned"}]
    /\ rows \in [Row -> StagingRecord]
    /\ review \in [Row -> {"none", "shown", "deleted"}]
    /\ jobs \in [Job -> JobRecord]
    /\ req \in [Worker -> Request]

Fresh(raw, cells) ==
    [raw |-> raw, override |-> NoIdent, cells |-> cells, status |-> "pending",
     key |-> NoIdent, resolved |-> NoJob, discarded |-> FALSE]

(* rows holds the contents of every workbook from the start; those of an   *)
(* absent batch are not in the table yet.                                  *)
Init ==
    /\ batch = [b \in Batch |-> "absent"]
    /\ review = [r \in Row |-> "none"]
    /\ req = [w \in Worker |-> Idle]
    /\ \E raw \in [Row -> Ident \union {NoIdent}], cells \in [Row -> Cells] :
          rows = [r \in Row |-> Fresh(raw[r], cells[r])]
    /\ \A r, s \in Row : /\ FileOf[BatchOf[r]] = FileOf[BatchOf[s]]
                         /\ Position[r] = Position[s]
                         => rows[r] = rows[s]
    /\ jobs \in InitialJobs
-----------------------------------------------------------------------------
(* Request w is at pc, and no other request has a transaction open.        *)
At(w, pc) == req[w].pc = pc /\ \A v \in Worker \ {w} : ~req[v].errored

(* Stage 1.  Its session is closed before the workbook is read and staged. *)
BeginUpload(w, b) ==
    /\ At(w, "idle")
    /\ batch[b] = "absent"
    /\ \A v \in Worker : req[v].pc = "stage" => req[v].batch # b
    /\ MayForce \/ \A c \in Batch : FileOf[c] = FileOf[b]
                                       => batch[c] \in {"absent", "abandoned"}
    /\ req' = [req EXCEPT ![w] = [Idle EXCEPT !.pc = "stage", !.batch = b]]
    /\ UNCHANGED <<batch, rows, review, jobs>>

(* Assembly.part_number: assemblies come into being with their first job.  *)
Registry == {PartOf[jobs[j].ident] : j \in {i \in Job : jobs[i].ident # NoIdent}}

(* Stages 3.5 and 3.6: rows whose part is new, and rows whose JOB cell     *)
(* parses to the identity of another row of the workbook.                  *)
NeedsReview(r) ==
    /\ rows[r].raw # NoIdent
    /\ \/ PartOf[rows[r].raw] \notin Registry
       \/ \E s \in RowsOf(BatchOf[r]) \ {r} : rows[s].raw = rows[r].raw

(* Mutant of StageWorkbook: nobody runs Stages 4 to 6 of a clean workbook. *)
StageAndStop(w) ==
    LET b    == req[w].batch
        hold == {r \in RowsOf(b) : NeedsReview(r)}
    IN  /\ At(w, "stage")
        /\ review' = [r \in Row |-> IF r \in hold THEN "shown" ELSE review[r]]
        /\ batch' = [batch EXCEPT ![b] = IF hold = {} THEN "pending"
                                         ELSE "awaiting_review"]
        /\ req' = [req EXCEPT ![w] = Idle]
        /\ UNCHANGED <<rows, jobs>>

(* Stage 3: one transaction creates the batch and its rows and either      *)
(* holds it for review or goes on to Stage 4.                              *)
StageWorkbook(w) ==
    LET b    == req[w].batch
        hold == {r \in RowsOf(b) : NeedsReview(r)}
    IN  /\ At(w, "stage")
        /\ review' = [r \in Row |-> IF r \in hold THEN "shown" ELSE review[r]]
        /\ batch' = [batch EXCEPT ![b] = IF hold = {} THEN "pending"
                                         ELSE "awaiting_review"]
        /\ req' = [req EXCEPT ![w] = IF hold = {}
                                     THEN [@ EXCEPT !.pc = "load"] ELSE Idle]
        /\ UNCHANGED <<rows, jobs>>
-----------------------------------------------------------------------------
(* Mutant of Surviving: deleted rows are loaded too.                       *)
PendingRows(b) == {r \in RowsOf(b) : rows[r].status = "pending"}

(* What the gate of a confirmation and Stage 4 both read.                  *)
Surviving(b) ==
    {r \in RowsOf(b) : rows[r].status = "pending" /\ ~rows[r].discarded}

(* Mutant of Colliding: the JOB cells are compared, not what review made   *)
(* of them.                                                                *)
CollidingCells(set, ident) ==
    {r \in set : /\ rows[r].raw # NoIdent
                 /\ \E s \in set \ {r} : rows[s].raw = rows[r].raw}

(* group_by_effective_identity, over rows with the identities ident.       *)
Colliding(set, ident) ==
    {r \in set : /\ ident[r] # NoIdent
                 /\ \E s \in set \ {r} : ident[s] = ident[r]}

Identities == [r \in Row |-> EffectiveIdent(rows[r])]

(* POST /{batch_id}/confirm: the gate.  Its session is closed before the   *)
(* stages open theirs.                                                     *)
BeginConfirm(w, b) ==
    /\ At(w, "idle")
    /\ batch[b] = "awaiting_review"
    /\ Colliding(Surviving(b), Identities) = {}
    /\ req' = [req EXCEPT ![w] = [Idle EXCEPT !.pc = "load", !.batch = b]]
    /\ UNCHANGED <<batch, rows, review, jobs>>

(* Rows Stage 4 marks: no identity, or the identity of another row.        *)
Doomed(q) ==
    {r \in q.todo : q.ident[r] = NoIdent} \union Colliding(q.todo, q.ident)

(* run_stages_4_to_6 reads the rows; nothing is locked.                    *)
LoadRows(w) ==
    LET q == [req[w] EXCEPT !.todo  = Surviving(req[w].batch),
                            !.ident = [r \in Row |->
                                         IF r \in Surviving(req[w].batch)
                                         THEN Identities[r] ELSE NoIdent]]
    IN  /\ At(w, "load")
        /\ req' = [req EXCEPT ![w] = [q EXCEPT !.pc = IF Doomed(q) = {}
                                                      THEN "transform"
                                                      ELSE "mark"]]
        /\ UNCHANGED <<batch, rows, review, jobs>>

(* Mutant of MarkErrors: the marked rows are not counted as errors.        *)
MarkUncounted(w) ==
    LET q == req[w]
    IN  /\ At(w, "mark")
        /\ rows' = [r \in Row |->
                      IF r \in Doomed(q)
                      THEN [rows[r] EXCEPT !.status = "error",
                                           !.key = q.ident[r]]
                      ELSE rows[r]]
        /\ req' = [req EXCEPT ![w] = [q EXCEPT !.pc = "transform",
                                               !.todo = @ \ Doomed(q)]]
        /\ UNCHANGED <<batch, review, jobs>>

(* Stage 4, mark_identity_collisions.  The marks open the transaction.     *)
MarkErrors(w) ==
    LET q == req[w]
    IN  /\ At(w, "mark")
        /\ rows' = [r \in Row |->
                      IF r \in Doomed(q)
                      THEN [rows[r] EXCEPT !.status = "error",
                                           !.key = q.ident[r]]
                      ELSE rows[r]]
        /\ req' = [req EXCEPT ![w] = [q EXCEPT !.pc = "transform",
                                               !.todo = @ \ Doomed(q),
                                               !.errored = TRUE]]
        /\ UNCHANGED <<batch, review, jobs>>

(* Stage 5 goes by source_row_number.                                      *)
IsNext(q, r) == r \in q.todo /\ \A s \in q.todo : Position[r] <= Position[s]

(* The row as the session holds it.                                        *)
AsLoaded(q, r) == [rows[r] EXCEPT !.raw = q.ident[r], !.override = NoIdent]

Dealt(w, r) == req' = [req EXCEPT ![w].todo = @ \ {r}]

(* Stage 5, the row is inserted or updates the job with its identity.      *)
TransformRow(w, r) ==
    LET q == req[w]
    IN  /\ At(w, "transform")
        /\ IsNext(q, r)
        /\ Accepted(jobs, AsLoaded(q, r), KindOf[q.batch])
        /\ \E j \in TargetJobs(jobs, AsLoaded(q, r)) :
              /\ jobs' = WrittenJobs(jobs, AsLoaded(q, r), r, j)
              /\ rows' = [rows EXCEPT ![r].status = "processed",
                                      ![r].resolved = j]
        /\ Dealt(w, r)
        /\ UNCHANGED <<batch, review>>

(* Stage 5, the row fails a validation, or the database refuses it: the    *)
(* savepoint is rolled back, the transaction stays open.                   *)
RejectRow(w, r) ==
    LET q == req[w]
    IN  /\ At(w, "transform")
        /\ IsNext(q, r)
        /\ MayFail \/ ~Accepted(jobs, AsLoaded(q, r), KindOf[q.batch])
        /\ rows' = [rows EXCEPT ![r].status = "error"]
        /\ req' = [req EXCEPT ![w].todo = @ \ {r}, ![w].errored = TRUE]
        /\ UNCHANGED <<batch, review, jobs>>

(* Something else raises in Stage 4 or 5: the open transaction is rolled   *)
(* back and the batch closed without a sweep.                              *)
LoopFails(w) ==
    LET q == req[w]
    IN  /\ MayFail
        /\ At(w, "mark") \/ At(w, "transform")
        /\ q.todo # {}
        /\ ~q.errored
        /\ batch' = [batch EXCEPT ![q.batch] = "error"]
        /\ req' = [req EXCEPT ![w] = Idle]
        /\ UNCHANGED <<rows, review, jobs>>
-----------------------------------------------------------------------------
(* Mutant of Protected: rows in error protect nothing.                     *)
ProtectNothing(b) == {}

(* collect_protected_part_numbers: the parts rows in error may stand for,  *)
(* by their JOB cell.                                                      *)
Protected(b) ==
    UNION {IF rows[r].raw = NoIdent THEN Mentions[r] ELSE {PartOf[rows[r].raw]} :
             r \in {s \in RowsOf(b) : rows[s].status = "error"}}

(* Planned jobs the workbook accounts for neither by a row nor by a part.  *)
Missing(b) ==
    {j \in Job : /\ IsActive(jobs, j)
                 /\ jobs[j].status = "planned"
                 /\ \A r \in RowsOf(b) : rows[r].resolved # j
                 /\ PartOf[jobs[j].ident] \notin Protected(b)}

(* sweep_missing_planned_jobs.                                             *)
Sweeps(b) ==
    /\ KindOf[b] = "live"
    /\ \E r \in RowsOf(b) : rows[r].resolved # NoJob
    /\ Cardinality(Missing(b)) < Threshold

(* Stage 6.                                                                *)
FinishBatch(w) ==
    LET q == req[w]
    IN  /\ At(w, "transform")
        /\ q.todo = {}
        /\ batch' = [batch EXCEPT ![q.batch] =
                       IF q.errored THEN "error" ELSE "processed"]
        /\ jobs' = IF Sweeps(q.batch)
                   THEN [j \in Job |-> [jobs[j] EXCEPT
                           !.discarded = @ \/ j \in Missing(q.batch)]]
                   ELSE jobs
        /\ req' = [req EXCEPT ![w] = Idle]
        /\ UNCHANGED <<rows, review>>
-----------------------------------------------------------------------------
(* Review requests check the batch, then commit, in two steps.             *)
OnPanel(b, r) == r \in RowsOf(b) /\ review[r] = "shown"

(* PUT /{batch_id}/canonical/{part}: every row of the part gets an         *)
(* identity of the canonical part; the split suffixes that are computed    *)
(* for them are left open.                                                 *)
BeginSetCanonical(w, b, part, canonical) ==
    LET group == {r \in RowsOf(b) : OnPanel(b, r) /\ PartOf[rows[r].raw] = part}
    IN  /\ MayRename
        /\ At(w, "idle")
        /\ batch[b] = "awaiting_review"
        /\ group # {}
        /\ \E ident \in [group -> {i \in Ident : PartOf[i] = canonical}] :
              req' = [req EXCEPT ![w] =
                        [Idle EXCEPT !.pc = "rename", !.batch = b, !.todo = group,
                                     !.ident = [r \in Row |->
                                        IF r \in group THEN ident[r] ELSE NoIdent]]]
        /\ UNCHANGED <<batch, rows, review, jobs>>

(* PATCH and DELETE /{batch_id}/staging-row/{row_id}/split-suffix: the row *)
(* gets another suffix under the part number it has.                       *)
BeginSplitSuffix(w, b, r, i) ==
    /\ At(w, "idle")
    /\ batch[b] = "awaiting_review"
    /\ OnPanel(b, r)
    /\ PartOf[i] = PartOf[EffectiveIdent(rows[r])]
    /\ req' = [req EXCEPT ![w] =
                  [Idle EXCEPT !.pc = "rename", !.batch = b, !.todo = {r},
                               !.ident = [Nothing EXCEPT ![r] = i]]]
    /\ UNCHANGED <<batch, rows, review, jobs>>

(* The review status of a row deleted meanwhile is overwritten, unless the *)
(* session finds that the one it read has not changed (kept).              *)
CommitOverrides(w) ==
    LET q == req[w]
    IN  /\ At(w, "rename")
        /\ rows' = [r \in Row |-> IF r \in q.todo
                                  THEN [rows[r] EXCEPT !.override = q.ident[r]]
                                  ELSE rows[r]]
        /\ \E kept \in SUBSET q.todo :
              review' = [r \in Row |-> IF r \in q.todo \ kept THEN "shown"
                                       ELSE review[r]]
        /\ req' = [req EXCEPT ![w] = Idle]
        /\ UNCHANGED <<batch, jobs>>

(* DELETE /{batch_id}/staging-row/{row_id}.                                *)
BeginDeleteRow(w, b, r) ==
    /\ At(w, "idle")
    /\ batch[b] = "awaiting_review"
    /\ OnPanel(b, r)
    /\ req' = [req EXCEPT ![w] = [Idle EXCEPT !.pc = "delete", !.batch = b,
                                              !.todo = {r}]]
    /\ UNCHANGED <<batch, rows, review, jobs>>

CommitDelete(w) ==
    LET q == req[w]
    IN  /\ At(w, "delete")
        /\ rows' = [r \in Row |-> [rows[r] EXCEPT !.discarded = @ \/ r \in q.todo]]
        /\ review' = [r \in Row |-> IF r \in q.todo THEN "deleted" ELSE review[r]]
        /\ req' = [req EXCEPT ![w] = Idle]
        /\ UNCHANGED <<batch, jobs>>

(* POST /{batch_id}/abandon.                                               *)
BeginAbandon(w, b) ==
    /\ At(w, "idle")
    /\ batch[b] \in {"awaiting_review", "error"}
    /\ req' = [req EXCEPT ![w] = [Idle EXCEPT !.pc = "abandon", !.batch = b]]
    /\ UNCHANGED <<batch, rows, review, jobs>>

CommitAbandon(w) ==
    /\ At(w, "abandon")
    /\ batch' = [batch EXCEPT ![req[w].batch] = "abandoned"]
    /\ req' = [req EXCEPT ![w] = Idle]
    /\ UNCHANGED <<rows, review, jobs>>

(* The process stops, or the database stays locked past its timeout.       *)
Abort(w) ==
    /\ MayFail
    /\ req[w].pc # "idle"
    /\ ~req[w].errored
    /\ req' = [req EXCEPT ![w] = Idle]
    /\ UNCHANGED <<batch, rows, review, jobs>>
-----------------------------------------------------------------------------
Submit(w) ==
    \E b \in Batch :
       \/ BeginUpload(w, b)
       \/ BeginConfirm(w, b)
       \/ \E part, canonical \in Part : BeginSetCanonical(w, b, part, canonical)
       \/ \E r \in Row, i \in Ident : BeginSplitSuffix(w, b, r, i)
       \/ \E r \in Row : BeginDeleteRow(w, b, r)
       \/ BeginAbandon(w, b)

(* The rest of a request that has begun.                                   *)
Continue(w) ==
    \/ StageWorkbook(w)
    \/ LoadRows(w)
    \/ MarkErrors(w)
    \/ \E r \in Row : TransformRow(w, r)
    \/ \E r \in Row : RejectRow(w, r)
    \/ FinishBatch(w)
    \/ CommitOverrides(w)
    \/ CommitDelete(w)
    \/ CommitAbandon(w)

Next ==
    \E w \in Worker : Submit(w) \/ Continue(w) \/ LoopFails(w) \/ Abort(w)

Spec == Init /\ [][Next]_vars

(* A request that has begun runs on.                                       *)
FairSpec == Spec /\ \A w \in Worker : WF_vars(Continue(w))
-----------------------------------------------------------------------------
(* At most one active job per identity, whatever is imported, confirmed    *)
(* twice, interrupted or swept.                                            *)
OneActiveJobPerIdentity == UniqueIdentity(jobs)

(* No two live rows of a workbook resolve to one job: the confirm gate and *)
(* Stage 4 exist "so Stage 5 never overwrites one surviving row with       *)
(* another" (mark_identity_collisions).                                    *)
SiblingsResolveApart ==
    \A r, s \in Row :
        /\ r # s
        /\ BatchOf[r] = BatchOf[s]
        /\ ~rows[r].discarded /\ ~rows[s].discarded
        /\ rows[r].resolved # NoJob
        => rows[r].resolved # rows[s].resolved

(* A row deleted during review resolves to no job afterwards ("Excluded    *)
(* from Stage 4..6").                                                      *)
DeletedRowsStayOut ==
    [][\A r \in Row : rows[r].discarded => rows'[r].resolved = rows[r].resolved]_vars

(* Stage 6 discards no job whose identity a live row of the workbook has,  *)
(* be the row resolved or in error.                                        *)
SweepSparesListedJobs ==
    [][\A w \in Worker, r \in Row, j \in Job :
          /\ req[w].pc = "transform" /\ req'[w].pc = "idle"
          /\ BatchOf[r] = req[w].batch
          /\ ~rows[r].discarded
          /\ EffectiveIdent(rows[r]) # NoIdent
          /\ j \in ActiveAt(jobs, EffectiveIdent(rows[r]))
          => ~jobs'[j].discarded]_vars

(* An upload that was not held for review runs to the end of Stage 6.      *)
UploadsComplete ==
    \A b \in Batch : (batch[b] = "pending") ~> (batch[b] \in {"processed", "error"})

(* Rows of b that are neither deleted nor resolved.                        *)
OpenRows(b) == {r \in RowsOf(b) : ~rows[r].discarded /\ rows[r].status # "processed"}

Life == INSTANCE BatchLifecycle WITH
    status <- batch,
    open   <- [b \in Batch |-> OpenRows(b)]

(* One request at a time, interrupted or not, each workbook goes through   *)
(* the life of BatchLifecycle.                                             *)
ImplementsBatchLife == Life!Spec
=============================================================================
