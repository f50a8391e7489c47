------------------------ MODULE WorkbookImportProofs ------------------------
(***************************************************************************)
(* What TLAPS proves of WorkbookImport, for every set of workbooks, rows,  *)
(* identities and request threads:                                         *)
(*   - the state is well typed (ImportTyped);                              *)
(*   - no import lets two active jobs share an identity                    *)
(*     (ImportsStayUnique);                                                *)
(*   - one request at a time, each batch goes through the life of          *)
(*     BatchLifecycle (SerialBatchLife), and a row deleted during review   *)
(*     is resolved to no job (DeletedStayOut);                             *)
(*   - and if none is interrupted, no two live rows of a workbook get one  *)
(*     job (SiblingsApart), and, unless parts are renamed, Stage 6         *)
(*     discards no job the workbook lists (SweepSparesListed).             *)
(***************************************************************************)
EXTENDS WorkbookImport, TLAPS

-----------------------------------------------------------------------------
(* Lemmas on the jobs table.                                               *)

(* The jobs a program starts with are job records.                         *)
LEMMA InitialJobsTyped ==
    ASSUME NEW table \in InitialJobs
    PROVE  table \in [Job -> JobRecord]
<1> DEFINE Existing == [ident     : Ident,
                        status    : {"planned", "shipped"},
                        discarded : {FALSE},
                        writer    : {NoRow}]
<1>1. Existing \subseteq JobRecord
  BY DEF JobRecord
<1>2. Unused \in JobRecord
  BY DEF Unused, JobRecord
<1>3. table \in [Job -> {Unused} \union Existing]
  BY DEF InitialJobs
<1> QED
  BY <1>1, <1>2, <1>3

(* The jobs table stays typed when a row is written to a job.              *)
LEMMA WrittenJobsTyped ==
    ASSUME NEW table \in [Job -> JobRecord], NEW row \in StagingRecord,
           NEW id \in Row \union {NoRow}, NEW j \in TargetJobs(table, row)
    PROVE  WrittenJobs(table, row, id, j) \in [Job -> JobRecord]
<1>1. EffectiveIdent(row) \in Ident \union {NoIdent}
  BY DEF EffectiveIdent, StagingRecord
<1>2. j \in Job
  BY DEF TargetJobs, Free, ActiveAt
<1>3. StatusAfter(row.cells, table[j].status) \in {"planned", "shipped"}
  BY <1>2 DEF StatusAfter, StagingRecord, JobRecord
<1> QED
  BY <1>1, <1>2, <1>3 DEF WrittenJobs, JobRecord

(* Writing a row to a target job keeps identities unique: the target is    *)
(* the active job with the identity, or there was none.                    *)
LEMMA WrittenJobsUnique ==
    ASSUME NEW table \in [Job -> JobRecord], UniqueIdentity(table),
           NEW row \in StagingRecord, NEW id \in Row \union {NoRow},
           NEW j \in TargetJobs(table, row)
    PROVE  UniqueIdentity(WrittenJobs(table, row, id, j))
<1> DEFINE new == WrittenJobs(table, row, id, j)
<1>1. j \in Job
  BY DEF TargetJobs, Free, ActiveAt
<1>2. \A k \in Job : k # j => new[k] = table[k]
  BY DEF WrittenJobs
<1>3. new[j].ident = EffectiveIdent(row)
  BY <1>1 DEF WrittenJobs
<1>4. ASSUME NEW k \in Job, k # j, IsActive(new, k), IsActive(new, j),
             new[k].ident = new[j].ident
      PROVE  FALSE
  <2>1. k \in ActiveAt(table, EffectiveIdent(row))
    BY <1>2, <1>3, <1>4 DEF ActiveAt, IsActive
  <2>2. j \in ActiveAt(table, EffectiveIdent(row))
    BY <2>1 DEF TargetJobs
  <2> QED
    BY <1>4, <2>1, <2>2 DEF ActiveAt, UniqueIdentity
<1>5. ASSUME NEW k \in Job, NEW l \in Job, k # j, l # j, IsActive(new, k),
             IsActive(new, l), new[k].ident = new[l].ident
      PROVE  k = l
  BY <1>2, <1>5 DEF UniqueIdentity, IsActive
<1>6. ASSUME NEW k \in Job, NEW l \in Job, IsActive(new, k), IsActive(new, l),
             new[k].ident = new[l].ident
      PROVE  k = l
  <2> HIDE DEF new
  <2> QED
    BY <1>1, <1>4, <1>5, <1>6
<1> QED
  BY <1>6 DEF UniqueIdentity

(* Discarding jobs leaves job records, with identities still unique.       *)
LEMMA DiscardedTyped ==
    ASSUME NEW table \in [Job -> JobRecord], NEW gone \in SUBSET Job, NEW after,
           after = [j \in Job |-> [table[j] EXCEPT !.discarded = @ \/ j \in gone]]
    PROVE  after \in [Job -> JobRecord]
<1>1. ASSUME NEW j \in Job
      PROVE  [table[j] EXCEPT !.discarded = @ \/ j \in gone] \in JobRecord
  <2>1. table[j] \in JobRecord /\ (table[j].discarded \/ j \in gone) \in BOOLEAN
    OBVIOUS
  <2> QED
    BY <2>1 DEF JobRecord
<1> QED
  BY <1>1

(* Discarding jobs leaves at most one live job of an identity.             *)
LEMMA DiscardedUnique ==
    ASSUME NEW table \in [Job -> JobRecord], UniqueIdentity(table),
           NEW gone \in SUBSET Job, NEW after,
           after = [j \in Job |-> [table[j] EXCEPT !.discarded = @ \/ j \in gone]]
    PROVE  UniqueIdentity(after)
<1>1. \A j \in Job : /\ after[j].ident = table[j].ident
                     /\ ~after[j].discarded => ~table[j].discarded
  BY DEF JobRecord
<1> QED
  BY <1>1 DEF UniqueIdentity, IsActive

-----------------------------------------------------------------------------
(* The request record of an idle thread, and of one that has just begun.   *)
LEMMA IdleTyped ==
    /\ Idle \in Request
    /\ \A pc \in {"stage", "load", "delete", "abandon"}, b \in Batch,
          todo \in SUBSET Row :
          [Idle EXCEPT !.pc = pc, !.batch = b, !.todo = todo] \in Request
    /\ \A b \in Batch, todo \in SUBSET Row,
          ident \in [Row -> Ident \union {NoIdent}] :
          [Idle EXCEPT !.pc = "rename", !.batch = b, !.todo = todo,
                       !.ident = ident] \in Request
  BY DEF Idle, Nothing, Request

(* A row as Stage 5 holds it is a staging record.                          *)
LEMMA AsLoadedTyped ==
    ASSUME TypeOK, NEW w \in Worker, NEW r \in Row
    PROVE  AsLoaded(req[w], r) \in StagingRecord
<1>1. req[w].ident[r] \in Ident \union {NoIdent}
  BY DEF TypeOK, Request
<1>2. rows[r] \in StagingRecord
  BY DEF TypeOK
<1> QED
  BY <1>1, <1>2 DEF AsLoaded, StagingRecord

(* Every state an import can start from is well typed.                     *)
LEMMA InitTyped == Init => TypeOK
<1> SUFFICES ASSUME Init PROVE TypeOK
  OBVIOUS
<1>1. jobs \in [Job -> JobRecord]
  BY InitialJobsTyped DEF Init
<1>2. rows \in [Row -> StagingRecord]
  <2>1. PICK raw \in [Row -> Ident \union {NoIdent}], cells \in [Row -> Cells] :
          rows = [r \in Row |-> Fresh(raw[r], cells[r])]
    BY DEF Init
  <2>2. \A r \in Row : Fresh(raw[r], cells[r]) \in StagingRecord
    BY ImportAssumption DEF Fresh, StagingRecord
  <2> QED
    BY <2>1, <2>2
<1>3. req \in [Worker -> Request]
  BY IdleTyped DEF Init
<1> QED
  BY <1>1, <1>2, <1>3 DEF Init, TypeOK

(* A finished workbook leaves a table of jobs, swept or not.               *)
LEMMA FinishJobs ==
    ASSUME TypeOK, NEW w \in Worker, FinishBatch(w)
    PROVE  \/ jobs' = jobs
           \/ \E gone \in SUBSET Job :
                 jobs' = [j \in Job |-> [jobs[j] EXCEPT
                            !.discarded = @ \/ j \in gone]]
<1>1. Missing(req[w].batch) \in SUBSET Job
  BY DEF Missing
<1> QED
  BY <1>1 DEF FinishBatch

(* Every step of Stages 1 to 6 keeps the state well typed.                 *)
LEMMA StageTyped ==
    ASSUME TypeOK, NEW w \in Worker,
           \/ StageWorkbook(w) \/ LoadRows(w) \/ MarkErrors(w)
           \/ \E r \in Row : TransformRow(w, r) \/ RejectRow(w, r)
           \/ FinishBatch(w) \/ LoopFails(w)
    PROVE  TypeOK'
<1> USE DEF TypeOK
<1>0. /\ req[w] \in Request
      /\ \A r \in Row : /\ rows[r] \in StagingRecord
                        /\ req[w].ident[r] \in Ident \union {NoIdent}
  BY DEF Request
<1>1. CASE StageWorkbook(w)
  <2>1. req' \in [Worker -> Request]
    BY <1>0, <1>1, IdleTyped DEF StageWorkbook, Request
  <2>2. batch' \in [Batch -> {"absent", "pending", "awaiting_review",
                              "processed", "error", "abandoned"}]
    BY <1>1 DEF StageWorkbook
  <2>3. review' \in [Row -> {"none", "shown", "deleted"}]
    BY <1>1 DEF StageWorkbook
  <2> QED
    BY <1>1, <2>1, <2>2, <2>3 DEF StageWorkbook
<1>2. CASE LoadRows(w)
  <2> DEFINE some  == Surviving(req[w].batch)
             ident == [r \in Row |-> IF r \in some THEN Identities[r]
                                     ELSE NoIdent]
             q     == [req[w] EXCEPT !.todo = some, !.ident = ident]
  <2>1. \A r \in Row : Identities[r] \in Ident \union {NoIdent}
    BY <1>0 DEF Identities, EffectiveIdent, StagingRecord
  <2>2. some \in SUBSET Row /\ ident \in [Row -> Ident \union {NoIdent}]
    BY <2>1 DEF Surviving, RowsOf
  <2>3. \A pc \in {"transform", "mark"} : [q EXCEPT !.pc = pc] \in Request
    BY <1>0, <2>2 DEF Request
  <2>4. \E pc \in {"transform", "mark"} :
           req' = [req EXCEPT ![w] = [q EXCEPT !.pc = pc]]
    BY <1>2 DEF LoadRows
  <2> HIDE DEF q
  <2> QED
    BY <1>2, <2>3, <2>4 DEF LoadRows
<1>3. CASE MarkErrors(w)
  <2>1. [req[w] EXCEPT !.pc = "transform", !.todo = @ \ Doomed(req[w]),
                       !.errored = TRUE] \in Request
    BY <1>0 DEF Request
  <2>2. \A r \in Row : [rows[r] EXCEPT !.status = "error",
                                       !.key = req[w].ident[r]] \in StagingRecord
    BY <1>0 DEF StagingRecord
  <2> QED
    BY <1>0, <1>3, <2>1, <2>2 DEF MarkErrors
<1>4. ASSUME NEW r \in Row, TransformRow(w, r) PROVE TypeOK'
  <2>1. PICK j \in TargetJobs(jobs, AsLoaded(req[w], r)) :
           /\ jobs' = WrittenJobs(jobs, AsLoaded(req[w], r), r, j)
           /\ rows' = [rows EXCEPT ![r].status = "processed", ![r].resolved = j]
    BY <1>4 DEF TransformRow
  <2>2. jobs' \in [Job -> JobRecord]
    BY <2>1, AsLoadedTyped, WrittenJobsTyped
  <2>3. j \in Job
    BY DEF TargetJobs, Free, ActiveAt
  <2>4. rows' \in [Row -> StagingRecord]
    <3>1. [rows[r] EXCEPT !.status = "processed", !.resolved = j] \in StagingRecord
      BY <1>0, <2>3 DEF StagingRecord
    <3>2. rows' = [rows EXCEPT ![r] = [rows[r] EXCEPT !.status = "processed",
                                                      !.resolved = j]]
      BY <2>1
    <3> QED
      BY <3>1, <3>2
  <2>5. req' \in [Worker -> Request]
    BY <1>0, <1>4 DEF TransformRow, Dealt, Request
  <2> QED
    BY <1>4, <2>2, <2>4, <2>5 DEF TransformRow
<1>5. ASSUME NEW r \in Row, RejectRow(w, r) PROVE TypeOK'
  <2>1. rows' \in [Row -> StagingRecord]
    BY <1>0, <1>5 DEF RejectRow, StagingRecord
  <2>2. req' \in [Worker -> Request]
    BY <1>0, <1>5 DEF RejectRow, Request
  <2> QED
    BY <1>5, <2>1, <2>2 DEF RejectRow
<1>6. CASE FinishBatch(w)
  <2>1. jobs' \in [Job -> JobRecord]
    BY <1>6, FinishJobs, DiscardedTyped
  <2>2. batch' \in [Batch -> {"absent", "pending", "awaiting_review",
                              "processed", "error", "abandoned"}]
    BY <1>6 DEF FinishBatch
  <2> QED
    BY <1>6, <2>1, <2>2, IdleTyped DEF FinishBatch
<1>7. CASE LoopFails(w)
  BY <1>7, IdleTyped DEF LoopFails
<1> QED
  BY <1>1, <1>2, <1>3, <1>4, <1>5, <1>6, <1>7

(* Every step of an upload, review or abandon request keeps the state well *)
(* typed.                                                                  *)
LEMMA ReviewTyped ==
    ASSUME TypeOK, NEW w \in Worker,
           \/ Submit(w) \/ CommitOverrides(w) \/ CommitDelete(w)
           \/ CommitAbandon(w) \/ Abort(w)
    PROVE  TypeOK'
<1> USE DEF TypeOK
<1>0. /\ req[w] \in Request
      /\ \A r \in Row : /\ rows[r] \in StagingRecord
                        /\ req[w].ident[r] \in Ident \union {NoIdent}
  BY DEF Request
<1>1. ASSUME NEW b \in Batch, BeginUpload(w, b) PROVE TypeOK'
  <2>1. [Idle EXCEPT !.pc = "stage", !.batch = b] \in Request
    BY IdleTyped DEF Request
  <2> QED
    BY <1>1, <2>1 DEF BeginUpload
<1>2. ASSUME NEW b \in Batch, BeginConfirm(w, b) PROVE TypeOK'
  <2>1. [Idle EXCEPT !.pc = "load", !.batch = b] \in Request
    BY IdleTyped DEF Request
  <2> QED
    BY <1>2, <2>1 DEF BeginConfirm
<1>3. ASSUME NEW b \in Batch, NEW part \in Part, NEW canonical \in Part,
             BeginSetCanonical(w, b, part, canonical)
      PROVE  TypeOK'
  <2> DEFINE group == {r \in RowsOf(b) : /\ OnPanel(b, r)
                                         /\ PartOf[rows[r].raw] = part}
  <2>1. PICK ident \in [group -> {i \in Ident : PartOf[i] = canonical}] :
           req' = [req EXCEPT ![w] =
                     [Idle EXCEPT !.pc = "rename", !.batch = b, !.todo = group,
                                  !.ident = [r \in Row |-> IF r \in group
                                               THEN ident[r] ELSE NoIdent]]]
    BY <1>3 DEF BeginSetCanonical
  <2>2. /\ group \in SUBSET Row
        /\ [r \in Row |-> IF r \in group THEN ident[r] ELSE NoIdent]
              \in [Row -> Ident \union {NoIdent}]
    BY DEF RowsOf
  <2> HIDE DEF group
  <2>3. req' \in [Worker -> Request]
    BY <2>1, <2>2, IdleTyped DEF Request
  <2> QED
    BY <1>3, <2>3 DEF BeginSetCanonical
<1>4. ASSUME NEW b \in Batch, NEW r \in Row, NEW i \in Ident,
             BeginSplitSuffix(w, b, r, i)
      PROVE  TypeOK'
  <2> DEFINE ident == [Nothing EXCEPT ![r] = i]
  <2>1. ident \in [Row -> Ident \union {NoIdent}]
    BY DEF Nothing
  <2> HIDE DEF ident
  <2>2. [Idle EXCEPT !.pc = "rename", !.batch = b, !.todo = {r},
                     !.ident = ident] \in Request
    BY <2>1, IdleTyped
  <2> USE DEF ident
  <2> QED
    BY <1>4, <2>2 DEF BeginSplitSuffix
<1>5. ASSUME NEW b \in Batch, NEW r \in Row, BeginDeleteRow(w, b, r) PROVE TypeOK'
  <2>1. [Idle EXCEPT !.pc = "delete", !.batch = b, !.todo = {r}] \in Request
    BY IdleTyped
  <2> QED
    BY <1>5, <2>1 DEF BeginDeleteRow
<1>6. ASSUME NEW b \in Batch, BeginAbandon(w, b) PROVE TypeOK'
  <2>1. [Idle EXCEPT !.pc = "abandon", !.batch = b] \in Request
    BY IdleTyped DEF Request
  <2> QED
    BY <1>6, <2>1 DEF BeginAbandon
<1>7. CASE CommitOverrides(w)
  <2>1. \A r \in Row : [rows[r] EXCEPT !.override = req[w].ident[r]]
                          \in StagingRecord
    BY <1>0 DEF StagingRecord
  <2> QED
    BY <1>0, <1>7, <2>1, IdleTyped DEF CommitOverrides
<1>8. CASE CommitDelete(w)
  <2>1. \A r \in Row : [rows[r] EXCEPT !.discarded = @ \/ r \in req[w].todo]
                          \in StagingRecord
    BY <1>0 DEF StagingRecord
  <2> QED
    BY <1>0, <1>8, <2>1, IdleTyped DEF CommitDelete
<1>9. CASE CommitAbandon(w)
  BY <1>9, IdleTyped DEF CommitAbandon
<1>10. CASE Abort(w)
  BY <1>10, IdleTyped DEF Abort
<1> QED
  BY <1>1, <1>2, <1>3, <1>4, <1>5, <1>6, <1>7, <1>8, <1>9, <1>10 DEF Submit

(* Every step of an import keeps the state well typed.                     *)
LEMMA StepTyped == TypeOK /\ [Next]_vars => TypeOK'
<1> SUFFICES ASSUME TypeOK, [Next]_vars PROVE TypeOK'
  OBVIOUS
<1>1. CASE UNCHANGED vars
  BY <1>1 DEF vars, TypeOK
<1>2. CASE Next
  BY <1>2, StageTyped, ReviewTyped DEF Next, Continue
<1> QED
  BY <1>1, <1>2

(* The type invariant holds of every run.                                  *)
THEOREM ImportTyped == Spec => []TypeOK
  BY InitTyped, StepTyped, PTL DEF Spec
-----------------------------------------------------------------------------
(* No step lets a second active job take an identity: Stage 5 writes the   *)
(* job it found or a fresh one, the sweep only discards.                   *)
LEMMA StepUnique ==
    TypeOK /\ UniqueIdentity(jobs) /\ [Next]_vars => UniqueIdentity(jobs)'
<1> SUFFICES ASSUME TypeOK, UniqueIdentity(jobs), [Next]_vars
             PROVE  UniqueIdentity(jobs')
  BY DEF UniqueIdentity, IsActive
<1>1. CASE UNCHANGED jobs
  BY <1>1 DEF UniqueIdentity, IsActive
<1>2. ASSUME NEW w \in Worker, NEW r \in Row, TransformRow(w, r)
      PROVE  UniqueIdentity(jobs')
  BY <1>2, AsLoadedTyped, WrittenJobsUnique DEF TransformRow, TypeOK
<1>3. ASSUME NEW w \in Worker, FinishBatch(w) PROVE UniqueIdentity(jobs')
  <2>1. CASE jobs' = jobs
    BY <1>1, <2>1
  <2>2. CASE \E gone \in SUBSET Job :
                jobs' = [j \in Job |-> [jobs[j] EXCEPT
                           !.discarded = @ \/ j \in gone]]
    BY <2>2, DiscardedUnique DEF TypeOK
  <2> QED
    BY <1>3, <2>1, <2>2, FinishJobs
<1>4. ASSUME NEW w \in Worker, Submit(w) \/ LoopFails(w) \/ Abort(w)
      PROVE  UNCHANGED jobs
  BY <1>4 DEF Submit, BeginUpload, BeginConfirm, BeginSetCanonical,
      BeginSplitSuffix, BeginDeleteRow, BeginAbandon, LoopFails, Abort
<1>5. ASSUME NEW w \in Worker,
             \/ StageWorkbook(w) \/ LoadRows(w) \/ MarkErrors(w)
             \/ \E r \in Row : RejectRow(w, r)
             \/ CommitOverrides(w) \/ CommitDelete(w) \/ CommitAbandon(w)
      PROVE  UNCHANGED jobs
  BY <1>5 DEF StageWorkbook, LoadRows, MarkErrors, RejectRow,
      CommitOverrides, CommitDelete, CommitAbandon
<1>6. CASE Next
  BY <1>1, <1>2, <1>3, <1>4, <1>5, <1>6 DEF Next, Continue
<1> QED
  BY <1>1, <1>6 DEF vars

(* However uploads, confirmations and sweeps interleave, and wherever they *)
(* stop, no two active jobs share an identity.                             *)
THEOREM ImportsStayUnique == Spec => []OneActiveJobPerIdentity
<1>1. Init => UniqueIdentity(jobs)
  BY DEF Init, InitialJobs
<1>2. UniqueIdentity(jobs) <=> OneActiveJobPerIdentity
  BY DEF OneActiveJobPerIdentity
<1> QED
  BY <1>1, <1>2, InitTyped, StepTyped, StepUnique, PTL DEF Spec
-----------------------------------------------------------------------------
(* The life of a batch, with one request at a time.  What a request relies *)
(* on from one of its steps to the next: the batch is still open, the rows *)
(* it has not dealt with are those pending, and a row of an open batch is  *)
(* in error only inside the transaction that will close the batch.         *)
OneAtATime == \A v, w \in Worker : v = w

RequestInv(w) ==
    LET q == req[w]
    IN  /\ q.pc # "idle" => q.batch \in Batch
        /\ q.pc = "stage" => batch[q.batch] = "absent"
        /\ q.pc \in {"load", "mark", "transform"}
              => batch[q.batch] \in {"pending", "awaiting_review"}
        /\ q.pc \in {"mark", "transform"} => q.todo = Surviving(q.batch)
        /\ q.pc = "mark" => Doomed(q) # {}
        /\ q.pc = "delete" => /\ batch[q.batch] = "awaiting_review"
                              /\ q.todo \subseteq RowsOf(q.batch)
        /\ q.pc = "abandon" => batch[q.batch] \in {"awaiting_review", "error"}
        /\ q.errored => /\ q.pc = "transform"
                        /\ \E r \in RowsOf(q.batch) :
                              rows[r].status = "error" /\ ~rows[r].discarded

ErrorsCloseTheirBatch ==
    \A r \in Row :
        /\ rows[r].status = "error"
        /\ batch[BatchOf[r]] \in {"absent", "pending", "awaiting_review"}
        => \E w \in Worker : req[w].errored /\ req[w].batch = BatchOf[r]

LifeInv == ErrorsCloseTheirBatch /\ \A w \in Worker : RequestInv(w)

(* BatchLifecycle's moves of one batch, read off the tables.               *)
BatchMove(b) ==
    \/ batch'[b] = batch[b] /\ OpenRows(b)' = OpenRows(b)
    \/ /\ batch[b] = "absent"
       /\ batch'[b] \in {"pending", "awaiting_review"}
       /\ OpenRows(b)' = OpenRows(b)
    \/ /\ batch[b] \in {"pending", "awaiting_review"}
       /\ batch'[b] = batch[b]
       /\ OpenRows(b)' \subseteq OpenRows(b)
    \/ /\ batch[b] \in {"pending", "awaiting_review"}
       /\ batch'[b] = IF OpenRows(b) = {} THEN "processed" ELSE "error"
       /\ OpenRows(b)' = OpenRows(b)
    \/ /\ batch[b] \in {"awaiting_review", "error"}
       /\ batch'[b] = "abandoned"
       /\ OpenRows(b)' = OpenRows(b)

Moved == LifeInv' /\ \A b \in Batch : BatchMove(b)

(* With no transaction open, no row of an open batch is in error.          *)
LEMMA NoErrors ==
    ASSUME OneAtATime, LifeInv, NEW w \in Worker, ~req[w].errored
    PROVE  \A r \in Row :
              rows[r].status = "error"
                 => batch[BatchOf[r]] \notin {"absent", "pending", "awaiting_review"}
  BY DEF OneAtATime, LifeInv, ErrorsCloseTheirBatch

(* A step that only starts, aborts or loads a request.                     *)
LEMMA QuietStep ==
    ASSUME OneAtATime, LifeInv, NEW w \in Worker, UNCHANGED <<batch, rows>>,
           ~req[w].errored, RequestInv(w)'
    PROVE  Moved
<1>1. ErrorsCloseTheirBatch'
  BY NoErrors DEF ErrorsCloseTheirBatch
<1>2. \A v \in Worker : RequestInv(v)'
  BY DEF OneAtATime
<1>3. \A b \in Batch : OpenRows(b)' = OpenRows(b)
  BY DEF OpenRows
<1> QED
  BY <1>1, <1>2, <1>3 DEF Moved, LifeInv, BatchMove

(* Requests that begin, are aborted, or load their rows.                   *)
LEMMA BeginMoves ==
    ASSUME OneAtATime, TypeOK, LifeInv, NEW w \in Worker,
           Submit(w) \/ Abort(w) \/ LoadRows(w) \/ CommitOverrides(w)
    PROVE  Moved
<1>0. RequestInv(w) /\ req[w] \in Request
  BY DEF LifeInv, TypeOK
<1>1. CASE Submit(w)
  <2>1. /\ UNCHANGED <<batch, rows>>
        /\ ~req[w].errored
        /\ ~req'[w].errored
        /\ req'[w].batch \in Batch
        /\ \/ req'[w].pc = "stage" /\ batch[req'[w].batch] = "absent"
           \/ req'[w].pc = "load" /\ batch[req'[w].batch] = "awaiting_review"
           \/ req'[w].pc = "rename"
           \/ /\ req'[w].pc = "delete"
              /\ batch[req'[w].batch] = "awaiting_review"
              /\ req'[w].todo \subseteq RowsOf(req'[w].batch)
           \/ /\ req'[w].pc = "abandon"
              /\ batch[req'[w].batch] \in {"awaiting_review", "error"}
    <3>0. PICK b \in Batch :
             \/ BeginUpload(w, b) \/ BeginConfirm(w, b)
             \/ \E part, canonical \in Part : BeginSetCanonical(w, b, part, canonical)
             \/ \E r \in Row, i \in Ident : BeginSplitSuffix(w, b, r, i)
             \/ \E r \in Row : BeginDeleteRow(w, b, r)
             \/ BeginAbandon(w, b)
      BY <1>1 DEF Submit
    <3>1. At(w, "idle") /\ ~req[w].errored
      BY <1>0, <3>0 DEF BeginUpload, BeginConfirm, BeginSetCanonical,
          BeginSplitSuffix, BeginDeleteRow, BeginAbandon, At, RequestInv
    <3>2. CASE BeginUpload(w, b)
      BY <3>1, <3>2 DEF BeginUpload, Idle, TypeOK
    <3>3. CASE BeginConfirm(w, b)
      BY <3>1, <3>3 DEF BeginConfirm, Idle, TypeOK
    <3>4. ASSUME NEW part \in Part, NEW canonical \in Part,
                 BeginSetCanonical(w, b, part, canonical)
          PROVE  /\ UNCHANGED <<batch, rows>>
                 /\ ~req'[w].errored
                 /\ req'[w].batch \in Batch
                 /\ req'[w].pc = "rename"
      BY <3>4 DEF BeginSetCanonical, Idle, TypeOK
    <3>5. ASSUME NEW r \in Row, NEW i \in Ident, BeginSplitSuffix(w, b, r, i)
          PROVE  /\ UNCHANGED <<batch, rows>>
                 /\ ~req'[w].errored
                 /\ req'[w].batch \in Batch
                 /\ req'[w].pc = "rename"
      BY <3>5 DEF BeginSplitSuffix, Idle, TypeOK
    <3>6. ASSUME NEW r \in Row, BeginDeleteRow(w, b, r)
          PROVE  /\ UNCHANGED <<batch, rows>>
                 /\ ~req'[w].errored
                 /\ req'[w].batch = b
                 /\ req'[w].pc = "delete"
                 /\ batch[b] = "awaiting_review"
                 /\ req'[w].todo \subseteq RowsOf(b)
      BY <3>6 DEF BeginDeleteRow, Idle, TypeOK, OnPanel
    <3>7. CASE BeginAbandon(w, b)
      BY <3>1, <3>7 DEF BeginAbandon, Idle, TypeOK
    <3> QED
      BY <3>0, <3>1, <3>2, <3>3, <3>4, <3>5, <3>6, <3>7
  <2>2. RequestInv(w)'
    BY <2>1 DEF RequestInv, RowsOf
  <2> QED
    BY <2>1, <2>2, QuietStep
<1>2. CASE Abort(w)
  <2>1. UNCHANGED <<batch, rows>> /\ ~req[w].errored /\ req'[w] = Idle
    BY <1>2 DEF Abort, TypeOK
  <2>2. RequestInv(w)'
    BY <2>1 DEF RequestInv, Idle
  <2> QED
    BY <2>1, <2>2, QuietStep
<1>3. CASE LoadRows(w)
  <2>1. /\ UNCHANGED <<batch, rows>>
        /\ req[w].pc = "load"
        /\ ~req[w].errored
    BY <1>0, <1>3 DEF LoadRows, At, RequestInv
  <2> DEFINE some  == Surviving(req[w].batch)
             ident == [r \in Row |-> IF r \in some THEN Identities[r]
                                     ELSE NoIdent]
             q     == [req[w] EXCEPT !.todo = some, !.ident = ident]
  <2>2. req'[w] = [q EXCEPT !.pc = IF Doomed(q) = {} THEN "transform" ELSE "mark"]
    BY <1>3 DEF LoadRows, TypeOK
  <2>3. /\ req'[w].batch = req[w].batch
        /\ req'[w].todo = some
        /\ ~req'[w].errored
        /\ req'[w].pc \in {"mark", "transform"}
        /\ Doomed(req'[w]) = Doomed(q)
        /\ req'[w].pc = "mark" => Doomed(q) # {}
    BY <1>0, <2>1, <2>2 DEF Request, Doomed
  <2>4. \A b : Surviving(b)' = Surviving(b)
    BY <2>1 DEF Surviving, RowsOf
  <2> HIDE DEF q
  <2>5. RequestInv(w)'
    BY <1>0, <2>1, <2>3, <2>4 DEF RequestInv
  <2> QED
    BY <2>1, <2>5, QuietStep
<1>4. CASE CommitOverrides(w)
  <2>1. UNCHANGED batch /\ ~req[w].errored /\ req'[w] = Idle
    BY <1>0, <1>4 DEF CommitOverrides, At, RequestInv, TypeOK
  <2>2. \A r \in Row : /\ rows'[r].status = rows[r].status
                       /\ rows'[r].discarded = rows[r].discarded
    BY <1>4 DEF CommitOverrides, TypeOK, StagingRecord
  <2>3. RequestInv(w)'
    BY <2>1 DEF RequestInv, Idle
  <2>4. ErrorsCloseTheirBatch'
    BY <2>1, <2>2, NoErrors DEF ErrorsCloseTheirBatch
  <2>5. \A v \in Worker : RequestInv(v)'
    BY <2>3 DEF OneAtATime
  <2>6. \A b \in Batch : OpenRows(b)' = OpenRows(b)
    BY <2>2 DEF OpenRows, RowsOf
  <2> QED
    BY <2>1, <2>4, <2>5, <2>6 DEF Moved, LifeInv, BatchMove
<1> QED
  BY <1>1, <1>2, <1>3, <1>4

(* Stage 3: a batch that was absent comes to be.                           *)
LEMMA StageMoves ==
    ASSUME OneAtATime, TypeOK, LifeInv, NEW w \in Worker, StageWorkbook(w)
    PROVE  Moved
<1> DEFINE b == req[w].batch
<1>1. /\ RequestInv(w)
      /\ req[w].pc = "stage"
      /\ ~req[w].errored
      /\ b \in Batch
      /\ batch[b] = "absent"
  BY DEF LifeInv, RequestInv, StageWorkbook, At
<1>2. /\ UNCHANGED rows
      /\ batch'[b] \in {"pending", "awaiting_review"}
      /\ \A c \in Batch \ {b} : batch'[c] = batch[c]
  BY <1>1 DEF StageWorkbook, TypeOK
<1>3. \A c : OpenRows(c)' = OpenRows(c)
  BY <1>2 DEF OpenRows, RowsOf
<1>4. RequestInv(w)'
  <2>1. CASE req'[w] = Idle
    BY <2>1 DEF RequestInv, Idle
  <2>2. CASE req'[w] = [req[w] EXCEPT !.pc = "load"]
    <3>1. /\ req'[w].pc = "load"
          /\ req'[w].batch = b
          /\ ~req'[w].errored
      BY <1>1, <2>2 DEF TypeOK, Request
    <3> QED
      BY <1>1, <1>2, <3>1 DEF RequestInv
  <2> QED
    BY <2>1, <2>2 DEF StageWorkbook, TypeOK
<1>5. ErrorsCloseTheirBatch'
  BY <1>1, <1>2, NoErrors, ImportAssumption DEF ErrorsCloseTheirBatch
<1>6. \A v \in Worker : RequestInv(v)'
  BY <1>4 DEF OneAtATime
<1>7. \A c \in Batch : BatchMove(c)
  BY <1>1, <1>2, <1>3 DEF BatchMove
<1> QED
  BY <1>5, <1>6, <1>7 DEF Moved, LifeInv

(* Stage 4: the marked rows stay among those not resolved.                 *)
LEMMA MarkMoves ==
    ASSUME OneAtATime, TypeOK, LifeInv, NEW w \in Worker, MarkErrors(w)
    PROVE  Moved
<1> DEFINE b    == req[w].batch
           doom == Doomed(req[w])
<1>1. /\ RequestInv(w)
      /\ ~req[w].errored
      /\ b \in Batch
      /\ req[w].todo = Surviving(b)
      /\ doom # {}
      /\ doom \subseteq Surviving(b)
  BY DEF LifeInv, RequestInv, MarkErrors, At, Doomed, Colliding
<1>2. /\ UNCHANGED batch
      /\ \A r \in Row : /\ rows'[r].discarded = rows[r].discarded
                        /\ r \in doom => rows'[r].status = "error"
                        /\ r \notin doom => rows'[r].status = rows[r].status
  <2>1. \A r \in Row : rows[r] \in StagingRecord
    BY DEF TypeOK
  <2> QED
    BY <2>1 DEF MarkErrors, StagingRecord
<1>3. /\ req'[w].pc = "transform"
      /\ req'[w].batch = b
      /\ req'[w].todo = req[w].todo \ doom
      /\ req'[w].errored
  BY DEF MarkErrors, TypeOK, Request
<1>4. \A c : OpenRows(c)' = OpenRows(c)
  BY <1>1, <1>2 DEF OpenRows, RowsOf, Surviving
<1>5. \A c : Surviving(c)' = Surviving(c) \ doom
  BY <1>1, <1>2 DEF Surviving, RowsOf
<1>6. RequestInv(w)'
  <2>1. PICK r \in doom : TRUE
    BY <1>1
  <2>2. r \in RowsOf(b) /\ rows'[r].status = "error" /\ ~rows'[r].discarded
    BY <1>1, <1>2, <2>1 DEF Surviving, RowsOf
  <2>3. batch'[b] \in {"pending", "awaiting_review"}
    BY <1>1, <1>2 DEF RequestInv, MarkErrors, At
  <2> HIDE DEF doom
  <2> QED
    BY <1>1, <1>3, <1>5, <2>2, <2>3 DEF RequestInv, RowsOf
<1>7. ErrorsCloseTheirBatch'
  <2>1. \A r \in doom : BatchOf[r] = b
    BY <1>1 DEF Surviving, RowsOf
  <2> QED
    BY <1>1, <1>2, <1>3, <2>1, NoErrors DEF ErrorsCloseTheirBatch
<1>8. \A v \in Worker : RequestInv(v)'
  BY <1>6 DEF OneAtATime
<1> QED
  BY <1>2, <1>4, <1>7, <1>8 DEF Moved, LifeInv, BatchMove

(* Stage 5: one row is resolved, or found in error.                        *)
LEMMA RowMoves ==
    ASSUME OneAtATime, TypeOK, LifeInv, NEW w \in Worker, NEW r \in Row,
           TransformRow(w, r) \/ RejectRow(w, r)
    PROVE  Moved
<1> DEFINE b == req[w].batch
<1>1. /\ RequestInv(w)
      /\ req[w].pc = "transform"
      /\ b \in Batch
      /\ batch[b] \in {"pending", "awaiting_review"}
      /\ req[w].todo = Surviving(b)
      /\ r \in Surviving(b)
  BY DEF LifeInv, RequestInv, TransformRow, RejectRow, At, IsNext
<1>2. /\ UNCHANGED batch
      /\ rows'[r].discarded = rows[r].discarded
      /\ \A s \in Row \ {r} : rows'[s] = rows[s]
      /\ rows'[r].status = "processed" \/ rows'[r].status = "error"
  <2>1. rows[r] \in StagingRecord
    BY DEF TypeOK
  <2> QED
    BY <2>1 DEF TransformRow, RejectRow, TypeOK, StagingRecord
<1>3. /\ req'[w].pc = "transform"
      /\ req'[w].batch = b
      /\ req'[w].todo = req[w].todo \ {r}
      /\ \/ rows'[r].status = "error" /\ req'[w].errored
         \/ rows'[r].status = "processed" /\ req'[w].errored = req[w].errored
  <2>1. req[w] \in Request /\ rows[r] \in StagingRecord
    BY DEF TypeOK
  <2>2. CASE TransformRow(w, r)
    <3>1. req'[w] = [req[w] EXCEPT !.todo = @ \ {r}]
      BY <2>2 DEF TransformRow, Dealt, TypeOK
    <3>2. /\ req'[w].pc = req[w].pc
          /\ req'[w].batch = b
          /\ req'[w].todo = req[w].todo \ {r}
          /\ req'[w].errored = req[w].errored
      BY <2>1, <3>1 DEF Request
    <3>3. rows'[r].status = "processed"
      BY <2>1, <2>2 DEF TransformRow, TypeOK, StagingRecord
    <3> QED
      BY <1>1, <3>2, <3>3
  <2>3. CASE RejectRow(w, r)
    <3>1. req'[w] = [req[w] EXCEPT !.todo = @ \ {r}, !.errored = TRUE]
      BY <2>3 DEF RejectRow, TypeOK
    <3>2. /\ req'[w].pc = req[w].pc
          /\ req'[w].batch = b
          /\ req'[w].todo = req[w].todo \ {r}
          /\ req'[w].errored
      BY <2>1, <3>1 DEF Request
    <3>3. rows'[r].status = "error"
      BY <2>1, <2>3 DEF RejectRow, TypeOK, StagingRecord
    <3> QED
      BY <1>1, <3>2, <3>3
  <2> QED
    BY <2>2, <2>3
<1>4. \A c : Surviving(c)' = Surviving(c) \ {r}
  BY <1>1, <1>2 DEF Surviving, RowsOf
<1>5. \A c \in Batch : /\ OpenRows(c)' \subseteq OpenRows(c)
                       /\ c # b => OpenRows(c)' = OpenRows(c)
  BY <1>1, <1>2 DEF OpenRows, RowsOf, Surviving
<1>6. RequestInv(w)'
  <2>1. req'[w].errored => \E s \in RowsOf(b) : rows'[s].status = "error"
                                             /\ ~rows'[s].discarded
    <3>1. CASE rows'[r].status = "error"
      BY <1>1, <1>2, <3>1 DEF Surviving, RowsOf
    <3>2. CASE req'[w].errored = req[w].errored
      BY <1>1, <1>2, <3>2 DEF RequestInv, Surviving, RowsOf
    <3> QED
      BY <1>3, <3>1, <3>2
  <2> QED
    BY <1>1, <1>2, <1>3, <1>4, <2>1 DEF RequestInv, RowsOf
<1>7. ErrorsCloseTheirBatch'
  <2> SUFFICES ASSUME NEW s \in Row,
                      rows'[s].status = "error",
                      batch'[BatchOf[s]] \in {"absent", "pending", "awaiting_review"}
               PROVE  req'[w].errored /\ req'[w].batch = BatchOf[s]
    BY DEF ErrorsCloseTheirBatch
  <2>1. CASE s = r
    BY <1>1, <1>3, <2>1 DEF Surviving, RowsOf
  <2>2. CASE s # r
    <3>1. \E v \in Worker : req[v].errored /\ req[v].batch = BatchOf[s]
      BY <1>2, <2>2 DEF LifeInv, ErrorsCloseTheirBatch
    <3>2. req[w].errored /\ b = BatchOf[s]
      BY <3>1 DEF OneAtATime
    <3> QED
      BY <1>3, <3>2
  <2> QED
    BY <2>1, <2>2
<1>8. \A v \in Worker : RequestInv(v)'
  BY <1>6 DEF OneAtATime
<1>9. \A c \in Batch : BatchMove(c)
  BY <1>1, <1>2, <1>5 DEF BatchMove
<1> QED
  BY <1>7, <1>8, <1>9 DEF Moved, LifeInv

(* A batch that Stage 6, or a failure of the loop, closes: nothing of it   *)
(* is pending, and whether a row is in error is what the request knows.    *)
LEMMA ClosingMoves ==
    ASSUME OneAtATime, TypeOK, LifeInv, NEW w \in Worker,
           FinishBatch(w) \/ LoopFails(w)
    PROVE  Moved
<1> DEFINE b == req[w].batch
<1>1. /\ RequestInv(w)
      /\ b \in Batch
      /\ batch[b] \in {"pending", "awaiting_review"}
      /\ req[w].todo = Surviving(b)
      /\ UNCHANGED rows
      /\ req'[w] = Idle
      /\ \A c \in Batch \ {b} : batch'[c] = batch[c]
  BY DEF LifeInv, RequestInv, FinishBatch, LoopFails, At, TypeOK
<1>2. batch'[b] = IF OpenRows(b) = {} THEN "processed" ELSE "error"
  <2>0. \A r \in Row : rows[r].status \in {"pending", "error", "processed"}
    BY DEF TypeOK, StagingRecord
  <2>1. CASE LoopFails(w)
    <3>1. Surviving(b) \subseteq OpenRows(b) /\ Surviving(b) # {}
      BY <1>1, <2>1 DEF LoopFails, Surviving, OpenRows
    <3> QED
      BY <1>1, <2>1, <3>1 DEF LoopFails, TypeOK
  <2>2. CASE FinishBatch(w) /\ req[w].errored
    <3>1. OpenRows(b) # {}
      BY <1>1, <2>2 DEF RequestInv, OpenRows
    <3> QED
      BY <1>1, <2>2, <3>1 DEF FinishBatch, TypeOK
  <2>3. CASE FinishBatch(w) /\ ~req[w].errored
    <3>1. \A r \in RowsOf(b) : rows[r].status # "error"
      BY <1>1, <2>3, NoErrors DEF RowsOf
    <3>2. OpenRows(b) = {}
      BY <1>1, <2>0, <2>3, <3>1 DEF FinishBatch, OpenRows, Surviving, RowsOf
    <3> QED
      BY <1>1, <2>3, <3>2 DEF FinishBatch, TypeOK
  <2> QED
    BY <2>1, <2>2, <2>3
<1>3. \A c : OpenRows(c)' = OpenRows(c)
  BY <1>1 DEF OpenRows, RowsOf
<1>4. RequestInv(w)'
  BY <1>1 DEF RequestInv, Idle
<1>5. ErrorsCloseTheirBatch'
  BY <1>1, <1>2, ImportAssumption DEF OneAtATime, LifeInv, ErrorsCloseTheirBatch
<1>6. \A v \in Worker : RequestInv(v)'
  BY <1>4 DEF OneAtATime
<1>7. \A c \in Batch : BatchMove(c)
  BY <1>1, <1>2, <1>3 DEF BatchMove
<1> QED
  BY <1>5, <1>6, <1>7 DEF Moved, LifeInv

(* The review request that takes a row out of its batch.                   *)
LEMMA DeleteMoves ==
    ASSUME OneAtATime, TypeOK, LifeInv, NEW w \in Worker, CommitDelete(w)
    PROVE  Moved
<1> DEFINE b == req[w].batch
<1>1. /\ RequestInv(w)
      /\ ~req[w].errored
      /\ b \in Batch
      /\ batch[b] = "awaiting_review"
      /\ req[w].todo \subseteq RowsOf(b)
      /\ UNCHANGED batch
      /\ req'[w] = Idle
  BY DEF LifeInv, RequestInv, CommitDelete, At, TypeOK
<1>2. \A r \in Row : /\ rows'[r].status = rows[r].status
                     /\ rows'[r].discarded = (rows[r].discarded \/ r \in req[w].todo)
  <2>1. \A r \in Row : rows[r] \in StagingRecord
    BY DEF TypeOK
  <2> QED
    BY <2>1 DEF CommitDelete, StagingRecord
<1>3. \A c \in Batch : /\ OpenRows(c)' \subseteq OpenRows(c)
                       /\ c # b => OpenRows(c)' = OpenRows(c)
  BY <1>1, <1>2 DEF OpenRows, RowsOf
<1>4. RequestInv(w)'
  BY <1>1 DEF RequestInv, Idle
<1>5. ErrorsCloseTheirBatch'
  BY <1>1, <1>2, NoErrors DEF ErrorsCloseTheirBatch
<1>6. \A v \in Worker : RequestInv(v)'
  BY <1>4 DEF OneAtATime
<1>7. \A c \in Batch : BatchMove(c)
  BY <1>1, <1>3 DEF BatchMove
<1> QED
  BY <1>5, <1>6, <1>7 DEF Moved, LifeInv

(* The review request that gives a batch up.                               *)
LEMMA AbandonMoves ==
    ASSUME OneAtATime, TypeOK, LifeInv, NEW w \in Worker, CommitAbandon(w)
    PROVE  Moved
<1> DEFINE b == req[w].batch
<1>1. /\ RequestInv(w)
      /\ ~req[w].errored
      /\ b \in Batch
      /\ batch[b] \in {"awaiting_review", "error"}
      /\ UNCHANGED rows
      /\ batch' = [batch EXCEPT ![b] = "abandoned"]
      /\ req'[w] = Idle
  BY DEF LifeInv, RequestInv, CommitAbandon, At, TypeOK
<1>2. \A c : OpenRows(c)' = OpenRows(c)
  BY <1>1 DEF OpenRows, RowsOf
<1>3. RequestInv(w)'
  BY <1>1 DEF RequestInv, Idle
<1>4. ErrorsCloseTheirBatch'
  BY <1>1, NoErrors, ImportAssumption DEF ErrorsCloseTheirBatch, TypeOK
<1>5. \A v \in Worker : RequestInv(v)'
  BY <1>3 DEF OneAtATime
<1>6. \A c \in Batch : BatchMove(c)
  BY <1>1, <1>2 DEF BatchMove, TypeOK
<1> QED
  BY <1>4, <1>5, <1>6 DEF Moved, LifeInv

(* No import starts with a request or a row in error.                      *)
LEMMA InitLife == Init => LifeInv
  BY DEF Init, Fresh, Idle, LifeInv, RequestInv, ErrorsCloseTheirBatch

(* Every step of the one request that runs is a move of BatchLifecycle.    *)
LEMMA StepMoves ==
    ASSUME OneAtATime
    PROVE  TypeOK /\ LifeInv /\ [Next]_vars => Moved
<1> SUFFICES ASSUME TypeOK, LifeInv, [Next]_vars PROVE Moved
  OBVIOUS
<1>1. CASE UNCHANGED vars
  BY <1>1 DEF vars, Moved, LifeInv, ErrorsCloseTheirBatch, RequestInv,
      BatchMove, OpenRows, RowsOf, Surviving
<1>2. CASE Next
  <2>1. PICK w \in Worker : Submit(w) \/ Continue(w) \/ LoopFails(w) \/ Abort(w)
    BY <1>2 DEF Next
  <2> QED
    BY <2>1, BeginMoves, StageMoves, MarkMoves, RowMoves, ClosingMoves,
       DeleteMoves, AbandonMoves DEF Continue
<1> QED
  BY <1>1, <1>2

(* One request at a time, whether or not requests die, each workbook goes  *)
(* through the life of BatchLifecycle: rows only leave the open set, the   *)
(* batch closes as processed exactly when none is left open, and nothing   *)
(* but being abandoned happens to it afterwards.                           *)
THEOREM SerialBatchLife ==
    ASSUME OneAtATime
    PROVE  Spec => ImplementsBatchLife
<1>1. Init => Life!Init
  BY DEF Init, Life!Init
<1>2. Moved => [Life!Next]_(Life!vars)
  BY DEF Moved, BatchMove, Life!Next, Life!BatchStep, Life!Opened
<1> QED
  BY <1>1, <1>2, InitTyped, StepTyped, InitLife, StepMoves, PTL
     DEF Spec, ImplementsBatchLife, Life!Spec, Moved

(* A step resolves at most rows that survived review.                      *)
LEMMA StepResolves ==
    ASSUME TypeOK, LifeInv, [Next]_vars, NEW r \in Row,
           rows[r].discarded
    PROVE  rows'[r].resolved = rows[r].resolved
<1> USE DEF TypeOK
<1>1. ASSUME NEW w \in Worker, NEW s \in Row, TransformRow(w, s)
      PROVE  rows'[r].resolved = rows[r].resolved
  <2>1. s \in Surviving(req[w].batch)
    BY <1>1 DEF LifeInv, RequestInv, TransformRow, At, IsNext
  <2>2. s # r
    BY <2>1 DEF Surviving
  <2> QED
    BY <1>1, <2>2 DEF TransformRow
<1>2. ASSUME NEW w \in Worker,
             \/ MarkErrors(w)
             \/ \E s \in Row : RejectRow(w, s)
             \/ CommitOverrides(w) \/ CommitDelete(w)
      PROVE  rows'[r].resolved = rows[r].resolved
  <2>1. rows[r] \in StagingRecord
    OBVIOUS
  <2>2. CASE MarkErrors(w)
    BY <2>1, <2>2 DEF MarkErrors, StagingRecord
  <2>3. ASSUME NEW s \in Row, RejectRow(w, s)
        PROVE  rows'[r].resolved = rows[r].resolved
    <3>1. rows' = [rows EXCEPT ![s] = [rows[s] EXCEPT !.status = "error"]]
      BY <2>3 DEF RejectRow
    <3>2. [rows[r] EXCEPT !.status = "error"].resolved = rows[r].resolved
      BY <2>1 DEF StagingRecord
    <3> QED
      BY <3>1, <3>2
  <2>4. CASE CommitOverrides(w)
    BY <2>1, <2>4 DEF CommitOverrides, StagingRecord
  <2>5. CASE CommitDelete(w)
    BY <2>1, <2>5 DEF CommitDelete, StagingRecord
  <2> QED
    BY <1>2, <2>2, <2>3, <2>4, <2>5
<1>3. ASSUME NEW w \in Worker,
             \/ Submit(w) \/ StageWorkbook(w) \/ LoadRows(w) \/ FinishBatch(w)
             \/ CommitAbandon(w) \/ LoopFails(w) \/ Abort(w)
      PROVE  UNCHANGED rows
  BY <1>3 DEF Submit, BeginUpload, BeginConfirm, BeginSetCanonical,
      BeginSplitSuffix, BeginDeleteRow, BeginAbandon, StageWorkbook, LoadRows,
      FinishBatch, CommitAbandon, LoopFails, Abort
<1>4. CASE Next
  BY <1>1, <1>2, <1>3, <1>4 DEF Next, Continue
<1> QED
  BY <1>4 DEF vars

(* One request at a time, a row deleted during review is resolved to no    *)
(* job by the stages that follow.                                          *)
THEOREM DeletedStayOut ==
    ASSUME OneAtATime
    PROVE  Spec => DeletedRowsStayOut
<1>1. TypeOK /\ LifeInv /\ [Next]_vars
         => [\A r \in Row : rows[r].discarded
                              => rows'[r].resolved = rows[r].resolved]_vars
  BY StepResolves
<1> QED
  BY <1>1, InitTyped, StepTyped, InitLife, StepMoves, PTL
     DEF Spec, DeletedRowsStayOut, Moved
-----------------------------------------------------------------------------
(* One request at a time and none of them dies: what becomes of the rows   *)
(* of a batch while Stages 4 to 6 run on it.                               *)

(* The rows of b that Stage 5 has resolved or has yet to resolve.          *)
Counted(b) == {r \in RowsOf(b) : ~rows[r].discarded /\ rows[r].status # "error"}

(* A row is processed when it has a job, and before its batch is closed    *)
(* only while Stage 5 runs on the batch.                                   *)
ProcessedInv ==
    \A r \in Row :
        /\ rows[r].status = "processed" <=> rows[r].resolved # NoJob
        /\ /\ rows[r].status = "processed"
           /\ batch[BatchOf[r]] \in {"absent", "pending", "awaiting_review"}
           => \E w \in Worker : req[w].pc = "transform" /\ req[w].batch = BatchOf[r]

(* What Stage 5 relies on: the identities read are those of the table,     *)
(* no two of them are equal, and a row dealt with has an active job of its *)
(* identity.                                                               *)
HasItsJob(r) ==
    /\ IsActive(jobs, rows[r].resolved)
    /\ jobs[rows[r].resolved].ident = EffectiveIdent(rows[r])

LoadedInv(w) ==
    LET q == req[w]
    IN  /\ q.pc \in {"mark", "transform"} =>
              \A r \in q.todo : q.ident[r] = EffectiveIdent(rows[r])
        /\ q.pc = "transform" =>
              \A r \in Counted(q.batch) :
                 /\ EffectiveIdent(rows[r]) # NoIdent
                 /\ rows[r].status = "processed" => HasItsJob(r)
                 /\ \A s \in Counted(q.batch) \ {r} :
                       EffectiveIdent(rows[s]) # EffectiveIdent(rows[r])

ResolveInv == /\ ProcessedInv
              /\ \A w \in Worker : LoadedInv(w)
              /\ SiblingsResolveApart

(* A step that changes no row and runs no Stage 5.                         *)
LEMMA QuietResolves ==
    ASSUME OneAtATime, ResolveInv, NEW w \in Worker,
           UNCHANGED rows,
           req'[w].pc \notin {"mark", "transform"},
           \A b \in Batch :
              batch'[b] \in {"absent", "pending", "awaiting_review"}
                 => /\ batch[b] \in {"absent", "pending", "awaiting_review"}
                    /\ ~(req[w].pc = "transform" /\ req[w].batch = b)
    PROVE  ResolveInv'
<1>1. ProcessedInv'
  BY ImportAssumption DEF OneAtATime, ResolveInv, ProcessedInv
<1>2. \A v \in Worker : LoadedInv(v)'
  BY DEF OneAtATime, LoadedInv
<1>3. SiblingsResolveApart'
  BY DEF ResolveInv, SiblingsResolveApart
<1> QED
  BY <1>1, <1>2, <1>3 DEF ResolveInv

(* Before Stage 5 every row of an open batch is pending.                   *)
LEMMA AllPending ==
    ASSUME OneAtATime, TypeOK, LifeInv, ResolveInv, NEW w \in Worker,
           ~req[w].errored, req[w].pc # "transform", NEW b \in Batch,
           batch[b] \in {"absent", "pending", "awaiting_review"}
    PROVE  /\ \A r \in RowsOf(b) : rows[r].status = "pending"
           /\ Counted(b) = Surviving(b)
<1>1. \A r \in RowsOf(b) : /\ rows[r].status # "error"
                           /\ rows[r].status # "processed"
                           /\ rows[r] \in StagingRecord
  BY NoErrors DEF ResolveInv, ProcessedInv, RowsOf, OneAtATime, TypeOK
<1>2. \A r \in RowsOf(b) : rows[r].status = "pending"
  BY <1>1 DEF StagingRecord
<1> QED
  BY <1>2 DEF Counted, Surviving

(* Rows none of which Stage 4 would mark have identities, all different.   *)
LEMMA NoneDoomed ==
    ASSUME NEW q \in Request, NEW r \in q.todo, r \notin Doomed(q)
    PROVE  /\ q.ident[r] # NoIdent
           /\ \A s \in q.todo \ {r} : q.ident[s] # q.ident[r]
  BY DEF Doomed, Colliding, Request

(* Stage 4 reads the rows, and marks those Stage 5 is not to see.          *)
LEMMA LoadResolves ==
    ASSUME OneAtATime, TypeOK, LifeInv, ResolveInv, NEW w \in Worker, LoadRows(w)
    PROVE  ResolveInv'
<1> DEFINE b     == req[w].batch
           some  == Surviving(b)
           ident == [r \in Row |-> IF r \in some THEN Identities[r] ELSE NoIdent]
           q     == [req[w] EXCEPT !.todo = some, !.ident = ident]
<1>1. /\ req[w] \in Request /\ RequestInv(w)
      /\ req[w].pc = "load" /\ ~req[w].errored
      /\ UNCHANGED <<batch, rows, jobs>>
  BY DEF TypeOK, LifeInv, RequestInv, LoadRows, At
<1>2. /\ b \in Batch /\ batch[b] \in {"pending", "awaiting_review"}
      /\ Counted(b) = some
      /\ \A r \in RowsOf(b) : rows[r].status = "pending"
  BY <1>1, AllPending DEF RequestInv
<1>3. q \in Request /\ q.todo = some /\ q.ident = ident
  <2>1. \A r \in Row : Identities[r] \in Ident \union {NoIdent}
    BY DEF TypeOK, Identities, EffectiveIdent, StagingRecord
  <2>2. some \in SUBSET Row /\ ident \in [Row -> Ident \union {NoIdent}]
    BY <2>1 DEF Surviving, RowsOf
  <2> HIDE DEF some, ident
  <2> QED
    BY <1>1, <2>2 DEF Request
<1>4. req'[w] = [q EXCEPT !.pc = IF Doomed(q) = {} THEN "transform" ELSE "mark"]
  BY DEF LoadRows, TypeOK
<1> HIDE DEF q
<1>5. /\ req'[w].todo = some /\ req'[w].ident = ident /\ req'[w].batch = b
      /\ req'[w].pc = "transform" => Doomed(q) = {}
  BY <1>1, <1>3, <1>4 DEF Request, q
<1>6. \A r \in some : r \in Row /\ ident[r] = EffectiveIdent(rows[r])
  BY DEF Surviving, RowsOf, Identities
<1> HIDE DEF some, ident
<1>7. LoadedInv(w)'
  <2>1. \A c : c = b => Counted(c)' = some
    BY <1>1, <1>2 DEF Counted, RowsOf
  <2>2. \A r \in req'[w].todo : req'[w].ident[r] = EffectiveIdent(rows'[r])
    BY <1>1, <1>5, <1>6
  <2>3. ASSUME req'[w].pc = "transform", NEW r \in some
        PROVE  /\ EffectiveIdent(rows'[r]) # NoIdent
               /\ rows'[r].status # "processed"
               /\ \A s \in some \ {r} : EffectiveIdent(rows'[s]) # EffectiveIdent(rows'[r])
    <3>1. /\ ident[r] # NoIdent
          /\ \A s \in some \ {r} : ident[s] # ident[r]
      BY <1>3, <1>5, <2>3, NoneDoomed
    <3>2. rows'[r].status # "processed"
      BY <1>1, <1>2, <2>3 DEF Counted
    <3> QED
      BY <1>1, <1>6, <3>1, <3>2
  <2> QED
    BY <1>5, <2>1, <2>2, <2>3 DEF LoadedInv
<1>8. ProcessedInv'
  BY <1>1 DEF OneAtATime, ResolveInv, ProcessedInv
<1>9. \A v \in Worker : LoadedInv(v)'
  BY <1>7 DEF OneAtATime
<1>10. SiblingsResolveApart'
  BY <1>1 DEF ResolveInv, SiblingsResolveApart
<1> QED
  BY <1>8, <1>9, <1>10 DEF ResolveInv

(* Marking the rows in error keeps the processed ones apart.               *)
LEMMA MarkResolves ==
    ASSUME OneAtATime, TypeOK, LifeInv, ResolveInv, NEW w \in Worker, MarkErrors(w)
    PROVE  ResolveInv'
<1> DEFINE q    == req[w]
           b    == q.batch
           doom == Doomed(q)
<1>1. /\ q \in Request /\ RequestInv(w) /\ LoadedInv(w)
      /\ q.pc = "mark" /\ ~q.errored
      /\ q.todo = Surviving(b)
      /\ UNCHANGED <<batch, jobs>>
  BY DEF TypeOK, LifeInv, RequestInv, ResolveInv, MarkErrors, At
<1>2. /\ b \in Batch
      /\ Counted(b) = q.todo
      /\ \A r \in RowsOf(b) : rows[r].status = "pending"
      /\ doom \subseteq q.todo
  BY <1>1, AllPending DEF RequestInv, Doomed, Colliding
<1>3. \A r \in Row : /\ rows'[r].discarded = rows[r].discarded
                     /\ rows'[r].resolved = rows[r].resolved
                     /\ EffectiveIdent(rows'[r]) = EffectiveIdent(rows[r])
                     /\ r \in doom => rows'[r].status = "error"
                     /\ r \notin doom => rows'[r].status = rows[r].status
  <2>1. \A r \in Row : rows[r] \in StagingRecord
    BY DEF TypeOK
  <2> QED
    BY <2>1 DEF MarkErrors, StagingRecord, EffectiveIdent
<1>4. /\ req'[w].pc = "transform"
      /\ req'[w].batch = b
      /\ req'[w].ident = q.ident
      /\ req'[w].todo = q.todo \ doom
  BY <1>1 DEF MarkErrors, TypeOK, Request
<1>5. \A r \in q.todo : r \in RowsOf(b) /\ r \in Row
  BY <1>1 DEF Surviving, RowsOf
<1>6. \A r \in q.todo : q.ident[r] = EffectiveIdent(rows[r])
  BY <1>1 DEF LoadedInv
<1>7. \A r \in q.todo \ doom :
         /\ q.ident[r] # NoIdent
         /\ \A s \in q.todo \ {r} : q.ident[s] # q.ident[r]
  BY <1>1, NoneDoomed
<1>8. \A c : c = b => Counted(c)' = q.todo \ doom
  BY <1>2, <1>3, <1>5 DEF Counted, RowsOf
<1>9. ProcessedInv'
  <2> SUFFICES ASSUME NEW r \in Row
               PROVE  /\ rows'[r].status = "processed" <=> rows'[r].resolved # NoJob
                      /\ /\ rows'[r].status = "processed"
                         /\ batch'[BatchOf[r]] \in {"absent", "pending", "awaiting_review"}
                         => req'[w].pc = "transform" /\ req'[w].batch = BatchOf[r]
    BY DEF ProcessedInv
  <2>1. CASE r \in doom
    BY <1>2, <1>3, <1>5, <2>1 DEF ResolveInv, ProcessedInv
  <2>2. CASE r \notin doom
    BY <1>1, <1>3, <2>2 DEF OneAtATime, ResolveInv, ProcessedInv
  <2> QED
    BY <2>1, <2>2
<1> HIDE DEF doom
<1>10. LoadedInv(w)'
  <2>1. \A r \in q.todo \ doom : /\ q.ident[r] = EffectiveIdent(rows'[r])
                                 /\ rows'[r].status # "processed"
    BY <1>2, <1>3, <1>5, <1>6
  <2> QED
    BY <1>4, <1>7, <1>8, <2>1 DEF LoadedInv
<1>11. \A v \in Worker : LoadedInv(v)'
  BY <1>10 DEF OneAtATime
<1>12. SiblingsResolveApart'
  BY <1>3 DEF ResolveInv, SiblingsResolveApart
<1> QED
  BY <1>9, <1>11, <1>12 DEF ResolveInv

(* What a step of Stage 5 on row r starts from.                            *)
LEMMA AtRow ==
    ASSUME OneAtATime, TypeOK, LifeInv, ResolveInv, NEW w \in Worker, NEW r \in Row,
           TransformRow(w, r) \/ RejectRow(w, r)
    PROVE  /\ req[w] \in Request /\ LoadedInv(w)
           /\ req[w].pc = "transform" /\ req[w].batch \in Batch
           /\ req[w].todo = Surviving(req[w].batch)
           /\ r \in req[w].todo /\ r \in Counted(req[w].batch)
           /\ BatchOf[r] = req[w].batch
           /\ rows[r].status = "pending" /\ rows[r].resolved = NoJob
           /\ req[w].ident[r] = EffectiveIdent(rows[r])
           /\ UNCHANGED batch
           /\ \A s \in Row \ {r} : rows'[s] = rows[s]
           /\ rows'[r].discarded = rows[r].discarded
           /\ EffectiveIdent(rows'[r]) = EffectiveIdent(rows[r])
           /\ req'[w].pc = "transform" /\ req'[w].batch = req[w].batch
           /\ req'[w].ident = req[w].ident
           /\ req'[w].todo = req[w].todo \ {r}
<1>1. /\ req[w] \in Request /\ LoadedInv(w) /\ RequestInv(w)
      /\ req[w].pc = "transform" /\ req[w].batch \in Batch
      /\ req[w].todo = Surviving(req[w].batch)
      /\ r \in req[w].todo
      /\ UNCHANGED batch
  BY DEF TypeOK, LifeInv, RequestInv, ResolveInv, TransformRow, RejectRow, At, IsNext
<1>2. /\ BatchOf[r] = req[w].batch /\ rows[r].status = "pending"
      /\ r \in Counted(req[w].batch)
      /\ rows[r].resolved = NoJob
      /\ req[w].ident[r] = EffectiveIdent(rows[r])
  BY <1>1 DEF Surviving, Counted, RowsOf, LoadedInv, ResolveInv, ProcessedInv
<1>3. /\ \A s \in Row \ {r} : rows'[s] = rows[s]
      /\ rows'[r].discarded = rows[r].discarded
      /\ EffectiveIdent(rows'[r]) = EffectiveIdent(rows[r])
  <2>1. rows[r] \in StagingRecord
    BY DEF TypeOK
  <2> QED
    BY <2>1 DEF TransformRow, RejectRow, TypeOK, StagingRecord, EffectiveIdent
<1>4. /\ req'[w].pc = "transform" /\ req'[w].batch = req[w].batch
      /\ req'[w].ident = req[w].ident
      /\ req'[w].todo = req[w].todo \ {r}
  <2>1. CASE TransformRow(w, r)
    BY <1>1, <2>1 DEF TransformRow, Dealt, TypeOK, Request
  <2>2. CASE RejectRow(w, r)
    <3>1. req'[w] = [req[w] EXCEPT !.todo = @ \ {r}, !.errored = TRUE]
      BY <2>2 DEF RejectRow, TypeOK
    <3> QED
      BY <1>1, <3>1 DEF Request
  <2> QED
    BY <2>1, <2>2
<1> QED
  BY <1>1, <1>2, <1>3, <1>4

(* A row in error leaves the others as they were.                          *)
LEMMA RejectResolves ==
    ASSUME OneAtATime, TypeOK, LifeInv, ResolveInv, NEW w \in Worker, NEW r \in Row,
           RejectRow(w, r)
    PROVE  ResolveInv'
<1> DEFINE q == req[w]
           b == q.batch
<1>1. /\ q \in Request /\ LoadedInv(w)
      /\ q.pc = "transform"
      /\ rows[r].resolved = NoJob
      /\ UNCHANGED batch
      /\ \A s \in Row \ {r} : rows'[s] = rows[s]
      /\ rows'[r].discarded = rows[r].discarded
      /\ req'[w].pc = "transform" /\ req'[w].batch = b
      /\ req'[w].ident = q.ident
      /\ req'[w].todo = q.todo \ {r}
      /\ \A s \in q.todo : s \in Row
  BY AtRow DEF Request
<1>2. /\ rows'[r].status = "error" /\ rows'[r].resolved = NoJob
      /\ UNCHANGED jobs
  <2>1. rows[r] \in StagingRecord
    BY DEF TypeOK
  <2> QED
    BY <1>1, <2>1 DEF RejectRow, TypeOK, StagingRecord
<1>3. ProcessedInv'
  BY <1>1, <1>2 DEF OneAtATime, ResolveInv, ProcessedInv
<1>4. \A c : Counted(c)' = Counted(c) \ {r}
  BY <1>1, <1>2 DEF Counted, RowsOf
<1>5. LoadedInv(w)'
  <2>1. \A s \in q.todo \ {r} : q.ident[s] = EffectiveIdent(rows'[s])
    BY <1>1 DEF LoadedInv
  <2>2. ASSUME NEW s \in Counted(b) \ {r}
        PROVE  /\ EffectiveIdent(rows'[s]) # NoIdent
               /\ rows'[s].status = "processed" => HasItsJob(s)'
               /\ \A t \in (Counted(b) \ {r}) \ {s} :
                     EffectiveIdent(rows'[t]) # EffectiveIdent(rows'[s])
    <3>1. /\ \A t \in Counted(b) \ {r} : rows'[t] = rows[t]
          /\ s \in Counted(b)
      BY <1>1 DEF Counted, RowsOf
    <3>2. rows'[s].status = "processed" => HasItsJob(s)'
      BY <1>1, <1>2, <3>1 DEF LoadedInv, HasItsJob
    <3> QED
      BY <1>1, <3>1, <3>2 DEF LoadedInv
  <2>3. \A c : c = b => Counted(c)' = Counted(b) \ {r}
    BY <1>4
  <2> QED
    BY <1>1, <2>1, <2>2, <2>3 DEF LoadedInv
<1>6. \A v \in Worker : LoadedInv(v)'
  BY <1>5 DEF OneAtATime
<1>7. SiblingsResolveApart'
  BY <1>1, <1>2 DEF ResolveInv, SiblingsResolveApart
<1> QED
  BY <1>3, <1>6, <1>7 DEF ResolveInv

(* A row is resolved to a job that none of its batch has: the job had the  *)
(* identity of the row, or none.                                           *)
LEMMA TransformResolves ==
    ASSUME OneAtATime, TypeOK, LifeInv, ResolveInv, NEW w \in Worker, NEW r \in Row,
           TransformRow(w, r)
    PROVE  ResolveInv'
<1> DEFINE q == req[w]
           b == q.batch
           i == EffectiveIdent(rows[r])
<1>1. /\ q \in Request /\ LoadedInv(w)
      /\ q.pc = "transform"
      /\ BatchOf[r] = b
      /\ r \in Counted(b)
      /\ q.ident[r] = i
      /\ rows[r].status = "pending"
      /\ UNCHANGED batch
      /\ \A s \in Row \ {r} : rows'[s] = rows[s]
      /\ rows'[r].discarded = rows[r].discarded
      /\ EffectiveIdent(rows'[r]) = i
      /\ req'[w].pc = "transform" /\ req'[w].batch = b
      /\ req'[w].ident = q.ident
      /\ req'[w].todo = q.todo \ {r}
      /\ \A s \in q.todo : s \in Row
  BY AtRow DEF Request
<1>2. i # NoIdent /\ \A s \in Counted(b) \ {r} :
         /\ EffectiveIdent(rows[s]) \notin {i, NoIdent}
         /\ rows[s].status = "processed" => HasItsJob(s)
  BY <1>1 DEF LoadedInv
<1>3. PICK j \in TargetJobs(jobs, AsLoaded(q, r)) :
         /\ jobs' = WrittenJobs(jobs, AsLoaded(q, r), r, j)
         /\ rows' = [rows EXCEPT ![r].status = "processed", ![r].resolved = j]
  BY DEF TransformRow
<1>4. EffectiveIdent(AsLoaded(q, r)) = i
  <2>1. rows[r] \in StagingRecord
    BY DEF TypeOK
  <2> QED
    BY <1>1, <2>1 DEF AsLoaded, EffectiveIdent, StagingRecord
<1>5. j \in Job /\ j # NoJob /\ jobs[j].ident \in {i, NoIdent}
  BY <1>4, NullsAreApart DEF TargetJobs, ActiveAt, Free
<1>6. /\ jobs'[j].ident = i /\ ~jobs'[j].discarded
      /\ \A k \in Job \ {j} : jobs'[k] = jobs[k]
  BY <1>3, <1>4, <1>5 DEF WrittenJobs, TypeOK
<1>7. /\ rows'[r].status = "processed" /\ rows'[r].resolved = j
  <2>1. rows[r] \in StagingRecord
    BY DEF TypeOK
  <2> QED
    BY <1>3, <2>1 DEF TypeOK, StagingRecord
<1>8. ASSUME NEW s \in Counted(b) \ {r}, rows[s].status = "processed"
      PROVE  /\ rows[s].resolved \in Job \ {j}
             /\ HasItsJob(s)'
  <2>1. HasItsJob(s) /\ s \in Row /\ s # r
    BY <1>2, <1>8 DEF Counted, RowsOf
  <2>2. rows[s].resolved \in Job
    BY <1>8, <2>1 DEF TypeOK, StagingRecord, ResolveInv, ProcessedInv
  <2>3. rows[s].resolved # j
    BY <1>2, <1>5, <1>8, <2>1 DEF HasItsJob
  <2> QED
    BY <1>1, <1>6, <2>1, <2>2, <2>3 DEF HasItsJob, IsActive
<1> HIDE DEF i
<1>9. ProcessedInv'
  <2> SUFFICES ASSUME NEW s \in Row
               PROVE  /\ rows'[s].status = "processed" <=> rows'[s].resolved # NoJob
                      /\ /\ rows'[s].status = "processed"
                         /\ batch'[BatchOf[s]] \in {"absent", "pending", "awaiting_review"}
                         => req'[w].pc = "transform" /\ req'[w].batch = BatchOf[s]
    BY DEF ProcessedInv
  <2>1. CASE s = r
    BY <1>1, <1>5, <1>7, <2>1
  <2>2. CASE s # r
    BY <1>1, <2>2 DEF OneAtATime, ResolveInv, ProcessedInv
  <2> QED
    BY <2>1, <2>2
<1>10. \A c : Counted(c)' = Counted(c)
  BY <1>1, <1>7 DEF Counted, RowsOf
<1>11. LoadedInv(w)'
  <2>1. \A s \in q.todo \ {r} : q.ident[s] = EffectiveIdent(rows'[s])
    BY <1>1 DEF LoadedInv
  <2>2. HasItsJob(r)'
    BY <1>1, <1>2, <1>6, <1>7 DEF HasItsJob, IsActive
  <2>3. \A s \in Counted(b) : EffectiveIdent(rows'[s]) = EffectiveIdent(rows[s])
    BY <1>1 DEF Counted, RowsOf, i
  <2>4. \A s \in Counted(b) \ {r} : rows'[s].status = "processed" => HasItsJob(s)'
    BY <1>1, <1>8 DEF Counted, RowsOf
  <2>5. \A s \in Counted(b) :
           /\ EffectiveIdent(rows'[s]) # NoIdent
           /\ rows'[s].status = "processed" => HasItsJob(s)'
           /\ \A t \in Counted(b) \ {s} :
                 EffectiveIdent(rows'[t]) # EffectiveIdent(rows'[s])
    BY <1>1, <2>2, <2>3, <2>4 DEF LoadedInv
  <2>6. \A c : c = b => Counted(c)' = Counted(b)
    BY <1>10
  <2> QED
    BY <1>1, <2>1, <2>5, <2>6 DEF LoadedInv
<1>12. \A v \in Worker : LoadedInv(v)'
  BY <1>11 DEF OneAtATime
<1>13. SiblingsResolveApart'
  <2>1. ASSUME NEW s \in Row, s # r, BatchOf[s] = BatchOf[r], ~rows'[s].discarded
        PROVE  rows'[s].resolved # j
    <3>1. rows'[s] = rows[s] /\ rows[s] \in StagingRecord
      BY <1>1, <2>1 DEF TypeOK
    <3>2. CASE rows[s].status = "processed"
      <4>1. s \in Counted(b) \ {r}
        BY <1>1, <2>1, <3>1, <3>2 DEF Counted, RowsOf
      <4> QED
        BY <1>8, <3>1, <3>2, <4>1
    <3>3. CASE rows[s].status # "processed"
      BY <1>5, <3>1, <3>3 DEF ResolveInv, ProcessedInv
    <3> QED
      BY <3>2, <3>3
  <2>2. ASSUME NEW s \in Row, NEW t \in Row, s # t, BatchOf[s] = BatchOf[t],
               ~rows'[s].discarded, ~rows'[t].discarded, rows'[s].resolved # NoJob
        PROVE  rows'[s].resolved # rows'[t].resolved
    <3>1. CASE s = r
      BY <1>7, <2>1, <2>2, <3>1
    <3>2. CASE t = r
      BY <1>7, <2>1, <2>2, <3>2
    <3>3. CASE s # r /\ t # r
      BY <1>1, <2>2, <3>3 DEF ResolveInv, SiblingsResolveApart
    <3> QED
      BY <3>1, <3>2, <3>3
  <2> QED
    BY <2>2 DEF SiblingsResolveApart
<1> QED
  BY <1>9, <1>12, <1>13 DEF ResolveInv

(* Requests that begin, stage a workbook, give one up or finish one.       *)
LEMMA EdgeResolves ==
    ASSUME OneAtATime, TypeOK, LifeInv, ResolveInv, NEW w \in Worker,
           \/ Submit(w) \/ StageWorkbook(w) \/ CommitAbandon(w) \/ FinishBatch(w)
    PROVE  ResolveInv'
<1>0. RequestInv(w)
  BY DEF LifeInv
<1>1. CASE Submit(w)
  <2>1. /\ UNCHANGED <<batch, rows>> /\ req[w].pc = "idle"
        /\ req'[w].pc \notin {"mark", "transform"}
    <3>1. ASSUME NEW b \in Batch, BeginUpload(w, b) \/ BeginConfirm(w, b)
                                  \/ BeginAbandon(w, b)
          PROVE  <2>1
      BY <3>1 DEF BeginUpload, BeginConfirm, BeginAbandon, At, Idle, TypeOK
    <3>2. ASSUME NEW b \in Batch, NEW part \in Part, NEW canonical \in Part,
                 BeginSetCanonical(w, b, part, canonical)
          PROVE  <2>1
      BY <3>2 DEF BeginSetCanonical, At, Idle, TypeOK
    <3>3. ASSUME NEW b \in Batch, NEW r \in Row, NEW i \in Ident,
                 BeginSplitSuffix(w, b, r, i)
          PROVE  <2>1
      BY <3>3 DEF BeginSplitSuffix, At, Idle, TypeOK
    <3>4. ASSUME NEW b \in Batch, NEW r \in Row, BeginDeleteRow(w, b, r)
          PROVE  <2>1
      BY <3>4 DEF BeginDeleteRow, At, Idle, TypeOK
    <3> QED
      BY <1>1, <3>1, <3>2, <3>3, <3>4 DEF Submit
  <2> QED
    BY <2>1, QuietResolves
<1>2. CASE StageWorkbook(w)
  <2>1. /\ UNCHANGED rows /\ req[w].pc = "stage" /\ batch[req[w].batch] = "absent"
        /\ \A b \in Batch : b # req[w].batch => batch'[b] = batch[b]
    BY <1>0, <1>2 DEF StageWorkbook, At, RequestInv, TypeOK
  <2>2. req'[w].pc \in {"idle", "load"}
    BY <1>2 DEF StageWorkbook, TypeOK, Idle, Request
  <2> QED
    BY <2>1, <2>2, QuietResolves
<1>3. CASE CommitAbandon(w)
  <2>1. /\ UNCHANGED rows /\ req[w].pc = "abandon" /\ req'[w].pc = "idle"
        /\ \A b \in Batch : batch'[b] # "abandoned" => batch'[b] = batch[b]
    BY <1>3 DEF CommitAbandon, At, TypeOK, Idle
  <2> QED
    BY <2>1, QuietResolves
<1>4. CASE FinishBatch(w)
  <2>1. /\ UNCHANGED rows /\ req'[w].pc = "idle"
        /\ \A b \in Batch : b # req[w].batch => batch'[b] = batch[b]
        /\ req[w].batch \in Batch => batch'[req[w].batch] \in {"error", "processed"}
    BY <1>4 DEF FinishBatch, At, TypeOK, Idle
  <2> QED
    BY <2>1, QuietResolves
<1> QED
  BY <1>1, <1>2, <1>3, <1>4

(* Review requests that write rows: nothing they write is what ResolveInv  *)
(* speaks of while no Stage 5 runs.                                        *)
LEMMA ReviewResolves ==
    ASSUME OneAtATime, TypeOK, ResolveInv, NEW w \in Worker,
           CommitOverrides(w) \/ CommitDelete(w)
    PROVE  ResolveInv'
<1>1. /\ UNCHANGED batch /\ req[w].pc # "transform" /\ req'[w].pc = "idle"
      /\ \A r \in Row : /\ rows'[r].status = rows[r].status
                        /\ rows'[r].resolved = rows[r].resolved
                        /\ rows[r].discarded => rows'[r].discarded
  <2>1. \A r \in Row : rows[r] \in StagingRecord
    BY DEF TypeOK
  <2>2. CASE CommitOverrides(w)
    BY <2>1, <2>2 DEF CommitOverrides, At, TypeOK, Idle, StagingRecord
  <2>3. CASE CommitDelete(w)
    BY <2>1, <2>3 DEF CommitDelete, At, TypeOK, Idle, StagingRecord
  <2> QED
    BY <2>2, <2>3
<1>2. ProcessedInv'
  BY <1>1 DEF OneAtATime, ResolveInv, ProcessedInv
<1>3. \A v \in Worker : LoadedInv(v)'
  BY <1>1 DEF OneAtATime, LoadedInv
<1>4. SiblingsResolveApart'
  BY <1>1 DEF ResolveInv, SiblingsResolveApart
<1> QED
  BY <1>2, <1>3, <1>4 DEF ResolveInv

(* Every step keeps the rows resolved apart.                               *)
LEMMA StepKeepsResolved ==
    ASSUME OneAtATime, ~MayFail, TypeOK, LifeInv, ResolveInv, [Next]_vars
    PROVE  ResolveInv'
<1>1. CASE UNCHANGED vars
  BY <1>1 DEF vars, ResolveInv, ProcessedInv, LoadedInv, SiblingsResolveApart,
      Counted, RowsOf, HasItsJob, IsActive
<1>2. CASE Next
  BY <1>2, LoadResolves, MarkResolves, TransformResolves, RejectResolves,
     EdgeResolves, ReviewResolves DEF Next, Continue, LoopFails, Abort
<1> QED
  BY <1>1, <1>2

(* At the start nothing is loaded.                                         *)
LEMMA InitResolved == Init => ResolveInv
<1> SUFFICES ASSUME Init PROVE ResolveInv
  OBVIOUS
<1>1. \A r \in Row : rows[r].status = "pending" /\ rows[r].resolved = NoJob
  BY DEF Init, Fresh
<1> QED
  BY <1>1 DEF Init, Idle, ResolveInv, ProcessedInv, LoadedInv, SiblingsResolveApart

(* One request at a time, each of which runs to its end: no two live rows  *)
(* of a workbook are resolved to one job, whatever the operator renames,   *)
(* splits and deletes before the batch is confirmed.                       *)
THEOREM SiblingsApart ==
    ASSUME OneAtATime, ~MayFail
    PROVE  Spec => []SiblingsResolveApart
<1>1. TypeOK /\ LifeInv /\ ResolveInv /\ [Next]_vars
         => TypeOK' /\ LifeInv' /\ ResolveInv'
  BY StepTyped, StepMoves, StepKeepsResolved DEF Moved
<1>2. ResolveInv => SiblingsResolveApart
  BY DEF ResolveInv
<1> QED
  BY <1>1, <1>2, InitTyped, InitLife, InitResolved, PTL DEF Spec
-----------------------------------------------------------------------------
(* Unless the operator renames parts, a row keeps the part of its cell.    *)
PartKept ==
    /\ \A r \in Row : rows[r].raw # NoIdent =>
          PartOf[EffectiveIdent(rows[r])] = PartOf[rows[r].raw]
    /\ \A w \in Worker : req[w].pc = "rename" =>
          \A r \in req[w].todo :
             rows[r].raw # NoIdent /\ req[w].ident[r] # NoIdent
                => PartOf[req[w].ident[r]] = PartOf[rows[r].raw]

(* No import starts with an identity edited.                               *)
LEMMA InitPart == Init => PartKept
<1> SUFFICES ASSUME Init PROVE PartKept
  OBVIOUS
<1>1. \A r \in Row : rows[r].override = NoIdent
  BY DEF Init, Fresh
<1> QED
  BY <1>1 DEF Init, Idle, PartKept, EffectiveIdent

(* Every step keeps the listed parts that a sweep spares.                  *)
LEMMA StepPart ==
    ASSUME TypeOK, PartKept, ~MayRename, [Next]_vars
    PROVE  PartKept'
<1> DEFINE RowPart(r) == rows[r].raw # NoIdent =>
                            PartOf[EffectiveIdent(rows[r])] = PartOf[rows[r].raw]
           ReqPart(v) == req[v].pc = "rename" =>
                            \A r \in req[v].todo :
                               rows[r].raw # NoIdent /\ req[v].ident[r] # NoIdent
                                  => PartOf[req[v].ident[r]] = PartOf[rows[r].raw]
<1>0. \A r \in Row : rows[r] \in StagingRecord
  BY DEF TypeOK
<1>1. CASE UNCHANGED vars
  BY <1>1 DEF vars, PartKept
<1>2. ASSUME NEW w \in Worker,
             \A v \in Worker \ {w} : req'[v] = req[v],
             req'[w].pc # "rename" \/ \A r \in req'[w].todo :
                rows[r].raw # NoIdent /\ req'[w].ident[r] # NoIdent
                   => PartOf[req'[w].ident[r]] = PartOf[rows[r].raw],
             \A r \in Row : /\ rows'[r].raw = rows[r].raw
                            /\ RowPart(r)'
      PROVE  PartKept'
  <2>1. \A v \in Worker : req[v].todo \subseteq Row
    BY DEF TypeOK, Request
  <2>2. req'[w].todo \subseteq Row
    BY StepTyped DEF TypeOK, Request
  <2> QED
    BY <1>2, <2>1, <2>2 DEF PartKept
<1>3. ASSUME NEW w \in Worker,
             \A v \in Worker \ {w} : req'[v] = req[v],
             req'[w].pc # "rename",
             \A r \in Row : /\ rows'[r].raw = rows[r].raw
                            /\ rows'[r].override = rows[r].override
      PROVE  PartKept'
  <2>1. \A r \in Row : RowPart(r)'
    BY <1>3 DEF PartKept, EffectiveIdent
  <2> HIDE DEF RowPart
  <2> QED
    BY <1>2, <1>3, <2>1
<1>4. ASSUME NEW w \in Worker, NEW b \in Batch,
             \/ BeginUpload(w, b) \/ BeginConfirm(w, b) \/ BeginAbandon(w, b)
             \/ \E r \in Row : BeginDeleteRow(w, b, r)
      PROVE  PartKept'
  BY <1>3, <1>4 DEF TypeOK, BeginUpload, BeginConfirm, BeginAbandon,
     BeginDeleteRow, Idle
<1>5. ASSUME NEW w \in Worker, NEW b \in Batch, NEW r \in Row, NEW i \in Ident,
             BeginSplitSuffix(w, b, r, i)
      PROVE  PartKept'
  <2>1. /\ UNCHANGED rows
        /\ \A v \in Worker \ {w} : req'[v] = req[v]
        /\ req'[w].todo = {r} /\ req'[w].ident[r] = i
        /\ PartOf[i] = PartOf[EffectiveIdent(rows[r])]
    BY <1>5 DEF BeginSplitSuffix, TypeOK, Nothing, Idle
  <2>2. rows[r].raw # NoIdent => PartOf[i] = PartOf[rows[r].raw]
    BY <2>1 DEF PartKept
  <2>3. \A s \in Row : RowPart(s)'
    BY <2>1 DEF PartKept
  <2> HIDE DEF RowPart
  <2> QED
    BY <1>2, <2>1, <2>2, <2>3
<1>6. ASSUME NEW w \in Worker,
             \/ StageWorkbook(w) \/ LoadRows(w) \/ FinishBatch(w) \/ CommitAbandon(w)
             \/ LoopFails(w) \/ Abort(w)
      PROVE  PartKept'
  <2>1. UNCHANGED rows /\ \A v \in Worker \ {w} : req'[v] = req[v]
    BY <1>6 DEF TypeOK, StageWorkbook, LoadRows, FinishBatch, CommitAbandon,
       LoopFails, Abort
  <2>2. req'[w].pc # "rename"
    <3>1. CASE StageWorkbook(w)
      BY <3>1 DEF StageWorkbook, TypeOK, Request, Idle
    <3>2. CASE LoadRows(w)
      <4> DEFINE l == [req[w] EXCEPT !.todo  = Surviving(req[w].batch),
                                     !.ident = [r \in Row |->
                                        IF r \in Surviving(req[w].batch)
                                        THEN Identities[r] ELSE NoIdent]]
      <4>1. req'[w] = [l EXCEPT !.pc = IF Doomed(l) = {} THEN "transform"
                                       ELSE "mark"]
        BY <3>2 DEF LoadRows, TypeOK
      <4>2. "pc" \in DOMAIN l
        BY DEF TypeOK, Request
      <4> HIDE DEF l
      <4> QED
        BY <4>1, <4>2
    <3>3. CASE FinishBatch(w) \/ CommitAbandon(w) \/ LoopFails(w) \/ Abort(w)
      BY <3>3 DEF FinishBatch, CommitAbandon, LoopFails, Abort, TypeOK, Idle
    <3> QED
      BY <1>6, <3>1, <3>2, <3>3
  <2> QED
    BY <1>3, <2>1, <2>2
<1>7. ASSUME NEW w \in Worker,
             \/ MarkErrors(w) \/ CommitDelete(w)
             \/ \E r \in Row : TransformRow(w, r) \/ RejectRow(w, r)
      PROVE  PartKept'
  <2>1. /\ \A v \in Worker \ {w} : req'[v] = req[v]
        /\ req'[w].pc # "rename"
    <3>1. CASE MarkErrors(w)
      BY <3>1 DEF MarkErrors, TypeOK, Request
    <3>2. CASE CommitDelete(w)
      BY <3>2 DEF CommitDelete, TypeOK, Idle
    <3>3. ASSUME NEW r \in Row, TransformRow(w, r) PROVE <2>1
      BY <3>3 DEF TransformRow, Dealt, At, TypeOK, Request
    <3>4. ASSUME NEW r \in Row, RejectRow(w, r) PROVE <2>1
      <4>1. req' = [req EXCEPT ![w] = [req[w] EXCEPT !.todo = @ \ {r}, !.errored = TRUE]]
        BY <3>4 DEF RejectRow
      <4> QED
        BY <3>4, <4>1 DEF RejectRow, At, TypeOK, Request
    <3> QED
      BY <1>7, <3>1, <3>2, <3>3, <3>4
  <2>2. \A r \in Row : /\ rows'[r].raw = rows[r].raw
                       /\ rows'[r].override = rows[r].override
    <3>1. CASE MarkErrors(w)
      BY <1>0, <3>1 DEF MarkErrors, StagingRecord
    <3>2. CASE CommitDelete(w)
      BY <1>0, <3>2 DEF CommitDelete, StagingRecord
    <3>3. ASSUME NEW s \in Row, TransformRow(w, s) PROVE <2>2
      BY <1>0, <3>3 DEF TransformRow, TypeOK, StagingRecord
    <3>4. ASSUME NEW s \in Row, RejectRow(w, s) PROVE <2>2
      BY <1>0, <3>4 DEF RejectRow, TypeOK, StagingRecord
    <3> QED
      BY <1>7, <3>1, <3>2, <3>3, <3>4
  <2> QED
    BY <1>3, <2>1, <2>2
<1>8. ASSUME NEW w \in Worker, CommitOverrides(w) PROVE PartKept'
  <2>1. /\ \A v \in Worker \ {w} : req'[v] = req[v]
        /\ req'[w].pc # "rename"
        /\ req[w].pc = "rename"
    BY <1>8 DEF TypeOK, CommitOverrides, Idle, At
  <2>2. \A r \in Row :
           /\ rows'[r].raw = rows[r].raw
           /\ rows'[r].override = IF r \in req[w].todo THEN req[w].ident[r]
                                  ELSE rows[r].override
    BY <1>0, <1>8 DEF CommitOverrides, StagingRecord
  <2>3. \A r \in Row : RowPart(r)'
    BY <2>1, <2>2 DEF PartKept, EffectiveIdent
  <2> HIDE DEF RowPart
  <2> QED
    BY <1>2, <2>1, <2>2, <2>3
<1>9. CASE Next
  BY <1>4, <1>5, <1>6, <1>7, <1>8, <1>9 DEF Next, Submit, Continue, BeginSetCanonical
<1> QED
  BY <1>1, <1>9

(* Stage 6 reads off the table what the workbook lists: a row it resolved  *)
(* holds the one active job of its identity, and a row in error protects   *)
(* the part of its cell, which is the part of its identity.                *)
LEMMA SweepSpares ==
    ASSUME OneAtATime, ~MayFail, TypeOK, LifeInv, ResolveInv, PartKept,
           UniqueIdentity(jobs), [Next]_vars,
           NEW w \in Worker, NEW r \in Row, NEW j \in Job,
           req[w].pc = "transform", req'[w].pc = "idle",
           BatchOf[r] = req[w].batch, ~rows[r].discarded,
           EffectiveIdent(rows[r]) # NoIdent,
           j \in ActiveAt(jobs, EffectiveIdent(rows[r]))
    PROVE  ~jobs'[j].discarded
<1> DEFINE b == req[w].batch
<1>1. FinishBatch(w)
  <2>1. PICK v \in Worker : Submit(v) \/ Continue(v) \/ LoopFails(v) \/ Abort(v)
    BY DEF Next, vars
  <2>2. v = w
    BY DEF OneAtATime
  <2>3. ~Submit(w)
    BY DEF Submit, BeginUpload, BeginConfirm, BeginSetCanonical,
       BeginSplitSuffix, BeginDeleteRow, BeginAbandon, At
  <2>4. ~(\E s \in Row : TransformRow(w, s) \/ RejectRow(w, s))
    BY AtRow
  <2>5. /\ ~StageWorkbook(w) /\ ~LoadRows(w) /\ ~MarkErrors(w) /\ ~CommitOverrides(w)
        /\ ~CommitDelete(w) /\ ~CommitAbandon(w) /\ ~LoopFails(w) /\ ~Abort(w)
    BY DEF StageWorkbook, LoadRows, MarkErrors, CommitOverrides, CommitDelete,
       CommitAbandon, LoopFails, Abort, At
  <2> QED
    BY <2>1, <2>2, <2>3, <2>4, <2>5 DEF Continue
<1>2. j \in ActiveAt(jobs, EffectiveIdent(rows[r])) /\ ~jobs[j].discarded
      /\ jobs[j].ident = EffectiveIdent(rows[r]) /\ IsActive(jobs, j)
  BY DEF ActiveAt, IsActive
<1>3. j \notin Missing(b)
  <2>1. rows[r].status # "pending" /\ r \in RowsOf(b) /\ rows[r] \in StagingRecord
    BY <1>1 DEF LifeInv, RequestInv, FinishBatch, Surviving, RowsOf, TypeOK
  <2>2. CASE rows[r].status = "processed"
    <3>1. /\ HasItsJob(r) /\ rows[r].resolved \in Job
      BY <2>1, <2>2 DEF ResolveInv, LoadedInv, Counted, ProcessedInv, StagingRecord
    <3>2. rows[r].resolved = j
      BY <1>2, <3>1 DEF HasItsJob, UniqueIdentity
    <3> QED
      BY <2>1, <3>2 DEF Missing
  <2>3. CASE rows[r].status = "error"
    <3>1. rows[r].raw # NoIdent
      BY DEF EffectiveIdent
    <3>2. PartOf[jobs[j].ident] = PartOf[rows[r].raw]
      BY <1>2, <3>1 DEF PartKept
    <3>3. PartOf[rows[r].raw] \in Protected(b)
      BY <2>1, <2>3, <3>1 DEF Protected
    <3> QED
      BY <3>2, <3>3 DEF Missing
  <2> QED
    BY <2>1, <2>2, <2>3 DEF StagingRecord
<1>4. jobs[j] \in JobRecord
  BY DEF TypeOK
<1> HIDE DEF b
<1> QED
  BY <1>1, <1>2, <1>3, <1>4 DEF FinishBatch, JobRecord, b

(* One request at a time, each of which runs to its end, and no part       *)
(* renamed: Stage 6 discards no job whose identity a live row of the       *)
(* workbook has.                                                           *)
THEOREM SweepSparesListed ==
    ASSUME OneAtATime, ~MayFail, ~MayRename
    PROVE  Spec => SweepSparesListedJobs
<1> DEFINE Inv == TypeOK /\ LifeInv /\ ResolveInv /\ PartKept /\ UniqueIdentity(jobs)
<1>1. Init => Inv
  BY InitTyped, InitLife, InitResolved, InitPart DEF Init, InitialJobs
<1>2. Inv /\ [Next]_vars => Inv'
  BY StepTyped, StepMoves, StepKeepsResolved, StepPart, StepUnique DEF Moved
<1>3. Inv /\ [Next]_vars
         => [\A w \in Worker, r \in Row, j \in Job :
               /\ req[w].pc = "transform" /\ req'[w].pc = "idle"
               /\ BatchOf[r] = req[w].batch
               /\ ~rows[r].discarded
               /\ EffectiveIdent(rows[r]) # NoIdent
               /\ j \in ActiveAt(jobs, EffectiveIdent(rows[r]))
               => ~jobs'[j].discarded]_vars
  BY SweepSpares
<1> HIDE DEF Inv
<1> QED
  BY <1>1, <1>2, <1>3, PTL DEF Spec, SweepSparesListedJobs
=============================================================================
