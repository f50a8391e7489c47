--------------------------- MODULE StagingGroups ---------------------------
(***************************************************************************)
(* Operator work on the rows an ingest left behind: correct, discard and   *)
(* restore a staging row, discard and restore a job, and the duplicate     *)
(* groups those requests dissolve or join (services/staging.py, with the   *)
(* guards of api/staging.py and the job endpoints of services/jobs.py).    *)
(*                                                                         *)
(* A request runs on a worker thread with a session of its own.  Its reads *)
(* before its first write are not part of a transaction (the driver opens  *)
(* one at the first UPDATE), and a correction or a discard commits once    *)
(* for the row and once more for every re-evaluated group.  The actions    *)
(* are cut exactly there: what a request read is kept in req[w].seen, and  *)
(* a flush writes only the columns that differ from what was read.         *)
(***************************************************************************)
EXTENDS JobStore, Naturals

CONSTANTS
    Batch,           \* import batches
    BatchOf,         \* the batch of each row
    KindOf,          \* sheet_kind of each batch: "live" or "historical"
    Worker,          \* request threads; a singleton is one operator's clicks
    Overrides,       \* identities review overrides give rows, if any
    Cells,           \* the cell contents considered
    RestoreActions,  \* resolution actions a restore may carry
    MayFail,         \* may a request die between two of its commits?
    MaxJobDiscards   \* bound on how many jobs are discarded

ASSUME ReviewAssumption ==
    /\ BatchOf \in [Row -> Batch]
    /\ KindOf \in [Batch -> {"live", "historical"}]
    /\ Overrides \subseteq Ident
    /\ Cells \subseteq CellKind
    /\ RestoreActions \subseteq {"discard", "edit"}
    /\ MayFail \in BOOLEAN
    /\ MaxJobDiscards \in Nat

VARIABLES rows, jobs, req

vars == <<rows, jobs, req>>

(* pc "correct", "discard": the row was read into seen, nothing is written *)
(* yet; held is that row with the correction payload applied.              *)
(* pc "survey": the row is committed (as in seen); the groups left and     *)
(* joined are still to be re-evaluated.                                    *)
(* pc "settle": the lone survivor of such a group was read into held.      *)
Request ==
    [pc     : {"idle", "correct", "discard", "survey", "settle"},
     row    : Row \union {NoRow},
     lone   : Row \union {NoRow},
     seen   : StagingRecord,
     held   : StagingRecord,
     left   : Ident \union {NoIdent},
     joined : Ident \union {NoIdent}]

Blank == [raw |-> NoIdent, override |-> NoIdent, cells |-> "invalid",
          status |-> "pending", key |-> NoIdent, resolved |-> NoJob,
          discarded |-> FALSE]

Idle == [pc |-> "idle", row |-> NoRow, lone |-> NoRow, seen |-> Blank,
         held |-> Blank, left |-> NoIdent, joined |-> NoIdent]

TypeOK ==
    /\ rows \in [Row -> StagingRecord]
    /\ jobs \in [Job -> JobRecord]
    /\ req \in [Worker -> Request]
-----------------------------------------------------------------------------
(* _active_duplicate_predicate.                                            *)
IsGrouped(row) == row.status = "error" /\ ~row.discarded /\ row.key # NoIdent

Group(b, k) == {r \in Row : BatchOf[r] = b /\ IsGrouped(rows[r]) /\ rows[r].key = k}

(* Stage 4: rows of one batch with one effective identity.                 *)
Collides(table, r) ==
    /\ EffectiveIdent(table[r]) # NoIdent
    /\ \E s \in Row \ {r} : /\ BatchOf[s] = BatchOf[r]
                            /\ ~table[s].discarded
                            /\ EffectiveIdent(table[s]) = EffectiveIdent(table[r])

(* What Stages 4 to 6 leave of a batch none of whose rows was accepted:    *)
(* collision members are grouped, other rows failed a validation, and rows *)
(* the operator deleted during review are still pending, and discarded.    *)
StagedRow(table, r) ==
    IF table[r].discarded THEN table[r]
    ELSE [table[r] EXCEPT !.status = "error",
                          !.key = IF Collides(table, r)
                                  THEN EffectiveIdent(table[r]) ELSE NoIdent]

Init ==
    /\ req = [w \in Worker |-> Idle]
    /\ jobs \in InitialJobs
    /\ \E raw \in [Row -> Ident \union {NoIdent}], cells \in [Row -> Cells],
          override \in [Row -> Overrides \union {NoIdent}],
          deleted \in SUBSET Row :
          LET table == [r \in Row |->
                          [Blank EXCEPT !.raw = raw[r], !.cells = cells[r],
                                        !.override = override[r],
                                        !.discarded = r \in deleted]]
          IN  /\ rows = [r \in Row |-> StagedRow(table, r)]
              /\ \A r \in Row \ deleted :
                    \/ Collides(table, r)
                    \/ ~Accepted(jobs, table[r], KindOf[BatchOf[r]])
-----------------------------------------------------------------------------
(* An UPDATE of the columns that differ from what the session read.        *)
Flushed(stored, seen, new) ==
    [f \in DOMAIN stored |-> IF new[f] # seen[f] THEN new[f] ELSE stored[f]]

(* After a commit: the groups still to be re-evaluated, or the response.   *)
Resume(w, memory, left, joined) ==
    req' = [req EXCEPT ![w] =
               IF left = NoIdent /\ joined = NoIdent THEN Idle
               ELSE [Idle EXCEPT !.pc = "survey", !.row = req[w].row,
                                 !.seen = memory, !.left = left,
                                 !.joined = joined]]

(* Mutant of BeginCorrection: any live row may be corrected.               *)
CorrectAnyLiveRow(w, r, raw, cells) ==
    /\ req[w].pc = "idle"
    /\ ~rows[r].discarded
    /\ req' = [req EXCEPT ![w] =
                  [Idle EXCEPT !.pc = "correct", !.row = r, !.seen = rows[r],
                               !.held = [rows[r] EXCEPT !.raw = raw,
                                                        !.cells = cells,
                                                        !.resolved = NoJob]]]
    /\ UNCHANGED <<rows, jobs>>

(* POST /{row_id}/correct: the route refuses a row that is not in error or *)
(* is discarded.  raw and cells are the row's after the payload.           *)
BeginCorrection(w, r, raw, cells) ==
    /\ req[w].pc = "idle"
    /\ rows[r].status = "error"
    /\ ~rows[r].discarded
    /\ req' = [req EXCEPT ![w] =
                  [Idle EXCEPT !.pc = "correct", !.row = r, !.seen = rows[r],
                               !.held = [rows[r] EXCEPT !.raw = raw,
                                                        !.cells = cells,
                                                        !.resolved = NoJob]]]
    /\ UNCHANGED <<rows, jobs>>

(* The rows that already wait in the group of the corrected identity.  The *)
(* key is parsed from the JOB cell; review overrides are not consulted.    *)
SiblingsAt(r, k) == Group(BatchOf[r], k) \ {r}

(* Mutant of CorrectionErrored: the savepoint is released, not rolled back.*)
ErroredKeepingJob(w) ==
    LET q == req[w]
    IN  /\ q.pc = "correct"
        /\ ~Accepted(jobs, q.held, "live")
        /\ rows' = [rows EXCEPT ![q.row] =
                      [Flushed(@, q.seen, q.held) EXCEPT !.status = "error",
                                                         !.key = NoIdent]]
        /\ Resume(w, [q.held EXCEPT !.key = NoIdent], q.seen.key, NoIdent)
        /\ \/ RejectedEarly(jobs, q.held, "live") /\ UNCHANGED jobs
           \/ /\ RejectedLate(jobs, q.held, "live")
              /\ \E j \in TargetJobs(jobs, q.held) :
                    jobs' = WrittenJobs(jobs, q.held, q.row, j)

(* apply_correction, transform errored: the savepoint is rolled back with  *)
(* the error kept, and the group key is dropped.                           *)
CorrectionErrored(w) ==
    LET q == req[w]
    IN  /\ q.pc = "correct"
        /\ ~Accepted(jobs, q.held, "live")
        /\ rows' = [rows EXCEPT ![q.row] =
                      [Flushed(@, q.seen, q.held) EXCEPT !.status = "error",
                                                         !.key = NoIdent]]
        /\ Resume(w, [q.held EXCEPT !.key = NoIdent], q.seen.key, NoIdent)
        /\ UNCHANGED jobs

(* Mutant of CorrectionCollides: the row is regrouped but the job it wrote *)
(* is committed with it.                                                   *)
CollidesKeepingJob(w) ==
    LET q == req[w]
    IN  /\ q.pc = "correct"
        /\ Accepted(jobs, q.held, "live")
        /\ SiblingsAt(q.row, q.held.raw) # {}
        /\ rows' = [rows EXCEPT ![q.row] =
                      [Flushed(@, q.seen, q.held) EXCEPT !.status = "error",
                                                         !.key = q.held.raw,
                                                         !.resolved = NoJob]]
        /\ Resume(w, [q.held EXCEPT !.key = q.held.raw],
                  IF q.seen.key = q.held.raw THEN NoIdent ELSE q.seen.key,
                  q.held.raw)
        /\ \E j \in TargetJobs(jobs, q.held) :
              jobs' = WrittenJobs(jobs, q.held, q.row, j)

(* apply_correction, the new identity has siblings still in error: the job *)
(* write is rolled back and the row joins their group.                     *)
CorrectionCollides(w) ==
    LET q == req[w]
    IN  /\ q.pc = "correct"
        /\ Accepted(jobs, q.held, "live")
        /\ SiblingsAt(q.row, q.held.raw) # {}
        /\ rows' = [rows EXCEPT ![q.row] =
                      [Flushed(@, q.seen, q.held) EXCEPT !.status = "error",
                                                         !.key = q.held.raw,
                                                         !.resolved = NoJob]]
        /\ Resume(w, [q.held EXCEPT !.key = q.held.raw],
                  IF q.seen.key = q.held.raw THEN NoIdent ELSE q.seen.key,
                  q.held.raw)
        /\ UNCHANGED jobs

(* apply_correction, the row resolves to a job.                            *)
CorrectionProcessed(w) ==
    LET q == req[w]
    IN  /\ q.pc = "correct"
        /\ Accepted(jobs, q.held, "live")
        /\ SiblingsAt(q.row, q.held.raw) = {}
        /\ \E j \in TargetJobs(jobs, q.held) :
             LET done == [q.held EXCEPT !.status = "processed", !.key = NoIdent,
                                        !.resolved = j]
             IN  /\ jobs' = WrittenJobs(jobs, q.held, q.row, j)
                 /\ rows' = [rows EXCEPT ![q.row] = Flushed(@, q.seen, done)]
                 /\ Resume(w, done, q.seen.key, NoIdent)

(* DELETE /{row_id}: refused for resolved rows and rows not in error, and  *)
(* a no-op on a discarded one.                                             *)
BeginDiscard(w, r) ==
    /\ req[w].pc = "idle"
    /\ rows[r].resolved = NoJob
    /\ rows[r].status = "error"
    /\ ~rows[r].discarded
    /\ req' = [req EXCEPT ![w] = [Idle EXCEPT !.pc = "discard", !.row = r,
                                              !.seen = rows[r],
                                              !.held = rows[r]]]
    /\ UNCHANGED <<rows, jobs>>

(* Mutant of CommitDiscard: the group is not re-evaluated.                 *)
DiscardAndForget(w) ==
    LET q    == req[w]
        gone == [q.held EXCEPT !.discarded = TRUE, !.key = NoIdent]
    IN  /\ q.pc = "discard"
        /\ rows' = [rows EXCEPT ![q.row] = Flushed(@, q.seen, gone)]
        /\ Resume(w, gone, NoIdent, NoIdent)
        /\ UNCHANGED jobs

(* discard_staging_row, first commit.                                      *)
CommitDiscard(w) ==
    LET q    == req[w]
        gone == [q.held EXCEPT !.discarded = TRUE, !.key = NoIdent]
    IN  /\ q.pc = "discard"
        /\ rows' = [rows EXCEPT ![q.row] = Flushed(@, q.seen, gone)]
        /\ Resume(w, gone, q.seen.key, NoIdent)
        /\ UNCHANGED jobs
-----------------------------------------------------------------------------
(* The next group q re-evaluates, and the row it leaves out of it.         *)
SurveyedKey(q) == IF q.left # NoIdent THEN q.left ELSE q.joined

Survivors(q) ==
    Group(BatchOf[q.row], SurveyedKey(q)) \ (IF q.left # NoIdent THEN {q.row} ELSE {})

Remaining(q) == IF q.left # NoIdent THEN q.joined ELSE NoIdent

(* _reevaluate_group_siblings: none left is a no-op; two or more only get  *)
(* a new message.                                                          *)
SurveyGroup(w) ==
    LET q == req[w]
    IN  /\ q.pc = "survey"
        /\ Cardinality(Survivors(q)) # 1
        /\ Resume(w, q.seen, NoIdent, Remaining(q))
        /\ UNCHANGED <<rows, jobs>>

(* _reevaluate_group_siblings: one survivor, read into the session (or the *)
(* session's own copy, when it is the row of the request).                 *)
SurveyLone(w) ==
    LET q == req[w]
    IN  /\ q.pc = "survey"
        /\ \E s \in Survivors(q) :
              /\ Survivors(q) = {s}
              /\ req' = [req EXCEPT ![w].pc = "settle", ![w].lone = s,
                                    ![w].held = IF s = q.row THEN q.seen ELSE rows[s],
                                    ![w].left = NoIdent,
                                    ![w].joined = Remaining(q)]
        /\ UNCHANGED <<rows, jobs>>

(* The survivor is ungrouped and re-run through the transform, as a row of *)
(* a live sheet whatever its batch is.                                     *)
SettleProcessed(w) ==
    LET q == req[w]
    IN  /\ q.pc = "settle"
        /\ Accepted(jobs, q.held, "live")
        /\ \E j \in TargetJobs(jobs, q.held) :
             /\ jobs' = WrittenJobs(jobs, q.held, q.lone, j)
             /\ rows' = [rows EXCEPT ![q.lone] =
                           Flushed(@, q.held, [q.held EXCEPT !.key = NoIdent,
                                                             !.status = "processed",
                                                             !.resolved = j])]
        /\ Resume(w, q.seen, NoIdent, q.joined)

(* Mutant of SettleErrored: the group key survives a failed validation.    *)
SettleKeepingKey(w) ==
    LET q == req[w]
    IN  /\ q.pc = "settle"
        /\ RejectedEarly(jobs, q.held, "live")
        /\ Resume(w, q.seen, NoIdent, q.joined)
        /\ UNCHANGED <<rows, jobs>>

(* Validation failed before any job column was assigned.                   *)
SettleErrored(w) ==
    LET q == req[w]
    IN  /\ q.pc = "settle"
        /\ RejectedEarly(jobs, q.held, "live")
        /\ rows' = [rows EXCEPT ![q.lone] =
                      Flushed(@, q.held, [q.held EXCEPT !.key = NoIdent])]
        /\ Resume(w, q.seen, NoIdent, q.joined)
        /\ UNCHANGED jobs

(* The transform gave up after the job was written, and nothing raised, so *)
(* the savepoint is released with the job in it.                           *)
SettleHalfWritten(w) ==
    LET q == req[w]
    IN  /\ q.pc = "settle"
        /\ RejectedLate(jobs, q.held, "live")
        /\ \E j \in TargetJobs(jobs, q.held) :
             jobs' = WrittenJobs(jobs, q.held, q.lone, j)
        /\ rows' = [rows EXCEPT ![q.lone] =
                      [Flushed(@, q.held, [q.held EXCEPT !.key = NoIdent])
                         EXCEPT !.status = "error"]]
        /\ Resume(w, q.seen, NoIdent, q.joined)

(* The process stops, the client's connection drops, or the database stays *)
(* locked past its timeout.                                                *)
Abort(w) ==
    /\ MayFail
    /\ req[w].pc # "idle"
    /\ req' = [req EXCEPT ![w] = Idle]
    /\ UNCHANGED <<rows, jobs>>
-----------------------------------------------------------------------------
(* A restore request carries at most one resolution action.                *)
NoAction == [kind |-> "none", row |-> NoRow, raw |-> NoIdent]

Action ==
    {NoAction}
    \union [kind : RestoreActions \intersect {"discard"}, row : Row, raw : {NoIdent}]
    \union [kind : RestoreActions \intersect {"edit"}, row : Row,
            raw : Ident \union {NoIdent}]

(* apply_restore_actions: a discard keeps the group key and re-evaluates   *)
(* nobody; an edit sets columns of any row and transforms nothing.         *)
ActionAllowed(a) ==
    a.kind = "discard" => rows[a.row].resolved = NoJob /\ rows[a.row].status = "error"

AfterAction(a) ==
    CASE a.kind = "discard" -> [rows EXCEPT ![a.row].discarded = TRUE]
      [] a.kind = "edit"    -> [rows EXCEPT ![a.row].raw = a.raw]
      [] OTHER              -> rows

(* The blocking part of a restore preview: rows in error with identity k,  *)
(* whatever their batch, and active jobs.                                  *)
Blockers(table, k) ==
    {r \in Row : /\ k # NoIdent
                 /\ table[r].status = "error"
                 /\ ~table[r].discarded
                 /\ table[r].raw = k}

(* restore_staging_row_with_actions.  Every refusal rolls back.            *)
RestoreRow(w, r, a) ==
    LET table == [AfterAction(a) EXCEPT ![r].discarded = FALSE]
    IN  /\ req[w].pc = "idle"
        /\ rows[r].discarded
        /\ ActionAllowed(a)
        /\ Blockers(table, table[r].raw) \ {r} = {}
        /\ table[r].raw # NoIdent => ActiveAt(jobs, table[r].raw) = {}
        /\ rows' = table
        /\ UNCHANGED <<jobs, req>>

(* discard_job.                                                            *)
DiscardJob(w, j) ==
    /\ req[w].pc = "idle"
    /\ IsActive(jobs, j)
    /\ Cardinality({i \in Job : jobs[i].discarded}) < MaxJobDiscards
    /\ jobs' = [jobs EXCEPT ![j].discarded = TRUE]
    /\ UNCHANGED <<rows, req>>

(* restore_job_with_actions.                                               *)
RestoreJob(w, j, a) ==
    /\ req[w].pc = "idle"
    /\ jobs[j].discarded
    /\ ActionAllowed(a)
    /\ Blockers(AfterAction(a), jobs[j].ident) = {}
    /\ ActiveAt(jobs, jobs[j].ident) = {}
    /\ jobs' = [jobs EXCEPT ![j].discarded = FALSE]
    /\ rows' = AfterAction(a)
    /\ UNCHANGED req
-----------------------------------------------------------------------------
(* The rest of a request that has begun.                                   *)
Continue(w) ==
    \/ CorrectionErrored(w)
    \/ CorrectionCollides(w)
    \/ CorrectionProcessed(w)
    \/ CommitDiscard(w)
    \/ SurveyGroup(w)
    \/ SurveyLone(w)
    \/ SettleProcessed(w)
    \/ SettleErrored(w)
    \/ SettleHalfWritten(w)

Submit(w) ==
    \/ \E r \in Row, raw \in Ident \union {NoIdent}, cells \in Cells :
          BeginCorrection(w, r, raw, cells)
    \/ \E r \in Row : BeginDiscard(w, r)
    \/ \E r \in Row, a \in Action : RestoreRow(w, r, a)
    \/ \E j \in Job : DiscardJob(w, j)
    \/ \E j \in Job, a \in Action : RestoreJob(w, j, a)

Next == \E w \in Worker : Continue(w) \/ Submit(w) \/ Abort(w)

Spec == Init /\ [][Next]_vars

(* A request thread that has begun keeps running; nobody has to click.     *)
FairSpec == Spec /\ \A w \in Worker : WF_vars(Continue(w))
-----------------------------------------------------------------------------
(* At most one active job per identity, however corrections, restores and  *)
(* job discards interleave.  The partial unique index does not enforce it  *)
(* (SQLite keeps NULL columns apart); the lookup in transform_staging_row  *)
(* and the flush-before-check order of the two restores have to.           *)
OneActiveJobPerIdentity == UniqueIdentity(jobs)

(* A correction that ends in error, by validation or by collision, leaves  *)
(* the jobs table exactly as it was (_rollback_with_error_capture: "No Job *)
(* insert or mutation from inside the savepoint survives").                *)
ErroredCorrectionLeavesJobs ==
    [][\A w \in Worker :
          req[w].pc = "correct" /\ req'[w].pc # "correct"
          /\ rows'[req[w].row].status = "error" => jobs' = jobs]_vars

(* When no request is running, no duplicate group has a single member: such*)
(* a row is on neither operator list, since /errored skips rows with a     *)
(* group key and /conflicts skips groups of one.                           *)
NoLoneMember ==
    (\A w \in Worker : req[w].pc = "idle")
        => \A b \in Batch, k \in Ident : Cardinality(Group(b, k)) # 1

(* Whenever a group shrinks to one member it is dissolved or joined again, *)
(* as long as the requests under way run to their end.                     *)
LoneMemberIsSettled ==
    \A b \in Batch, k \in Ident :
        (Cardinality(Group(b, k)) = 1) ~> (Cardinality(Group(b, k)) # 1)

(* A row in error is not the last writer of an active job: "errored rows   *)
(* must never be the sole originator of a live Job"                        *)
(* (tests/test_transform_persistence_invariant.py).                        *)
NoPhantomJob ==
    \A r \in Row, j \in Job :
        rows[r].status = "error" /\ IsActive(jobs, j) => jobs[j].writer # r

(* Each row's staging record, read as a state of RowLifecycle.             *)
RowState(r) ==
    IF rows[r].discarded THEN "discarded"
    ELSE IF rows[r].status = "processed" THEN "resolved" ELSE "open"

Lifecycle == INSTANCE RowLifecycle WITH
    state <- [r \in Row |-> RowState(r)],
    job   <- [r \in Row |-> rows[r].resolved]

(* One operator's requests, interrupted or not, keep the row lifecycle.    *)
ImplementsLifecycle == Lifecycle!Spec
=============================================================================
