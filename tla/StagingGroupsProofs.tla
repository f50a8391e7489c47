------------------------ MODULE StagingGroupsProofs ------------------------
(***************************************************************************)
(* What TLAPS proves of StagingGroups, for every set of rows, jobs,        *)
(* identities and request threads:                                         *)
(*   - the state is well typed (TypeCorrect);                              *)
(*   - no two active jobs share an identity (JobsStayUnique);              *)
(*   - a correction that fails leaves the jobs alone (FailedCorrection);   *)
(*   - with one request at a time, a row lives as RowLifecycle says;       *)
(*   - and if SHIPPED can be read, no row in error wrote an active job     *)
(*     (OnlyUnreadableMakesPhantoms);                                      *)
(*   - and if none is interrupted, no duplicate group is left with a       *)
(*     single member (NobodyLeftAlone).                                    *)
(***************************************************************************)
EXTENDS StagingGroups, FiniteSetTheorems, TLAPS

-----------------------------------------------------------------------------
(* Lemmas on the jobs table.                                               *)

(* The jobs a program starts with are job records.                         *)
LEMMA InitialJobsTyped ==
    ASSUME NEW table \in InitialJobs
    PROVE  table \in [Job -> JobRecord]
<1> DEFINE Existing == [ident     : Ident,
                        status    : {"planned", "shipped"},
                        discarded : {FALSE},
                        writer    : {NoRow}]
<1>1. Existing \subseteq JobRecord
  BY DEF JobRecord
<1>2. Unused \in JobRecord
  BY DEF Unused, JobRecord
<1>3. table \in [Job -> {Unused} \union Existing]
  BY DEF InitialJobs
<1> QED
  BY <1>1, <1>2, <1>3

(* The jobs table stays typed when a row is written to a job.              *)
LEMMA WrittenJobsTyped ==
    ASSUME NEW table \in [Job -> JobRecord], NEW row \in StagingRecord,
           NEW id \in Row \union {NoRow}, NEW j \in TargetJobs(table, row)
    PROVE  WrittenJobs(table, row, id, j) \in [Job -> JobRecord]
<1>1. EffectiveIdent(row) \in Ident \union {NoIdent}
  BY DEF EffectiveIdent, StagingRecord
<1>2. j \in Job
  BY DEF TargetJobs, Free, ActiveAt
<1>3. StatusAfter(row.cells, table[j].status) \in {"planned", "shipped"}
  BY <1>2 DEF StatusAfter, StagingRecord, JobRecord
<1> QED
  BY <1>1, <1>2, <1>3 DEF WrittenJobs, JobRecord

(* Writing a row to a target job keeps identities unique: the target is    *)
(* the active job with the identity, or there was none.                    *)
LEMMA WrittenJobsUnique ==
    ASSUME NEW table \in [Job -> JobRecord], UniqueIdentity(table),
           NEW row \in StagingRecord, NEW id \in Row \union {NoRow},
           NEW j \in TargetJobs(table, row)
    PROVE  UniqueIdentity(WrittenJobs(table, row, id, j))
<1> DEFINE new == WrittenJobs(table, row, id, j)
<1>1. j \in Job
  BY DEF TargetJobs, Free, ActiveAt
<1>2. \A k \in Job : k # j => new[k] = table[k]
  BY DEF WrittenJobs
<1>3. new[j].ident = EffectiveIdent(row)
  BY <1>1 DEF WrittenJobs
<1>4. ASSUME NEW k \in Job, k # j, IsActive(new, k), IsActive(new, j),
             new[k].ident = new[j].ident
      PROVE  FALSE
  <2>1. k \in ActiveAt(table, EffectiveIdent(row))
    BY <1>2, <1>3, <1>4 DEF ActiveAt, IsActive
  <2>2. j \in ActiveAt(table, EffectiveIdent(row))
    BY <2>1 DEF TargetJobs
  <2> QED
    BY <1>4, <2>1, <2>2 DEF ActiveAt, UniqueIdentity
<1>5. ASSUME NEW k \in Job, NEW l \in Job, k # j, l # j, IsActive(new, k),
             IsActive(new, l), new[k].ident = new[l].ident
      PROVE  k = l
  BY <1>2, <1>5 DEF UniqueIdentity, IsActive
<1>6. ASSUME NEW k \in Job, NEW l \in Job, IsActive(new, k), IsActive(new, l),
             new[k].ident = new[l].ident
      PROVE  k = l
  <2> HIDE DEF new
  <2> QED
    BY <1>1, <1>4, <1>5, <1>6
<1> QED
  BY <1>6 DEF UniqueIdentity

-----------------------------------------------------------------------------
(* Lemmas on the operators the actions are built from.                     *)

(* A flush gives a row, column by column the new value or the stored one.  *)
LEMMA FlushedRow ==
    ASSUME NEW stored \in StagingRecord, NEW seen \in StagingRecord,
           NEW new \in StagingRecord
    PROVE  LET out == Flushed(stored, seen, new)
           IN  /\ out \in StagingRecord
               /\ \A f \in DOMAIN stored :
                    out[f] = IF new[f] # seen[f] THEN new[f] ELSE stored[f]
<1> DEFINE out == Flushed(stored, seen, new)
<1>1. DOMAIN stored = {"raw", "override", "cells", "status", "key", "resolved",
                       "discarded"}
  BY DEF StagingRecord
<1>2. out = [f \in {"raw", "override", "cells", "status", "key", "resolved",
                    "discarded"} |->
                IF new[f] # seen[f] THEN new[f] ELSE stored[f]]
  BY <1>1 DEF Flushed
<1>3. out \in StagingRecord
  BY <1>2 DEF StagingRecord
<1> QED
  BY <1>1, <1>2, <1>3

(* The request's record stays typed whatever it has left to re-evaluate.   *)
LEMMA ResumeTyped ==
    ASSUME req \in [Worker -> Request], NEW w \in Worker,
           NEW memory \in StagingRecord,
           NEW left \in Ident \union {NoIdent},
           NEW joined \in Ident \union {NoIdent},
           Resume(w, memory, left, joined)
    PROVE  req' \in [Worker -> Request]
<1>1. Idle \in Request
  BY DEF Idle, Blank, Request, StagingRecord, CellKind
<1>2. [Idle EXCEPT !.pc = "survey", !.row = req[w].row, !.seen = memory,
                   !.left = left, !.joined = joined] \in Request
  BY <1>1 DEF Request
<1> QED
  BY <1>1, <1>2 DEF Resume

(* A resolution action leaves a table of rows.                             *)
LEMMA AfterActionTyped ==
    ASSUME rows \in [Row -> StagingRecord], NEW a \in Action
    PROVE  AfterAction(a) \in [Row -> StagingRecord]
<1>1. CASE a.kind = "discard"
  <2>1. a.row \in Row
    BY <1>1 DEF Action, NoAction
  <2> QED
    BY <1>1, <2>1 DEF AfterAction, StagingRecord
<1>2. CASE a.kind = "edit"
  <2>1. a.row \in Row /\ a.raw \in Ident \union {NoIdent}
    BY <1>2 DEF Action, NoAction
  <2>2. AfterAction(a) = [rows EXCEPT ![a.row].raw = a.raw]
    BY <1>2 DEF AfterAction
  <2> QED
    BY <2>1, <2>2 DEF StagingRecord
<1>3. CASE a.kind # "discard" /\ a.kind # "edit"
  BY <1>3 DEF AfterAction
<1> QED
  BY <1>1, <1>2, <1>3
-----------------------------------------------------------------------------
(* What an ingest leaves behind is well typed.                             *)
LEMMA InitTyped == Init => TypeOK
<1> SUFFICES ASSUME Init PROVE TypeOK
  OBVIOUS
<1>1. req \in [Worker -> Request]
  BY DEF Init, Idle, Blank, Request, StagingRecord, CellKind
<1>2. jobs \in [Job -> JobRecord]
  BY InitialJobsTyped DEF Init
<1>3. rows \in [Row -> StagingRecord]
  <2>1. PICK raw \in [Row -> Ident \union {NoIdent}], cells \in [Row -> Cells],
             override \in [Row -> Overrides \union {NoIdent}],
             deleted \in SUBSET Row :
           LET table == [r \in Row |->
                          [Blank EXCEPT !.raw = raw[r], !.cells = cells[r],
                                        !.override = override[r],
                                        !.discarded = r \in deleted]]
          IN  /\ rows = [r \in Row |-> StagedRow(table, r)]
              /\ \A r \in Row \ deleted :
                    \/ Collides(table, r)
                    \/ ~Accepted(jobs, table[r], KindOf[BatchOf[r]])
    BY DEF Init
  <2> DEFINE table == [s \in Row |->
                        [Blank EXCEPT !.raw = raw[s], !.cells = cells[s],
                                      !.override = override[s],
                                      !.discarded = s \in deleted]]
  <2>2. ASSUME NEW r \in Row PROVE table[r] \in StagingRecord
    <3>1. table[r] = [Blank EXCEPT !.raw = raw[r], !.cells = cells[r],
                                   !.override = override[r],
                                   !.discarded = r \in deleted]
      OBVIOUS
    <3>2. /\ raw[r] \in Ident \union {NoIdent}
          /\ cells[r] \in CellKind
          /\ override[r] \in Ident \union {NoIdent}
          /\ (r \in deleted) \in BOOLEAN
      BY ReviewAssumption
    <3> HIDE DEF table
    <3> QED
      BY <3>1, <3>2 DEF Blank, StagingRecord
  <2>3. \A r \in Row : EffectiveIdent(table[r]) \in Ident \union {NoIdent}
    BY <2>2 DEF EffectiveIdent, StagingRecord
  <2>4. \A r \in Row : StagedRow(table, r) \in StagingRecord
    BY <2>2, <2>3 DEF StagedRow, StagingRecord
  <2> QED
    BY <2>1, <2>4
<1> QED
  BY <1>1, <1>2, <1>3 DEF TypeOK

(* Every request step keeps rows, jobs and requests well typed.            *)
LEMMA StepTyped == TypeOK /\ [Next]_vars => TypeOK'
<1> SUFFICES ASSUME TypeOK, [Next]_vars PROVE TypeOK'
  OBVIOUS
<1> USE DEF TypeOK
<1>1. CASE UNCHANGED vars
  BY <1>1 DEF vars
<1>2. ASSUME NEW w \in Worker, Continue(w) PROVE TypeOK'
  <2> DEFINE q == req[w]
  <2>0. /\ q \in Request
        /\ q.seen \in StagingRecord /\ q.held \in StagingRecord
        /\ q.left \in Ident \union {NoIdent}
        /\ q.joined \in Ident \union {NoIdent}
        /\ q.row \in Row \union {NoRow} /\ q.lone \in Row \union {NoRow}
        /\ q.seen.key \in Ident \union {NoIdent}
        /\ q.held.raw \in Ident \union {NoIdent}
    BY DEF Request, StagingRecord
  <2>1. CASE CorrectionErrored(w)
    <3>1. [q.held EXCEPT !.key = NoIdent] \in StagingRecord
      BY <2>0 DEF StagingRecord
    <3>2. req' \in [Worker -> Request]
      BY <2>0, <2>1, <3>1, ResumeTyped DEF CorrectionErrored
    <3>3. ASSUME NEW s \in StagingRecord
          PROVE  [Flushed(s, q.seen, q.held) EXCEPT !.status = "error",
                                                    !.key = NoIdent]
                   \in StagingRecord
      <4>1. Flushed(s, q.seen, q.held) \in StagingRecord
        BY <2>0, FlushedRow
      <4> QED
        BY <4>1 DEF StagingRecord
    <3>4. rows' \in [Row -> StagingRecord]
      BY <2>1, <3>3 DEF CorrectionErrored
    <3> QED
      BY <2>1, <3>2, <3>4 DEF CorrectionErrored
  <2>2. CASE CorrectionCollides(w)
    <3>1. [q.held EXCEPT !.key = q.held.raw] \in StagingRecord
      BY <2>0 DEF StagingRecord
    <3>2. req' \in [Worker -> Request]
      BY <2>0, <2>2, <3>1, ResumeTyped DEF CorrectionCollides
    <3>3. ASSUME NEW s \in StagingRecord
          PROVE  [Flushed(s, q.seen, q.held) EXCEPT !.status = "error",
                                                    !.key = q.held.raw,
                                                    !.resolved = NoJob]
                   \in StagingRecord
      <4>1. Flushed(s, q.seen, q.held) \in StagingRecord
        BY <2>0, FlushedRow
      <4> QED
        BY <2>0, <4>1 DEF StagingRecord
    <3>4. rows' \in [Row -> StagingRecord]
      BY <2>2, <3>3 DEF CorrectionCollides
    <3> QED
      BY <2>2, <3>2, <3>4 DEF CorrectionCollides
  <2>3. CASE CorrectionProcessed(w)
    <3>1. PICK j \in TargetJobs(jobs, q.held) :
             LET done == [q.held EXCEPT !.status = "processed", !.key = NoIdent,
                                        !.resolved = j]
             IN  /\ jobs' = WrittenJobs(jobs, q.held, q.row, j)
                 /\ rows' = [rows EXCEPT ![q.row] = Flushed(@, q.seen, done)]
                 /\ Resume(w, done, q.seen.key, NoIdent)
      BY <2>3 DEF CorrectionProcessed
    <3> DEFINE done == [q.held EXCEPT !.status = "processed", !.key = NoIdent,
                                      !.resolved = j]
    <3>2. j \in Job
      BY DEF TargetJobs, Free, ActiveAt
    <3>3. done \in StagingRecord
      BY <2>0, <3>2 DEF StagingRecord
    <3> HIDE DEF done
    <3>4. jobs' \in [Job -> JobRecord]
      BY <2>0, <3>1, WrittenJobsTyped
    <3>5. req' \in [Worker -> Request]
      BY <2>0, <3>1, <3>3, ResumeTyped DEF done
    <3>6. \A s \in StagingRecord : Flushed(s, q.seen, done) \in StagingRecord
      BY <2>0, <3>3, FlushedRow
    <3>7. rows' = [rows EXCEPT ![q.row] = Flushed(rows[q.row], q.seen, done)]
      BY <3>1 DEF done
    <3>8. rows' \in [Row -> StagingRecord]
      BY <3>6, <3>7
    <3> QED
      BY <3>4, <3>5, <3>8
  <2>4. CASE CommitDiscard(w)
    <3> DEFINE gone == [q.held EXCEPT !.discarded = TRUE, !.key = NoIdent]
    <3>1. gone \in StagingRecord
      BY <2>0 DEF StagingRecord
    <3>2. /\ rows' = [rows EXCEPT ![q.row] = Flushed(rows[q.row], q.seen, gone)]
          /\ Resume(w, gone, q.seen.key, NoIdent)
          /\ UNCHANGED jobs
      BY <2>4 DEF CommitDiscard
    <3> HIDE DEF gone
    <3>3. req' \in [Worker -> Request]
      BY <2>0, <3>1, <3>2, ResumeTyped
    <3>4. \A s \in StagingRecord : Flushed(s, q.seen, gone) \in StagingRecord
      BY <2>0, <3>1, FlushedRow
    <3> QED
      BY <3>2, <3>3, <3>4
  <2>5. CASE SurveyGroup(w)
    <3>1. Remaining(q) \in Ident \union {NoIdent}
      BY <2>0 DEF Remaining
    <3>2. req' \in [Worker -> Request]
      BY <2>0, <2>5, <3>1, ResumeTyped DEF SurveyGroup
    <3> QED
      BY <2>5, <3>2 DEF SurveyGroup
  <2>6. CASE SurveyLone(w)
    <3>1. Remaining(q) \in Ident \union {NoIdent}
      BY <2>0 DEF Remaining
    <3>2. PICK s \in Survivors(q) :
             req' = [req EXCEPT ![w].pc = "settle", ![w].lone = s,
                                ![w].held = IF s = q.row THEN q.seen ELSE rows[s],
                                ![w].left = NoIdent,
                                ![w].joined = Remaining(q)]
      BY <2>6 DEF SurveyLone
    <3>3. s \in Row
      BY DEF Survivors, Group
    <3>4. (IF s = q.row THEN q.seen ELSE rows[s]) \in StagingRecord
      BY <2>0, <3>3
    <3> DEFINE next == [q EXCEPT !.pc = "settle", !.lone = s,
                                 !.held = IF s = q.row THEN q.seen ELSE rows[s],
                                 !.left = NoIdent, !.joined = Remaining(q)]
    <3>5. req' = [req EXCEPT ![w] = next]
      BY <3>2
    <3>6. next \in Request
      BY <2>0, <3>1, <3>3, <3>4 DEF Request
    <3> HIDE DEF next
    <3>7. req' \in [Worker -> Request]
      BY <3>5, <3>6
    <3> QED
      BY <2>6, <3>7 DEF SurveyLone
  <2>7. CASE SettleProcessed(w)
    <3>1. PICK j \in TargetJobs(jobs, q.held) :
             /\ jobs' = WrittenJobs(jobs, q.held, q.lone, j)
             /\ rows' = [rows EXCEPT ![q.lone] =
                           Flushed(@, q.held, [q.held EXCEPT !.key = NoIdent,
                                                             !.status = "processed",
                                                             !.resolved = j])]
      BY <2>7 DEF SettleProcessed
    <3>2. j \in Job
      BY DEF TargetJobs, Free, ActiveAt
    <3>3. [q.held EXCEPT !.key = NoIdent, !.status = "processed", !.resolved = j]
             \in StagingRecord
      BY <2>0, <3>2 DEF StagingRecord
    <3>4. jobs' \in [Job -> JobRecord]
      BY <2>0, <3>1, WrittenJobsTyped
    <3>5. req' \in [Worker -> Request]
      BY <2>0, <2>7, ResumeTyped DEF SettleProcessed
    <3>6. rows' \in [Row -> StagingRecord]
      BY <2>0, <3>1, <3>3, FlushedRow
    <3> QED
      BY <3>4, <3>5, <3>6
  <2>8. CASE SettleErrored(w)
    <3>1. [q.held EXCEPT !.key = NoIdent] \in StagingRecord
      BY <2>0 DEF StagingRecord
    <3>2. req' \in [Worker -> Request]
      BY <2>0, <2>8, ResumeTyped DEF SettleErrored
    <3>3. rows' \in [Row -> StagingRecord]
      BY <2>0, <2>8, <3>1, FlushedRow DEF SettleErrored
    <3> QED
      BY <2>8, <3>2, <3>3 DEF SettleErrored
  <2>9. CASE SettleHalfWritten(w)
    <3>1. [q.held EXCEPT !.key = NoIdent] \in StagingRecord
      BY <2>0 DEF StagingRecord
    <3>2. req' \in [Worker -> Request]
      BY <2>0, <2>9, ResumeTyped DEF SettleHalfWritten
    <3>3. jobs' \in [Job -> JobRecord]
      BY <2>0, <2>9, WrittenJobsTyped DEF SettleHalfWritten
    <3>4. \A s \in StagingRecord :
             [Flushed(s, q.held, [q.held EXCEPT !.key = NoIdent])
                EXCEPT !.status = "error"] \in StagingRecord
      BY <2>0, <3>1, FlushedRow DEF StagingRecord
    <3>5. rows' \in [Row -> StagingRecord]
      BY <2>9, <3>4 DEF SettleHalfWritten
    <3> QED
      BY <3>2, <3>3, <3>5
  <2> QED
    BY <1>2, <2>1, <2>2, <2>3, <2>4, <2>5, <2>6, <2>7, <2>8, <2>9 DEF Continue
<1>3. ASSUME NEW w \in Worker, Submit(w) PROVE TypeOK'
  <2>0. Idle \in Request
    BY DEF Idle, Blank, Request, StagingRecord, CellKind
  <2>1. ASSUME NEW r \in Row, NEW raw \in Ident \union {NoIdent},
               NEW cells \in Cells, BeginCorrection(w, r, raw, cells)
        PROVE  TypeOK'
    <3>1. [rows[r] EXCEPT !.raw = raw, !.cells = cells, !.resolved = NoJob]
             \in StagingRecord
      BY ReviewAssumption DEF StagingRecord
    <3>2. req' \in [Worker -> Request]
      BY <2>0, <2>1, <3>1 DEF BeginCorrection, Request
    <3> QED
      BY <2>1, <3>2 DEF BeginCorrection
  <2>2. ASSUME NEW r \in Row, BeginDiscard(w, r) PROVE TypeOK'
    BY <2>0, <2>2 DEF BeginDiscard, Request
  <2>3. ASSUME NEW r \in Row, NEW a \in Action, RestoreRow(w, r, a)
        PROVE  TypeOK'
    <3>1. AfterAction(a) \in [Row -> StagingRecord]
      BY AfterActionTyped
    <3>2. [AfterAction(a) EXCEPT ![r].discarded = FALSE] \in [Row -> StagingRecord]
      BY <3>1 DEF StagingRecord
    <3> QED
      BY <2>3, <3>2 DEF RestoreRow
  <2>4. ASSUME NEW j \in Job, DiscardJob(w, j) PROVE TypeOK'
    BY <2>4 DEF DiscardJob, JobRecord
  <2>5. ASSUME NEW j \in Job, NEW a \in Action, RestoreJob(w, j, a)
        PROVE  TypeOK'
    BY <2>5, AfterActionTyped DEF RestoreJob, JobRecord
  <2> QED
    BY <1>3, <2>1, <2>2, <2>3, <2>4, <2>5 DEF Submit
<1>4. ASSUME NEW w \in Worker, Abort(w) PROVE TypeOK'
  BY <1>4 DEF Abort, Idle, Blank, Request, StagingRecord, CellKind
<1> QED
  BY <1>1, <1>2, <1>3, <1>4 DEF Next

(* The type invariant holds of every run.                                  *)
THEOREM TypeCorrect == Spec => []TypeOK
  BY InitTyped, StepTyped, PTL DEF Spec
-----------------------------------------------------------------------------
(* No step of a request lets a second active job take an identity:         *)
(* UniqueIdentity is inductive beside the type invariant, since every      *)
(* writer looks the identity up in the table it then writes.               *)
LEMMA StepUnique ==
    TypeOK /\ UniqueIdentity(jobs) /\ [Next]_vars => UniqueIdentity(jobs)'
<1> SUFFICES ASSUME TypeOK, UniqueIdentity(jobs), [Next]_vars
             PROVE  UniqueIdentity(jobs')
  BY DEF UniqueIdentity, IsActive
<1>1. CASE UNCHANGED jobs
  BY <1>1 DEF UniqueIdentity, IsActive
<1>2. ASSUME NEW w \in Worker, NEW row \in StagingRecord,
             NEW id \in Row \union {NoRow}, NEW j \in TargetJobs(jobs, row),
             jobs' = WrittenJobs(jobs, row, id, j)
      PROVE  UniqueIdentity(jobs')
  BY <1>2, WrittenJobsUnique DEF TypeOK
<1>3. ASSUME NEW w \in Worker, Continue(w) PROVE UniqueIdentity(jobs')
  <2>1. /\ req[w].held \in StagingRecord
        /\ req[w].row \in Row \union {NoRow}
        /\ req[w].lone \in Row \union {NoRow}
    BY DEF TypeOK, Request
  <2>2. CASE CorrectionProcessed(w)
    BY <1>2, <2>1, <2>2 DEF CorrectionProcessed
  <2>3. CASE SettleProcessed(w)
    BY <1>2, <2>1, <2>3 DEF SettleProcessed
  <2>4. CASE SettleHalfWritten(w)
    BY <1>2, <2>1, <2>4 DEF SettleHalfWritten
  <2> QED
    BY <1>1, <1>3, <2>2, <2>3, <2>4
    DEF Continue, CorrectionErrored, CorrectionCollides, CommitDiscard,
        SurveyGroup, SurveyLone, SettleErrored
<1>4. ASSUME NEW w \in Worker, Submit(w) PROVE UniqueIdentity(jobs')
  <2>1. ASSUME NEW j \in Job, DiscardJob(w, j) PROVE UniqueIdentity(jobs')
    <3>1. \A k \in Job : IsActive(jobs', k)
                           => IsActive(jobs, k) /\ jobs'[k].ident = jobs[k].ident
      BY <2>1 DEF DiscardJob, IsActive, TypeOK, JobRecord
    <3> QED
      BY <3>1 DEF UniqueIdentity
  <2>2. ASSUME NEW j \in Job, NEW a \in Action, RestoreJob(w, j, a)
        PROVE  UniqueIdentity(jobs')
    <3>1. \A k \in Job : /\ jobs'[k].ident = jobs[k].ident
                         /\ k # j => jobs'[k] = jobs[k]
      BY <2>2 DEF RestoreJob, TypeOK, JobRecord
    <3>2. \A k \in Job : k # j /\ IsActive(jobs', k)
                           => jobs'[k].ident # jobs'[j].ident
      BY <2>2, <3>1 DEF RestoreJob, ActiveAt, IsActive
    <3>3. \A k \in Job : k # j /\ IsActive(jobs', k) => IsActive(jobs, k)
      BY <3>1 DEF IsActive
    <3> QED
      BY <3>1, <3>2, <3>3 DEF UniqueIdentity
  <2> QED
    BY <1>1, <1>4, <2>1, <2>2 DEF Submit, BeginCorrection, BeginDiscard, RestoreRow
<1> QED
  BY <1>1, <1>3, <1>4 DEF Next, vars, Abort

(* However requests interleave and wherever they die, no two active jobs   *)
(* share an identity.                                                      *)
THEOREM JobsStayUnique == Spec => []OneActiveJobPerIdentity
<1>1. Init => UniqueIdentity(jobs)
  BY DEF Init, InitialJobs
<1>2. UniqueIdentity(jobs) <=> OneActiveJobPerIdentity
  BY DEF OneActiveJobPerIdentity
<1> QED
  BY <1>1, <1>2, InitTyped, StepTyped, StepUnique, PTL DEF Spec
-----------------------------------------------------------------------------
(* A correction starts from a row that was in error when it was read.      *)
SeenInError ==
    \A w \in Worker : req[w].pc = "correct"
                         => req[w].row \in Row /\ req[w].seen.status = "error"

(* No step makes a correction remember a row that was not in error.        *)
LEMMA StepSeen == TypeOK /\ SeenInError /\ [Next]_vars => SeenInError'
<1> SUFFICES ASSUME TypeOK, SeenInError, [Next]_vars PROVE SeenInError'
  OBVIOUS
<1>1. ASSUME NEW w \in Worker, NEW memory, NEW left, NEW joined,
             Resume(w, memory, left, joined)
      PROVE  SeenInError'
  BY <1>1 DEF Resume, Idle, SeenInError, TypeOK
<1>2. CASE UNCHANGED req
  BY <1>2 DEF SeenInError
<1>3. ASSUME NEW w \in Worker, Continue(w) PROVE SeenInError'
  <2>1. CASE SurveyLone(w)
    BY <2>1 DEF SurveyLone, SeenInError, TypeOK, Request
  <2> QED
    BY <1>1, <1>3, <2>1
    DEF Continue, CorrectionErrored, CorrectionCollides, CorrectionProcessed,
        CommitDiscard, SurveyGroup, SettleProcessed, SettleErrored,
        SettleHalfWritten
<1>4. ASSUME NEW w \in Worker, Submit(w) PROVE SeenInError'
  <2>1. ASSUME NEW r \in Row, NEW raw, NEW cells, BeginCorrection(w, r, raw, cells)
        PROVE  SeenInError'
    BY <2>1 DEF BeginCorrection, SeenInError, Idle, TypeOK
  <2>2. ASSUME NEW r \in Row, BeginDiscard(w, r) PROVE SeenInError'
    BY <2>2 DEF BeginDiscard, SeenInError, Idle, TypeOK
  <2> QED
    BY <1>2, <1>4, <2>1, <2>2 DEF Submit, RestoreRow, DiscardJob, RestoreJob
<1>5. ASSUME NEW w \in Worker, Abort(w) PROVE SeenInError'
  BY <1>5 DEF Abort, SeenInError, Idle, TypeOK
<1> QED
  BY <1>2, <1>3, <1>4, <1>5 DEF Next, vars

(* A step touches the record of the request that takes it, and no other.   *)
LEMMA OthersKeepTheirRequest ==
    ASSUME TypeOK, NEW v \in Worker, Continue(v) \/ Submit(v) \/ Abort(v),
           NEW w \in Worker, w # v
    PROVE  req'[w] = req[w]
<1>1. CASE Continue(v)
  BY <1>1 DEF TypeOK, Continue, CorrectionErrored, CorrectionCollides,
              CorrectionProcessed, CommitDiscard, SurveyGroup, SurveyLone,
              SettleProcessed, SettleErrored, SettleHalfWritten, Resume
<1>2. CASE Submit(v)
  BY <1>2 DEF TypeOK, Submit, BeginCorrection, BeginDiscard, RestoreRow,
              DiscardJob, RestoreJob
<1>3. CASE Abort(v)
  BY <1>3 DEF TypeOK, Abort
<1> QED
  BY <1>1, <1>2, <1>3

(* A correction that ends in error leaves the jobs table as it was, even   *)
(* when its row was changed by another request in between.                 *)
THEOREM FailedCorrection == Spec => ErroredCorrectionLeavesJobs
<1>1. Init => SeenInError
  <2>1. ASSUME Init PROVE \A w \in Worker : req[w] = Idle
    BY <2>1 DEF Init
  <2> QED
    BY <2>1 DEF SeenInError, Idle
<1>2. ASSUME TypeOK, SeenInError, Next, NEW w \in Worker,
             req[w].pc = "correct", req'[w].pc # "correct",
             rows'[req[w].row].status = "error"
      PROVE  jobs' = jobs
  <2> DEFINE q == req[w]
  <2>1. PICK v \in Worker : Continue(v) \/ Submit(v) \/ Abort(v)
    BY <1>2 DEF Next
  <2>2. v = w
    BY <1>2, <2>1, OthersKeepTheirRequest
  <2>3. ~CorrectionProcessed(w)
    <3>1. SUFFICES ASSUME CorrectionProcessed(w) PROVE FALSE
      OBVIOUS
    <3>2. PICK j \in TargetJobs(jobs, q.held) :
             rows' = [rows EXCEPT ![q.row] =
                        Flushed(@, q.seen, [q.held EXCEPT !.status = "processed",
                                                          !.key = NoIdent,
                                                          !.resolved = j])]
      BY <3>1 DEF CorrectionProcessed
    <3> DEFINE done == [q.held EXCEPT !.status = "processed", !.key = NoIdent,
                                      !.resolved = j]
    <3>3. /\ q.row \in Row /\ q.seen.status = "error"
          /\ q.seen \in StagingRecord /\ q.held \in StagingRecord
          /\ rows[q.row] \in StagingRecord /\ j \in Job
      BY <1>2 DEF TypeOK, SeenInError, Request, TargetJobs, Free, ActiveAt
    <3>4. done \in StagingRecord /\ done.status = "processed"
      BY <3>3 DEF StagingRecord
    <3>5. rows'[q.row] = Flushed(rows[q.row], q.seen, done)
      BY <1>2, <3>2, <3>3 DEF TypeOK
    <3> HIDE DEF done
    <3>6. Flushed(rows[q.row], q.seen, done).status = "processed"
      BY <3>3, <3>4, FlushedRow DEF StagingRecord
    <3> QED
      BY <1>2, <3>5, <3>6
  <2> QED
    BY <1>2, <2>1, <2>2, <2>3
    DEF Continue, CorrectionErrored, CorrectionCollides, CommitDiscard,
        SurveyGroup, SurveyLone, SettleProcessed, SettleErrored,
        SettleHalfWritten, Submit, BeginCorrection, BeginDiscard, RestoreRow,
        DiscardJob, RestoreJob, Abort
<1>3. TypeOK /\ SeenInError /\ [Next]_vars
        => [\A w \in Worker :
              req[w].pc = "correct" /\ req'[w].pc # "correct"
              /\ rows'[req[w].row].status = "error" => jobs' = jobs]_vars
  BY <1>2
<1> QED
  BY <1>1, <1>3, InitTyped, StepTyped, StepSeen, PTL
  DEF Spec, ErroredCorrectionLeavesJobs
-----------------------------------------------------------------------------
(* With one request at a time, staging review implements RowLifecycle.     *)
(* (With two it does not.)  The inductive invariant says that what the     *)
(* running request remembers is what the table holds.                      *)

(* Requests are served one after the other.                                *)
OneAtATime == \A v, w \in Worker : v = w

(* A row has a job exactly when it is processed, and is then not discarded.*)
RowConsistent(x) ==
    /\ x.status = "processed" => x.resolved \in Job /\ ~x.discarded
    /\ x.status # "processed" => x.resolved = NoJob

OpenError(x) == x.status = "error" /\ ~x.discarded /\ x.resolved = NoJob

(* What the request remembers of the rows it still has to write.           *)
MemoryIsCurrent(q) ==
    /\ q.pc # "idle" => q.row \in Row
    /\ q.pc \in {"correct", "discard", "survey"} => q.seen = rows[q.row]
    /\ q.pc \in {"correct", "discard"} => OpenError(q.seen) /\ OpenError(q.held)
    /\ q.pc = "settle" =>
          /\ q.lone \in Row
          /\ q.held = rows[q.lone]
          /\ OpenError(q.held)
          /\ IF q.lone = q.row THEN q.joined = NoIdent ELSE q.seen = rows[q.row]

SerialInv ==
    /\ \A r \in Row : RowConsistent(rows[r])
    /\ \A w \in Worker : MemoryIsCurrent(req[w])
-----------------------------------------------------------------------------
(* What may become of one row: RowLifecycle's moves, read off its record.  *)
RecordMove(x, y) ==
    \/ /\ y.discarded = x.discarded
       /\ y.status = "processed" <=> x.status = "processed"
       /\ y.resolved = x.resolved
    \/ /\ ~x.discarded /\ x.status # "processed"
       /\ ~y.discarded /\ y.status = "processed" /\ y.resolved \in Job
    \/ /\ ~x.discarded /\ x.status # "processed"
       /\ y.discarded /\ y.resolved = NoJob
    \/ /\ x.discarded
       /\ ~y.discarded /\ y.status # "processed" /\ y.resolved = NoJob

Moved(x, y) == RowConsistent(y) /\ RecordMove(x, y)

(* A row whose stored columns are the ones that were read is overwritten.  *)
LEMMA FlushOfCurrentRow ==
    ASSUME NEW x \in StagingRecord, NEW new \in StagingRecord
    PROVE  Flushed(x, x, new) = new
<1> DEFINE fields == {"raw", "override", "cells", "status", "key", "resolved",
                      "discarded"}
<1>1. DOMAIN x = fields /\ DOMAIN new = fields
  BY DEF StagingRecord
<1>2. new = [f \in fields |-> new[f]]
  BY <1>1 DEF StagingRecord
<1>3. Flushed(x, x, new) = [f \in fields |-> new[f]]
  BY <1>1 DEF Flushed
<1> QED
  BY <1>2, <1>3

(* A row that stays as it is has made a legal move.                        *)
LEMMA UnmovedRow ==
    ASSUME NEW x \in StagingRecord, RowConsistent(x) PROVE Moved(x, x)
  BY DEF Moved, RecordMove

(* When one row is overwritten by a legal move of its own, all rows have   *)
(* moved legally.                                                          *)
LEMMA OneRowMoved ==
    ASSUME TypeOK, SerialInv, NEW r \in Row, NEW new,
           rows' = [rows EXCEPT ![r] = new], Moved(rows[r], new)
    PROVE  \A s \in Row : Moved(rows[s], rows'[s])
<1>1. ASSUME NEW s \in Row PROVE Moved(rows[s], rows'[s])
  <2>1. CASE s = r
    BY <2>1 DEF TypeOK
  <2>2. CASE s # r
    <3>1. rows'[s] = rows[s] /\ rows[s] \in StagingRecord /\ RowConsistent(rows[s])
      BY <2>2 DEF TypeOK, SerialInv
    <3> QED
      BY <3>1, UnmovedRow
  <2> QED
    BY <2>1, <2>2
<1> QED
  BY <1>1

(* The response, or the next group: the request remembers the row it wrote.*)
LEMMA ResumeIsCurrent ==
    ASSUME TypeOK, NEW w \in Worker, req[w].row \in Row,
           NEW memory, NEW left, NEW joined, Resume(w, memory, left, joined),
           left # NoIdent \/ joined # NoIdent => memory = rows'[req[w].row]
    PROVE  MemoryIsCurrent(req[w])'
<1>1. CASE left = NoIdent /\ joined = NoIdent
  <2>1. req'[w] = Idle
    BY <1>1 DEF Resume, TypeOK
  <2> QED
    BY <2>1 DEF MemoryIsCurrent, Idle
<1>2. CASE ~(left = NoIdent /\ joined = NoIdent)
  <2>1. req'[w] = [Idle EXCEPT !.pc = "survey", !.row = req[w].row,
                               !.seen = memory, !.left = left, !.joined = joined]
    BY <1>2 DEF Resume, TypeOK
  <2>2. /\ req'[w].pc = "survey" /\ req'[w].row = req[w].row
        /\ req'[w].seen = memory
    BY <2>1 DEF Idle
  <2> QED
    BY <1>2, <2>2 DEF MemoryIsCurrent
<1> QED
  BY <1>1, <1>2

(* What every step of the running request does to the rows and to the      *)
(* request's memory.                                                       *)
StepIsSerial(w) ==
    /\ \A r \in Row : Moved(rows[r], rows'[r])
    /\ MemoryIsCurrent(req[w])'

(* The rest of a request moves rows legally and keeps its memory current.  *)
LEMMA ContinueIsSerial ==
    ASSUME TypeOK, SerialInv, NEW w \in Worker, Continue(w)
    PROVE  StepIsSerial(w)
<1> DEFINE q == req[w]
<1>0. /\ q \in Request /\ q.seen \in StagingRecord /\ q.held \in StagingRecord
      /\ rows \in [Row -> StagingRecord]
      /\ \A r \in Row : RowConsistent(rows[r])
      /\ MemoryIsCurrent(q)
  BY DEF TypeOK, SerialInv, Request
<1>a. ASSUME q.pc = "correct" \/ q.pc = "discard"
      PROVE  /\ q.row \in Row /\ q.seen = rows[q.row] /\ OpenError(q.held)
             /\ OpenError(rows[q.row])
  BY <1>0, <1>a DEF MemoryIsCurrent
<1>b. ASSUME q.pc = "settle"
      PROVE  /\ q.row \in Row /\ q.lone \in Row /\ q.held = rows[q.lone]
             /\ OpenError(q.held)
             /\ q.joined # NoIdent => q.lone # q.row /\ q.seen = rows[q.row]
  BY <1>0, <1>b DEF MemoryIsCurrent
<1>1. CASE CorrectionErrored(w)
  <2> DEFINE new == [q.held EXCEPT !.key = NoIdent]
  <2>1. q.pc = "correct"
    BY <1>1 DEF CorrectionErrored
  <2>2. Flushed(rows[q.row], q.seen, q.held) = q.held
    BY <1>0, <1>a, <2>1, FlushOfCurrentRow
  <2>3. [q.held EXCEPT !.status = "error", !.key = NoIdent] = new
    BY <1>0, <1>a, <2>1 DEF OpenError, StagingRecord
  <2>4. rows' = [rows EXCEPT ![q.row] = new]
    BY <1>1, <2>2, <2>3 DEF CorrectionErrored
  <2>5. Moved(rows[q.row], new)
    BY <1>0, <1>a, <2>1
    DEF Moved, RecordMove, RowConsistent, OpenError, StagingRecord
  <2>6. Resume(w, new, q.seen.key, NoIdent)
    BY <1>1 DEF CorrectionErrored
  <2>7. rows'[q.row] = new
    BY <1>0, <1>a, <2>1, <2>4
  <2> HIDE DEF new
  <2> QED
    BY <1>a, <2>1, <2>4, <2>5, <2>6, <2>7, OneRowMoved, ResumeIsCurrent
    DEF StepIsSerial
<1>2. CASE CorrectionCollides(w)
  <2> DEFINE new == [q.held EXCEPT !.key = q.held.raw]
             old == IF q.seen.key = q.held.raw THEN NoIdent ELSE q.seen.key
  <2>1. q.pc = "correct"
    BY <1>2 DEF CorrectionCollides
  <2>2. Flushed(rows[q.row], q.seen, q.held) = q.held
    BY <1>0, <1>a, <2>1, FlushOfCurrentRow
  <2>3. [q.held EXCEPT !.status = "error", !.key = q.held.raw, !.resolved = NoJob]
           = new
    BY <1>0, <1>a, <2>1 DEF OpenError, StagingRecord
  <2>4. rows' = [rows EXCEPT ![q.row] = new]
    BY <1>2, <2>2, <2>3 DEF CorrectionCollides
  <2>5. Moved(rows[q.row], new)
    BY <1>0, <1>a, <2>1
    DEF Moved, RecordMove, RowConsistent, OpenError, StagingRecord
  <2>6. Resume(w, new, old, q.held.raw)
    BY <1>2 DEF CorrectionCollides
  <2>7. rows'[q.row] = new
    BY <1>0, <1>a, <2>1, <2>4
  <2> HIDE DEF new, old
  <2> QED
    BY <1>a, <2>1, <2>4, <2>5, <2>6, <2>7, OneRowMoved, ResumeIsCurrent
    DEF StepIsSerial
<1>3. CASE CorrectionProcessed(w)
  <2>1. q.pc = "correct"
    BY <1>3 DEF CorrectionProcessed
  <2>2. PICK j \in TargetJobs(jobs, q.held) :
           LET done == [q.held EXCEPT !.status = "processed", !.key = NoIdent,
                                      !.resolved = j]
           IN  /\ rows' = [rows EXCEPT ![q.row] = Flushed(@, q.seen, done)]
               /\ Resume(w, done, q.seen.key, NoIdent)
    BY <1>3 DEF CorrectionProcessed
  <2> DEFINE new == [q.held EXCEPT !.status = "processed", !.key = NoIdent,
                                   !.resolved = j]
  <2>3. j \in Job
    BY DEF TargetJobs, Free, ActiveAt
  <2>4. new \in StagingRecord
    BY <1>0, <2>3 DEF StagingRecord
  <2>5. Moved(rows[q.row], new)
    BY <1>0, <1>a, <2>1, <2>3
    DEF Moved, RecordMove, RowConsistent, OpenError, StagingRecord
  <2>6. Resume(w, new, q.seen.key, NoIdent)
    BY <2>2
  <2>7. rows' = [rows EXCEPT ![q.row] = Flushed(rows[q.row], q.seen, new)]
    BY <2>2
  <2> HIDE DEF new
  <2>8. rows' = [rows EXCEPT ![q.row] = new]
    <3>1. Flushed(rows[q.row], q.seen, new) = new
      BY <1>0, <1>a, <2>1, <2>4, FlushOfCurrentRow
    <3> QED
      BY <2>7, <3>1
  <2>9. rows'[q.row] = new
    BY <1>0, <1>a, <2>1, <2>8
  <2> QED
    BY <1>a, <2>1, <2>5, <2>6, <2>8, <2>9, OneRowMoved, ResumeIsCurrent
    DEF StepIsSerial
<1>4. CASE CommitDiscard(w)
  <2> DEFINE new == [q.held EXCEPT !.discarded = TRUE, !.key = NoIdent]
  <2>1. q.pc = "discard"
    BY <1>4 DEF CommitDiscard
  <2>2. new \in StagingRecord
    BY <1>0 DEF StagingRecord
  <2>3. Moved(rows[q.row], new)
    BY <1>0, <1>a, <2>1
    DEF Moved, RecordMove, RowConsistent, OpenError, StagingRecord
  <2>4. /\ rows' = [rows EXCEPT ![q.row] = Flushed(rows[q.row], q.seen, new)]
        /\ Resume(w, new, q.seen.key, NoIdent)
    BY <1>4 DEF CommitDiscard
  <2> HIDE DEF new
  <2>5. rows' = [rows EXCEPT ![q.row] = new]
    <3>1. Flushed(rows[q.row], q.seen, new) = new
      BY <1>0, <1>a, <2>1, <2>2, FlushOfCurrentRow
    <3> QED
      BY <2>4, <3>1
  <2>6. rows'[q.row] = new
    BY <1>0, <1>a, <2>1, <2>5
  <2> QED
    BY <1>a, <2>1, <2>3, <2>4, <2>5, <2>6, OneRowMoved, ResumeIsCurrent
    DEF StepIsSerial
<1>5. CASE SurveyGroup(w)
  <2>1. /\ q.row \in Row /\ q.seen = rows[q.row]
        /\ rows' = rows /\ Resume(w, q.seen, NoIdent, Remaining(q))
    BY <1>0, <1>5 DEF SurveyGroup, MemoryIsCurrent
  <2>2. \A r \in Row : Moved(rows[r], rows'[r])
    BY <1>0, <2>1, UnmovedRow
  <2> QED
    BY <2>1, <2>2, ResumeIsCurrent DEF StepIsSerial
<1>6. CASE SurveyLone(w)
  <2>1. /\ q.pc = "survey" /\ q.row \in Row /\ q.seen = rows[q.row]
        /\ rows' = rows
    BY <1>0, <1>6 DEF SurveyLone, MemoryIsCurrent
  <2>2. PICK s \in Survivors(q) :
           req' = [req EXCEPT ![w].pc = "settle", ![w].lone = s,
                              ![w].held = IF s = q.row THEN q.seen ELSE rows[s],
                              ![w].left = NoIdent,
                              ![w].joined = Remaining(q)]
    BY <1>6 DEF SurveyLone
  <2>3. s \in Row /\ IsGrouped(rows[s])
    BY DEF Survivors, Group
  <2>4. OpenError(rows[s])
    BY <1>0, <2>3 DEF IsGrouped, OpenError, RowConsistent
  <2>5. s = q.row => Remaining(q) = NoIdent
    BY <2>1 DEF Survivors, Remaining
  <2>6. /\ req'[w].pc = "settle" /\ req'[w].row = q.row /\ req'[w].lone = s
        /\ req'[w].held = rows[s] /\ req'[w].seen = q.seen
        /\ req'[w].joined = Remaining(q)
    BY <1>0, <2>1, <2>2 DEF TypeOK, Request
  <2>7. MemoryIsCurrent(req[w])'
    BY <2>1, <2>3, <2>4, <2>5, <2>6 DEF MemoryIsCurrent
  <2>8. \A r \in Row : Moved(rows[r], rows'[r])
    BY <1>0, <2>1, UnmovedRow
  <2> QED
    BY <2>7, <2>8 DEF StepIsSerial
<1>7. CASE SettleProcessed(w)
  <2>1. q.pc = "settle"
    BY <1>7 DEF SettleProcessed
  <2>2. PICK j \in TargetJobs(jobs, q.held) :
           rows' = [rows EXCEPT ![q.lone] =
                      Flushed(@, q.held, [q.held EXCEPT !.key = NoIdent,
                                                        !.status = "processed",
                                                        !.resolved = j])]
    BY <1>7 DEF SettleProcessed
  <2> DEFINE new == [q.held EXCEPT !.key = NoIdent, !.status = "processed",
                                   !.resolved = j]
  <2>3. j \in Job
    BY DEF TargetJobs, Free, ActiveAt
  <2>4. new \in StagingRecord
    BY <1>0, <2>3 DEF StagingRecord
  <2>5. Moved(rows[q.lone], new)
    BY <1>0, <1>b, <2>1, <2>3
    DEF Moved, RecordMove, RowConsistent, OpenError, StagingRecord
  <2>6. rows' = [rows EXCEPT ![q.lone] = Flushed(rows[q.lone], q.held, new)]
    BY <2>2
  <2> HIDE DEF new
  <2>7. rows' = [rows EXCEPT ![q.lone] = new]
    BY <1>0, <1>b, <2>1, <2>4, <2>6, FlushOfCurrentRow
  <2>8. q.joined # NoIdent => q.seen = rows'[q.row]
    BY <1>0, <1>b, <2>1, <2>7
  <2>9. Resume(w, q.seen, NoIdent, q.joined)
    BY <1>7 DEF SettleProcessed
  <2> QED
    BY <1>b, <2>1, <2>5, <2>7, <2>8, <2>9, OneRowMoved, ResumeIsCurrent
    DEF StepIsSerial
<1>8. CASE SettleErrored(w) \/ SettleHalfWritten(w)
  <2> DEFINE new == [q.held EXCEPT !.key = NoIdent]
  <2>1. /\ q.pc = "settle"
        /\ Resume(w, q.seen, NoIdent, q.joined)
    BY <1>8 DEF SettleErrored, SettleHalfWritten
  <2>2. new \in StagingRecord
    BY <1>0 DEF StagingRecord
  <2>3. Moved(rows[q.lone], new)
    BY <1>0, <1>b, <2>1
    DEF Moved, RecordMove, RowConsistent, OpenError, StagingRecord
  <2>4. new = [new EXCEPT !.status = "error"]
    BY <1>0, <1>b, <2>1 DEF OpenError, StagingRecord
  <2>5. \/ rows' = [rows EXCEPT ![q.lone] = Flushed(rows[q.lone], q.held, new)]
        \/ rows' = [rows EXCEPT ![q.lone] =
                      [Flushed(rows[q.lone], q.held, new) EXCEPT !.status = "error"]]
    BY <1>8 DEF SettleErrored, SettleHalfWritten
  <2> HIDE DEF new
  <2>6. Flushed(rows[q.lone], q.held, new) = new
    BY <1>0, <1>b, <2>1, <2>2, FlushOfCurrentRow
  <2>7. rows' = [rows EXCEPT ![q.lone] = new]
    BY <2>4, <2>5, <2>6
  <2>8. q.joined # NoIdent => q.seen = rows'[q.row]
    BY <1>0, <1>b, <2>1, <2>7
  <2> QED
    BY <1>b, <2>1, <2>3, <2>7, <2>8, OneRowMoved, ResumeIsCurrent
    DEF StepIsSerial
<1> QED
  BY <1>1, <1>2, <1>3, <1>4, <1>5, <1>6, <1>7, <1>8 DEF Continue

(* A new request, and the requests that run in one step, do too.           *)
LEMMA SubmitIsSerial ==
    ASSUME TypeOK, SerialInv, NEW w \in Worker, Submit(w)
    PROVE  StepIsSerial(w)
<1>0. /\ rows \in [Row -> StagingRecord]
      /\ \A r \in Row : RowConsistent(rows[r])
      /\ MemoryIsCurrent(req[w])
  BY DEF TypeOK, SerialInv
<1>1. ASSUME rows' = rows PROVE \A r \in Row : Moved(rows[r], rows'[r])
  BY <1>0, <1>1, UnmovedRow
<1>2. ASSUME req' = req, req[w].pc = "idle" PROVE MemoryIsCurrent(req[w])'
  BY <1>2 DEF MemoryIsCurrent
<1>3. ASSUME NEW r \in Row, NEW raw, NEW cells, BeginCorrection(w, r, raw, cells)
      PROVE  StepIsSerial(w)
  <2> DEFINE held == [rows[r] EXCEPT !.raw = raw, !.cells = cells,
                                     !.resolved = NoJob]
  <2>1. /\ rows' = rows
        /\ req' = [req EXCEPT ![w] = [Idle EXCEPT !.pc = "correct", !.row = r,
                                                  !.seen = rows[r],
                                                  !.held = held]]
    BY <1>3 DEF BeginCorrection
  <2>2. OpenError(rows[r]) /\ OpenError(held)
    BY <1>0, <1>3 DEF BeginCorrection, OpenError, RowConsistent, StagingRecord
  <2> HIDE DEF held
  <2>3. /\ req'[w].pc = "correct" /\ req'[w].row = r
        /\ req'[w].seen = rows[r] /\ req'[w].held = held
    BY <2>1 DEF TypeOK, Idle
  <2>4. MemoryIsCurrent(req[w])'
    BY <2>1, <2>2, <2>3 DEF MemoryIsCurrent
  <2> QED
    BY <1>1, <2>1, <2>4 DEF StepIsSerial
<1>4. ASSUME NEW r \in Row, BeginDiscard(w, r) PROVE StepIsSerial(w)
  <2>1. /\ rows' = rows
        /\ req' = [req EXCEPT ![w] = [Idle EXCEPT !.pc = "discard", !.row = r,
                                                  !.seen = rows[r],
                                                  !.held = rows[r]]]
    BY <1>4 DEF BeginDiscard
  <2>2. OpenError(rows[r])
    BY <1>4 DEF BeginDiscard, OpenError
  <2>3. /\ req'[w].pc = "discard" /\ req'[w].row = r
        /\ req'[w].seen = rows[r] /\ req'[w].held = rows[r]
    BY <2>1 DEF TypeOK, Idle
  <2>4. MemoryIsCurrent(req[w])'
    BY <2>1, <2>2, <2>3 DEF MemoryIsCurrent
  <2> QED
    BY <1>1, <2>1, <2>4 DEF StepIsSerial
<1>5. ASSUME NEW a \in Action, ActionAllowed(a)
      PROVE  \A r \in Row : Moved(rows[r], AfterAction(a)[r])
  <2>1. CASE a.kind = "discard"
    <3>1. /\ a.row \in Row
          /\ rows[a.row].resolved = NoJob /\ rows[a.row].status = "error"
          /\ AfterAction(a) = [rows EXCEPT ![a.row].discarded = TRUE]
      BY <1>5, <2>1 DEF Action, NoAction, ActionAllowed, AfterAction
    <3>2. AfterAction(a)[a.row] = [rows[a.row] EXCEPT !.discarded = TRUE]
      BY <1>0, <3>1
    <3>3. Moved(rows[a.row], AfterAction(a)[a.row])
      BY <1>0, <3>1, <3>2 DEF Moved, RecordMove, RowConsistent, StagingRecord
    <3>4. \A r \in Row \ {a.row} : AfterAction(a)[r] = rows[r]
      BY <1>0, <3>1
    <3> QED
      BY <1>0, <3>3, <3>4, UnmovedRow
  <2>2. CASE a.kind = "edit"
    <3>1. /\ a.row \in Row
          /\ AfterAction(a) = [rows EXCEPT ![a.row].raw = a.raw]
      BY <2>2 DEF Action, NoAction, AfterAction
    <3>2. AfterAction(a)[a.row] = [rows[a.row] EXCEPT !.raw = a.raw]
      BY <1>0, <3>1
    <3>3. Moved(rows[a.row], AfterAction(a)[a.row])
      BY <1>0, <3>1, <3>2 DEF Moved, RecordMove, RowConsistent, StagingRecord
    <3>4. \A r \in Row \ {a.row} : AfterAction(a)[r] = rows[r]
      BY <1>0, <3>1
    <3> QED
      BY <1>0, <3>3, <3>4, UnmovedRow
  <2>3. CASE a.kind # "discard" /\ a.kind # "edit"
    BY <1>0, <2>3, UnmovedRow DEF AfterAction
  <2> QED
    BY <2>1, <2>2, <2>3
<1>6. ASSUME NEW r \in Row, NEW a \in Action, RestoreRow(w, r, a)
      PROVE  StepIsSerial(w)
  <2> DEFINE mid == AfterAction(a)
  <2>1. /\ rows[r].discarded /\ req[w].pc = "idle" /\ req' = req
        /\ rows' = [mid EXCEPT ![r].discarded = FALSE]
    BY <1>6 DEF RestoreRow
  <2>2. mid \in [Row -> StagingRecord]
    BY <1>0, AfterActionTyped
  <2>3. \A s \in Row : Moved(rows[s], mid[s])
    BY <1>5, <1>6 DEF RestoreRow
  <2>3a. rows[r].status # "processed" /\ rows[r].resolved = NoJob
    BY <1>0, <2>1 DEF RowConsistent
  <2>3b. mid[r].status # "processed" /\ mid[r].resolved = NoJob
    BY <2>1, <2>3, <2>3a DEF Moved, RecordMove, RowConsistent
  <2>4. rows'[r] = [mid[r] EXCEPT !.discarded = FALSE]
    BY <2>1, <2>2
  <2>5. Moved(rows[r], rows'[r])
    <3>1. /\ rows'[r].status = mid[r].status /\ rows'[r].resolved = mid[r].resolved
          /\ rows'[r].discarded = FALSE
      BY <2>2, <2>4 DEF StagingRecord
    <3> QED
      BY <2>1, <2>3b, <3>1 DEF Moved, RecordMove, RowConsistent
  <2>6. \A s \in Row \ {r} : rows'[s] = mid[s]
    BY <2>1, <2>2
  <2>7. \A s \in Row : Moved(rows[s], rows'[s])
    BY <2>3, <2>5, <2>6
  <2> QED
    BY <1>2, <2>1, <2>7 DEF StepIsSerial
<1>7. ASSUME NEW j \in Job, DiscardJob(w, j) PROVE StepIsSerial(w)
  BY <1>1, <1>2, <1>7 DEF DiscardJob, StepIsSerial
<1>8. ASSUME NEW j \in Job, NEW a \in Action, RestoreJob(w, j, a)
      PROVE  StepIsSerial(w)
  BY <1>2, <1>5, <1>8 DEF RestoreJob, StepIsSerial
<1> QED
  BY <1>3, <1>4, <1>6, <1>7, <1>8 DEF Submit

(* With one request at a time the invariant is inductive, and every row    *)
(* makes a move of its lifecycle.                                          *)
LEMMA StepSerial ==
    ASSUME OneAtATime, TypeOK, SerialInv, [Next]_vars
    PROVE  /\ SerialInv'
           /\ \A r \in Row : RecordMove(rows[r], rows'[r])
<1>1. CASE UNCHANGED vars
  <2>1. \A r \in Row : Moved(rows[r], rows'[r])
    BY <1>1, UnmovedRow DEF vars, SerialInv, TypeOK
  <2> QED
    BY <1>1, <2>1 DEF vars, SerialInv, Moved, MemoryIsCurrent
<1>2. ASSUME NEW w \in Worker, StepIsSerial(w)
      PROVE  /\ SerialInv'
             /\ \A r \in Row : RecordMove(rows[r], rows'[r])
  <2>1. \A v \in Worker : v = w
    BY DEF OneAtATime
  <2>2. \A v \in Worker : MemoryIsCurrent(req[v])'
    BY <1>2, <2>1 DEF StepIsSerial
  <2> QED
    BY <1>2, <2>2 DEF SerialInv, StepIsSerial, Moved
<1>3. ASSUME NEW w \in Worker, Abort(w) PROVE StepIsSerial(w)
  <2>1. req'[w] = Idle /\ rows' = rows
    BY <1>3 DEF Abort, TypeOK
  <2>2. MemoryIsCurrent(req[w])'
    BY <2>1 DEF MemoryIsCurrent, Idle
  <2>3. \A r \in Row : Moved(rows[r], rows'[r])
    BY <2>1, UnmovedRow DEF SerialInv, TypeOK
  <2> QED
    BY <2>2, <2>3 DEF StepIsSerial
<1> QED
  BY <1>1, <1>2, <1>3, ContinueIsSerial, SubmitIsSerial DEF Next

(* The invariant holds of what an ingest left behind, where no row is      *)
(* resolved.                                                               *)
LEMMA InitSerial ==
    Init => SerialInv /\ \A r \in Row : rows[r].status # "processed"
<1> SUFFICES ASSUME Init
             PROVE  SerialInv /\ \A r \in Row : rows[r].status # "processed"
  OBVIOUS
<1>1. \A w \in Worker : req[w] = Idle
  BY DEF Init
<1>2. \A w \in Worker : MemoryIsCurrent(req[w])
  BY <1>1 DEF MemoryIsCurrent, Idle
<1>3. PICK raw \in [Row -> Ident \union {NoIdent}], cells \in [Row -> Cells],
           override \in [Row -> Overrides \union {NoIdent}],
           deleted \in SUBSET Row :
         LET table == [r \in Row |->
                        [Blank EXCEPT !.raw = raw[r], !.cells = cells[r],
                                      !.override = override[r],
                                      !.discarded = r \in deleted]]
         IN  /\ rows = [r \in Row |-> StagedRow(table, r)]
             /\ \A r \in Row \ deleted :
                   \/ Collides(table, r)
                   \/ ~Accepted(jobs, table[r], KindOf[BatchOf[r]])
  BY DEF Init
<1> DEFINE table == [r \in Row |->
                      [Blank EXCEPT !.raw = raw[r], !.cells = cells[r],
                                    !.override = override[r],
                                    !.discarded = r \in deleted]]
<1>4. ASSUME NEW r \in Row
      PROVE  rows[r].status # "processed" /\ rows[r].resolved = NoJob
  <2>1. rows[r] = StagedRow(table, r)
    BY <1>3
  <2>2. table[r] = [Blank EXCEPT !.raw = raw[r], !.cells = cells[r],
                                 !.override = override[r],
                                 !.discarded = r \in deleted]
    OBVIOUS
  <2> HIDE DEF table
  <2> QED
    BY <2>1, <2>2 DEF StagedRow, Blank
<1> QED
  BY <1>2, <1>4 DEF SerialInv, RowConsistent

(* As long as requests are served one at a time, whatever they are and     *)
(* wherever they die, every row keeps the lifecycle of RowLifecycle: a     *)
(* resolved row is final.                                                  *)
THEOREM SerialLifecycle ==
    ASSUME OneAtATime
    PROVE  Spec => ImplementsLifecycle
<1>1. Init => Lifecycle!Init
  <2>1. SUFFICES ASSUME Init PROVE Lifecycle!Init
    OBVIOUS
  <2>2. \A r \in Row : rows[r].status # "processed" /\ rows[r].resolved = NoJob
    BY <2>1, InitSerial DEF SerialInv, RowConsistent
  <2> QED
    BY <2>2 DEF Lifecycle!Init, RowState
<1>2. TypeOK /\ SerialInv /\ [Next]_vars => [Lifecycle!Next]_(Lifecycle!vars)
  <2>1. SUFFICES ASSUME TypeOK, SerialInv, [Next]_vars,
                        NEW r \in Row
                 PROVE  Lifecycle!RowStep(r)
    BY DEF Lifecycle!Next
  <2>2. RecordMove(rows[r], rows'[r])
    BY <2>1, StepSerial
  <2>3. SerialInv'
    BY <2>1, StepSerial
  <2> QED
    BY <2>1, <2>2, <2>3
    DEF Lifecycle!RowStep, RowState, RecordMove, SerialInv, RowConsistent
<1>3. TypeOK /\ SerialInv /\ [Next]_vars => SerialInv'
  BY StepSerial
<1> QED
  BY <1>1, <1>2, <1>3, InitTyped, InitSerial, StepTyped, PTL
  DEF Spec, ImplementsLifecycle, Lifecycle!Spec
-----------------------------------------------------------------------------
(* Every SHIPPED cell there is can be read.                                *)
AllReadable ==
    /\ \A r \in Row : rows[r].cells # "badship"
    /\ \A w \in Worker : req[w].seen.cells # "badship" /\ req[w].held.cells # "badship"

(* A row in error wrote no job, in use or discarded.                       *)
ErrorsWroteNothing ==
    \A r \in Row, j \in Job :
        rows[r].status = "error" /\ jobs[j].ident # NoIdent => jobs[j].writer # r

LEMMA FlushReadable ==
    ASSUME NEW x \in StagingRecord, NEW seen \in StagingRecord, NEW new \in StagingRecord,
           x.cells # "badship", new.cells # "badship"
    PROVE  /\ Flushed(x, seen, new) \in StagingRecord
           /\ Flushed(x, seen, new).cells # "badship"
<1>1. "cells" \in DOMAIN x
  BY DEF StagingRecord
<1> QED
  BY <1>1, FlushedRow

LEMMA ResumeReadable ==
    ASSUME TypeOK, AllReadable, NEW w \in Worker, NEW memory \in StagingRecord,
           memory.cells # "badship", NEW left, NEW joined, Resume(w, memory, left, joined)
    PROVE  \A v \in Worker :
              req'[v].seen.cells # "badship" /\ req'[v].held.cells # "badship"
<1>1. Idle.seen.cells = "invalid" /\ Idle.held.cells = "invalid"
  BY DEF Idle, Blank
<1> DEFINE next == [Idle EXCEPT !.pc = "survey", !.row = req[w].row, !.seen = memory,
                                !.left = left, !.joined = joined]
<1>2. next.seen = memory /\ next.held.cells = "invalid"
  BY <1>1 DEF Idle, Blank
<1>3. req'[w] = Idle \/ req'[w] = next
  BY DEF Resume, TypeOK
<1>4. \A v \in Worker : v # w => req'[v] = req[v]
  BY DEF Resume, TypeOK
<1> HIDE DEF next
<1> QED
  BY <1>1, <1>2, <1>3, <1>4 DEF AllReadable

LEMMA StepReadable ==
    ASSUME "badship" \notin Cells, TypeOK, AllReadable, [Next]_vars
    PROVE  AllReadable'
<1>1. CASE UNCHANGED vars
  BY <1>1 DEF vars, AllReadable
<1>2. ASSUME NEW w \in Worker, Continue(w) PROVE AllReadable'
  <2> DEFINE q == req[w]
  <2>0. /\ q \in Request /\ q.seen \in StagingRecord /\ q.held \in StagingRecord
        /\ q.seen.cells # "badship" /\ q.held.cells # "badship"
        /\ rows \in [Row -> StagingRecord] /\ \A r \in Row : rows[r].cells # "badship"
    BY DEF TypeOK, Request, AllReadable
  (* One row at most is written, from what the request holds.              *)
  <2>1. ASSUME NEW r, NEW seen \in StagingRecord, NEW new \in StagingRecord,
               new.cells = q.held.cells,
               rows' = [rows EXCEPT ![r] = Flushed(rows[r], seen, new)]
        PROVE  \A s \in Row : rows'[s].cells # "badship"
    <3>1. \A s \in Row : Flushed(rows[s], seen, new).cells # "badship"
      BY <2>0, <2>1, FlushReadable
    <3>2. \A s \in Row : rows'[s] = rows[s] \/ rows'[s] = Flushed(rows[s], seen, new)
      BY <2>0, <2>1
    <3> QED
      BY <2>0, <3>1, <3>2
  <2>2. CASE CorrectionErrored(w)
    <3> DEFINE new(s) == Flushed(s, q.seen, q.held)
    <3>1. /\ rows' = [rows EXCEPT ![q.row] =
                        [new(rows[q.row]) EXCEPT !.status = "error", !.key = NoIdent]]
          /\ Resume(w, [q.held EXCEPT !.key = NoIdent], q.seen.key, NoIdent)
      BY <2>2 DEF CorrectionErrored
    <3>2. \A s \in Row : /\ new(rows[s]) \in StagingRecord
                         /\ new(rows[s]).cells # "badship"
      BY <2>0, FlushReadable
    <3> HIDE DEF new
    <3>3. \A s \in Row : [new(rows[s]) EXCEPT !.status = "error", !.key = NoIdent].cells
                           # "badship"
      BY <3>2 DEF StagingRecord
    <3>4. \A s \in Row : rows'[s].cells # "badship"
      BY <2>0, <3>1, <3>3
    <3>5. /\ [q.held EXCEPT !.key = NoIdent] \in StagingRecord
          /\ [q.held EXCEPT !.key = NoIdent].cells # "badship"
      BY <2>0 DEF StagingRecord
    <3> QED
      BY <3>1, <3>4, <3>5, ResumeReadable DEF AllReadable
  <2>3. CASE CorrectionCollides(w)
    <3> DEFINE new(s) == Flushed(s, q.seen, q.held)
               left == IF q.seen.key = q.held.raw THEN NoIdent ELSE q.seen.key
    <3>1. /\ rows' = [rows EXCEPT ![q.row] =
                        [new(rows[q.row]) EXCEPT !.status = "error", !.key = q.held.raw,
                                                 !.resolved = NoJob]]
          /\ Resume(w, [q.held EXCEPT !.key = q.held.raw], left, q.held.raw)
      BY <2>3 DEF CorrectionCollides
    <3>2. \A s \in Row : /\ new(rows[s]) \in StagingRecord
                         /\ new(rows[s]).cells # "badship"
      BY <2>0, FlushReadable
    <3> HIDE DEF new, left
    <3>3. \A s \in Row : [new(rows[s]) EXCEPT !.status = "error", !.key = q.held.raw,
                                              !.resolved = NoJob].cells # "badship"
      BY <3>2 DEF StagingRecord
    <3>4. \A s \in Row : rows'[s].cells # "badship"
      BY <2>0, <3>1, <3>3
    <3>5. /\ [q.held EXCEPT !.key = q.held.raw] \in StagingRecord
          /\ [q.held EXCEPT !.key = q.held.raw].cells # "badship"
      BY <2>0 DEF StagingRecord
    <3> QED
      BY <3>1, <3>4, <3>5, ResumeReadable DEF AllReadable
  <2>4. CASE CorrectionProcessed(w)
    <3>1. PICK j \in TargetJobs(jobs, q.held) :
             LET done == [q.held EXCEPT !.status = "processed", !.key = NoIdent,
                                        !.resolved = j]
             IN  /\ rows' = [rows EXCEPT ![q.row] = Flushed(@, q.seen, done)]
                 /\ Resume(w, done, q.seen.key, NoIdent)
      BY <2>4 DEF CorrectionProcessed
    <3> DEFINE done == [q.held EXCEPT !.status = "processed", !.key = NoIdent,
                                      !.resolved = j]
    <3>2. j \in Job
      BY DEF TargetJobs, Free, ActiveAt
    <3>3. done \in StagingRecord /\ done.cells = q.held.cells
      BY <2>0, <3>2 DEF StagingRecord
    <3>4. /\ rows' = [rows EXCEPT ![q.row] = Flushed(rows[q.row], q.seen, done)]
          /\ Resume(w, done, q.seen.key, NoIdent)
      BY <3>1
    <3> HIDE DEF done
    <3> QED
      BY <2>0, <2>1, <3>3, <3>4, ResumeReadable DEF AllReadable
  <2>5. CASE CommitDiscard(w)
    <3> DEFINE gone == [q.held EXCEPT !.discarded = TRUE, !.key = NoIdent]
    <3>1. gone \in StagingRecord /\ gone.cells = q.held.cells
      BY <2>0 DEF StagingRecord
    <3>2. /\ rows' = [rows EXCEPT ![q.row] = Flushed(rows[q.row], q.seen, gone)]
          /\ Resume(w, gone, q.seen.key, NoIdent)
      BY <2>5 DEF CommitDiscard
    <3> HIDE DEF gone
    <3> QED
      BY <2>0, <2>1, <3>1, <3>2, ResumeReadable DEF AllReadable
  <2>6. CASE SurveyGroup(w)
    BY <2>0, <2>6, ResumeReadable DEF SurveyGroup, AllReadable
  <2>7. CASE SurveyLone(w)
    <3>1. PICK s \in Survivors(q) :
             req' = [req EXCEPT ![w].pc = "settle", ![w].lone = s,
                                ![w].held = IF s = q.row THEN q.seen ELSE rows[s],
                                ![w].left = NoIdent,
                                ![w].joined = Remaining(q)]
      BY <2>7 DEF SurveyLone
    <3>2. s \in Row
      BY DEF Survivors, Group
    <3>3. /\ req'[w].seen = q.seen
          /\ req'[w].held = IF s = q.row THEN q.seen ELSE rows[s]
          /\ \A v \in Worker : v # w => req'[v] = req[v]
      BY <2>0, <3>1 DEF TypeOK, Request
    <3> QED
      BY <2>0, <2>7, <3>2, <3>3 DEF SurveyLone, AllReadable
  <2>8. CASE SettleProcessed(w)
    <3>1. PICK j \in TargetJobs(jobs, q.held) :
             rows' = [rows EXCEPT ![q.lone] =
                        Flushed(@, q.held, [q.held EXCEPT !.key = NoIdent,
                                                          !.status = "processed",
                                                          !.resolved = j])]
      BY <2>8 DEF SettleProcessed
    <3> DEFINE done == [q.held EXCEPT !.key = NoIdent, !.status = "processed",
                                      !.resolved = j]
    <3>2. j \in Job
      BY DEF TargetJobs, Free, ActiveAt
    <3>3. done \in StagingRecord /\ done.cells = q.held.cells
      BY <2>0, <3>2 DEF StagingRecord
    <3>4. /\ rows' = [rows EXCEPT ![q.lone] = Flushed(rows[q.lone], q.held, done)]
          /\ Resume(w, q.seen, NoIdent, q.joined)
      BY <2>8, <3>1 DEF SettleProcessed
    <3> HIDE DEF done
    <3> QED
      BY <2>0, <2>1, <3>3, <3>4, ResumeReadable DEF AllReadable
  <2>9. CASE SettleErrored(w)
    <3> DEFINE new == [q.held EXCEPT !.key = NoIdent]
    <3>1. new \in StagingRecord /\ new.cells = q.held.cells
      BY <2>0 DEF StagingRecord
    <3>2. /\ rows' = [rows EXCEPT ![q.lone] = Flushed(rows[q.lone], q.held, new)]
          /\ Resume(w, q.seen, NoIdent, q.joined)
      BY <2>9 DEF SettleErrored
    <3> HIDE DEF new
    <3> QED
      BY <2>0, <2>1, <3>1, <3>2, ResumeReadable DEF AllReadable
  <2>10. ~SettleHalfWritten(w)
    BY <2>0 DEF SettleHalfWritten, RejectedLate
  <2> QED
    BY <1>2, <2>2, <2>3, <2>4, <2>5, <2>6, <2>7, <2>8, <2>9, <2>10 DEF Continue
<1>3. ASSUME NEW w \in Worker, Submit(w) PROVE AllReadable'
  <2>0. Idle.seen.cells = "invalid" /\ Idle.held.cells = "invalid"
    BY DEF Idle, Blank
  <2>1. ASSUME NEW r \in Row, NEW raw \in Ident \union {NoIdent},
               NEW cells \in Cells, BeginCorrection(w, r, raw, cells)
        PROVE  AllReadable'
    <3> DEFINE held == [rows[r] EXCEPT !.raw = raw, !.cells = cells, !.resolved = NoJob]
    <3>1. /\ rows' = rows
          /\ req' = [req EXCEPT ![w] = [Idle EXCEPT !.pc = "correct", !.row = r,
                                                    !.seen = rows[r], !.held = held]]
      BY <2>1 DEF BeginCorrection
    <3>2. held.cells # "badship"
      BY DEF TypeOK, StagingRecord
    <3> HIDE DEF held
    <3>3. req'[w].seen = rows[r] /\ req'[w].held = held
      BY <3>1 DEF TypeOK, Idle
    <3>4. \A v \in Worker : v # w => req'[v] = req[v]
      BY <3>1 DEF TypeOK
    <3> QED
      BY <3>1, <3>2, <3>3, <3>4 DEF AllReadable
  <2>2. ASSUME NEW r \in Row, BeginDiscard(w, r) PROVE AllReadable'
    <3>1. /\ rows' = rows
          /\ req' = [req EXCEPT ![w] = [Idle EXCEPT !.pc = "discard", !.row = r,
                                                    !.seen = rows[r], !.held = rows[r]]]
      BY <2>2 DEF BeginDiscard
    <3>3. req'[w].seen = rows[r] /\ req'[w].held = rows[r]
      BY <3>1 DEF TypeOK, Idle
    <3>4. \A v \in Worker : v # w => req'[v] = req[v]
      BY <3>1 DEF TypeOK
    <3> QED
      BY <3>1, <3>3, <3>4 DEF AllReadable
  <2>3. ASSUME NEW a \in Action
        PROVE  /\ AfterAction(a) \in [Row -> StagingRecord]
               /\ \A r \in Row : AfterAction(a)[r].cells # "badship"
    <3>1. AfterAction(a) \in [Row -> StagingRecord]
      BY AfterActionTyped DEF TypeOK
    <3>2. \A r \in Row : AfterAction(a)[r].cells = rows[r].cells
      BY DEF AfterAction, TypeOK, StagingRecord
    <3> QED
      BY <3>1, <3>2 DEF AllReadable
  <2>4. ASSUME NEW r \in Row, NEW a \in Action, RestoreRow(w, r, a)
        PROVE  AllReadable'
    <3>1. rows' = [AfterAction(a) EXCEPT ![r].discarded = FALSE] /\ req' = req
      BY <2>4 DEF RestoreRow
    <3>2. \A s \in Row : rows'[s].cells = AfterAction(a)[s].cells
      BY <2>3, <3>1 DEF StagingRecord
    <3> QED
      BY <2>3, <3>1, <3>2 DEF AllReadable
  <2>5. ASSUME NEW j \in Job, DiscardJob(w, j) PROVE AllReadable'
    BY <2>5 DEF DiscardJob, AllReadable
  <2>6. ASSUME NEW j \in Job, NEW a \in Action, RestoreJob(w, j, a)
        PROVE  AllReadable'
    BY <2>3, <2>6 DEF RestoreJob, AllReadable
  <2> QED
    BY <1>3, <2>1, <2>2, <2>4, <2>5, <2>6 DEF Submit
<1>4. ASSUME NEW w \in Worker, Abort(w) PROVE AllReadable'
  BY <1>4 DEF Abort, Idle, Blank, AllReadable, TypeOK
<1> QED
  BY <1>1, <1>2, <1>3, <1>4 DEF Next

(* A step that brings no row into error and writes no job leaves no new    *)
(* trace of one.                                                           *)
LEMMA QuietStep ==
    ASSUME TypeOK, ErrorsWroteNothing,
           \A r \in Row : rows'[r].status = "error" => rows[r].status = "error",
           \A j \in Job : /\ jobs'[j].ident = jobs[j].ident
                          /\ jobs'[j].writer = jobs[j].writer
    PROVE  ErrorsWroteNothing'
  BY DEF ErrorsWroteNothing

(* A row that resolves is the writer of its job, and not in error.         *)
LEMMA ResolvingStep ==
    ASSUME TypeOK, ErrorsWroteNothing, NEW r \in Row, NEW new \in StagingRecord,
           NEW row \in StagingRecord, NEW j \in Job,
           rows' = [rows EXCEPT ![r] = new], new.status = "processed",
           jobs' = WrittenJobs(jobs, row, r, j)
    PROVE  ErrorsWroteNothing'
<1>1. /\ rows'[r] = new /\ \A s \in Row : s # r => rows'[s] = rows[s]
  BY DEF TypeOK
<1>2. jobs'[j].writer = r /\ \A i \in Job : i # j => jobs'[i] = jobs[i]
  BY DEF TypeOK, WrittenJobs
<1> QED
  BY <1>1, <1>2 DEF ErrorsWroteNothing

LEMMA StepWroteNothing ==
    ASSUME TypeOK, SerialInv, AllReadable, ErrorsWroteNothing, [Next]_vars
    PROVE  ErrorsWroteNothing'
<1>1. CASE UNCHANGED vars
  BY <1>1 DEF vars, ErrorsWroteNothing
<1>2. ASSUME NEW w \in Worker, Continue(w) PROVE ErrorsWroteNothing'
  <2> DEFINE q == req[w]
  <2>0. /\ q \in Request /\ q.seen \in StagingRecord /\ q.held \in StagingRecord
        /\ rows \in [Row -> StagingRecord] /\ MemoryIsCurrent(q)
        /\ q.held.cells # "badship"
    BY DEF TypeOK, SerialInv, Request, AllReadable
  <2>a. ASSUME q.pc = "correct" \/ q.pc = "discard"
        PROVE  q.row \in Row /\ q.seen = rows[q.row] /\ rows[q.row].status = "error"
    BY <2>0, <2>a DEF MemoryIsCurrent, OpenError
  <2>b. ASSUME q.pc = "settle"
        PROVE  q.lone \in Row /\ q.held = rows[q.lone] /\ rows[q.lone].status = "error"
    BY <2>0, <2>b DEF MemoryIsCurrent, OpenError
  <2>1. ASSUME NEW r, rows[r].status = "error", NEW new, rows' = [rows EXCEPT ![r] = new],
               jobs' = jobs
        PROVE  ErrorsWroteNothing'
    <3>1. \A s \in Row : s # r => rows'[s] = rows[s]
      BY <2>0, <2>1
    <3> QED
      BY <2>1, <3>1, QuietStep
  <2>2. CASE CorrectionErrored(w)
    <3>1. q.pc = "correct" /\ jobs' = jobs
      BY <2>2 DEF CorrectionErrored
    <3>2. rows' = [rows EXCEPT ![q.row] =
                     [Flushed(rows[q.row], q.seen, q.held) EXCEPT !.status = "error",
                                                                  !.key = NoIdent]]
      BY <2>2 DEF CorrectionErrored
    <3> QED
      BY <2>a, <2>1, <3>1, <3>2
  <2>3. CASE CorrectionCollides(w)
    <3>1. q.pc = "correct" /\ jobs' = jobs
      BY <2>3 DEF CorrectionCollides
    <3>2. rows' = [rows EXCEPT ![q.row] =
                     [Flushed(rows[q.row], q.seen, q.held) EXCEPT !.status = "error",
                                                                  !.key = q.held.raw,
                                                                  !.resolved = NoJob]]
      BY <2>3 DEF CorrectionCollides
    <3> QED
      BY <2>a, <2>1, <3>1, <3>2
  <2>4. CASE CorrectionProcessed(w)
    <3>1. PICK j \in TargetJobs(jobs, q.held) :
             LET done == [q.held EXCEPT !.status = "processed", !.key = NoIdent,
                                        !.resolved = j]
             IN  /\ rows' = [rows EXCEPT ![q.row] = Flushed(@, q.seen, done)]
                 /\ jobs' = WrittenJobs(jobs, q.held, q.row, j)
      BY <2>4 DEF CorrectionProcessed
    <3> DEFINE done == [q.held EXCEPT !.status = "processed", !.key = NoIdent,
                                      !.resolved = j]
    <3>2. j \in Job /\ q.pc = "correct"
      BY <2>4 DEF TargetJobs, Free, ActiveAt, CorrectionProcessed
    <3>3. done \in StagingRecord /\ done.status = "processed"
      BY <2>0, <3>2 DEF StagingRecord
    <3>4. /\ rows' = [rows EXCEPT ![q.row] = Flushed(rows[q.row], q.seen, done)]
          /\ jobs' = WrittenJobs(jobs, q.held, q.row, j)
      BY <3>1
    <3> HIDE DEF done
    <3>5. rows' = [rows EXCEPT ![q.row] = done]
      BY <2>0, <2>a, <3>2, <3>3, <3>4, FlushOfCurrentRow
    <3> QED
      BY <2>0, <2>a, <3>2, <3>3, <3>4, <3>5, ResolvingStep
  <2>5. CASE CommitDiscard(w)
    <3> DEFINE gone == [q.held EXCEPT !.discarded = TRUE, !.key = NoIdent]
    <3>1. /\ rows' = [rows EXCEPT ![q.row] = Flushed(rows[q.row], q.seen, gone)]
          /\ q.pc = "discard" /\ jobs' = jobs
      BY <2>5 DEF CommitDiscard
    <3> HIDE DEF gone
    <3> QED
      BY <2>a, <2>1, <3>1
  <2>6. CASE SurveyGroup(w) \/ SurveyLone(w)
    BY <2>6 DEF SurveyGroup, SurveyLone, ErrorsWroteNothing
  <2>7. CASE SettleProcessed(w)
    <3>1. PICK j \in TargetJobs(jobs, q.held) :
             /\ jobs' = WrittenJobs(jobs, q.held, q.lone, j)
             /\ rows' = [rows EXCEPT ![q.lone] =
                           Flushed(@, q.held, [q.held EXCEPT !.key = NoIdent,
                                                             !.status = "processed",
                                                             !.resolved = j])]
      BY <2>7 DEF SettleProcessed
    <3> DEFINE done == [q.held EXCEPT !.key = NoIdent, !.status = "processed",
                                      !.resolved = j]
    <3>2. j \in Job /\ q.pc = "settle"
      BY <2>7 DEF TargetJobs, Free, ActiveAt, SettleProcessed
    <3>3. done \in StagingRecord /\ done.status = "processed"
      BY <2>0, <3>2 DEF StagingRecord
    <3>4. rows' = [rows EXCEPT ![q.lone] = Flushed(rows[q.lone], q.held, done)]
      BY <3>1
    <3> HIDE DEF done
    <3>5. rows' = [rows EXCEPT ![q.lone] = done]
      BY <2>0, <2>b, <3>2, <3>3, <3>4, FlushOfCurrentRow
    <3> QED
      BY <2>0, <2>b, <3>1, <3>2, <3>3, <3>5, ResolvingStep
  <2>8. CASE SettleErrored(w)
    <3> DEFINE new == Flushed(rows[q.lone], q.held, [q.held EXCEPT !.key = NoIdent])
    <3>1. rows' = [rows EXCEPT ![q.lone] = new] /\ q.pc = "settle" /\ jobs' = jobs
      BY <2>8 DEF SettleErrored
    <3> HIDE DEF new
    <3> QED
      BY <2>b, <2>1, <3>1
  <2>9. ~SettleHalfWritten(w)
    BY <2>0 DEF SettleHalfWritten, RejectedLate
  <2> QED
    BY <1>2, <2>2, <2>3, <2>4, <2>5, <2>6, <2>7, <2>8, <2>9 DEF Continue
<1>3. ASSUME NEW w \in Worker, Submit(w) PROVE ErrorsWroteNothing'
  <2>1. ASSUME NEW r \in Row, NEW raw, NEW cells, BeginCorrection(w, r, raw, cells)
        PROVE  ErrorsWroteNothing'
    BY <2>1 DEF BeginCorrection, ErrorsWroteNothing
  <2>2. ASSUME NEW r \in Row, BeginDiscard(w, r) PROVE ErrorsWroteNothing'
    BY <2>2 DEF BeginDiscard, ErrorsWroteNothing
  <2>3. ASSUME NEW a \in Action
        PROVE  /\ AfterAction(a) \in [Row -> StagingRecord]
               /\ \A r \in Row : AfterAction(a)[r].status = rows[r].status
    <3>1. \A r \in Row : AfterAction(a)[r].status = rows[r].status
      BY DEF AfterAction, TypeOK, StagingRecord
    <3> QED
      BY <3>1, AfterActionTyped DEF TypeOK
  <2>4. ASSUME NEW r \in Row, NEW a \in Action, RestoreRow(w, r, a)
        PROVE  ErrorsWroteNothing'
    <3>1. rows' = [AfterAction(a) EXCEPT ![r].discarded = FALSE] /\ jobs' = jobs
      BY <2>4 DEF RestoreRow
    <3>2. \A s \in Row : rows'[s].status = AfterAction(a)[s].status
      BY <2>3, <3>1 DEF StagingRecord
    <3> QED
      BY <2>3, <3>1, <3>2, QuietStep
  <2>5. ASSUME NEW j \in Job, DiscardJob(w, j) PROVE ErrorsWroteNothing'
    <3>1. /\ rows' = rows
          /\ \A i \in Job : jobs'[i].ident = jobs[i].ident /\ jobs'[i].writer = jobs[i].writer
      BY <2>5 DEF DiscardJob, TypeOK, JobRecord
    <3> QED
      BY <3>1, QuietStep
  <2>6. ASSUME NEW j \in Job, NEW a \in Action, RestoreJob(w, j, a)
        PROVE  ErrorsWroteNothing'
    <3>1. /\ rows' = AfterAction(a)
          /\ \A i \in Job : jobs'[i].ident = jobs[i].ident /\ jobs'[i].writer = jobs[i].writer
      BY <2>6 DEF RestoreJob, TypeOK, JobRecord
    <3> QED
      BY <2>3, <3>1, QuietStep
  <2> QED
    BY <1>3, <2>1, <2>2, <2>4, <2>5, <2>6 DEF Submit
<1>4. ASSUME NEW w \in Worker, Abort(w) PROVE ErrorsWroteNothing'
  BY <1>4 DEF Abort, ErrorsWroteNothing
<1> QED
  BY <1>1, <1>2, <1>3, <1>4 DEF Next

LEMMA InitWroteNothing ==
    ASSUME "badship" \notin Cells, Init
    PROVE  AllReadable /\ ErrorsWroteNothing
<1>1. \A j \in Job : jobs[j].ident # NoIdent => jobs[j].writer = NoRow
  <2> DEFINE Existing == [ident     : Ident,
                          status    : {"planned", "shipped"},
                          discarded : {FALSE},
                          writer    : {NoRow}]
  <2>1. jobs \in InitialJobs
    BY DEF Init
  <2>2. jobs \in [Job -> {Unused} \union Existing]
    BY <2>1 DEF InitialJobs
  <2>3. \A x \in {Unused} \union Existing : x.ident # NoIdent => x.writer = NoRow
    <3>1. Unused.ident = NoIdent
      BY DEF Unused
    <3>2. \A x \in Existing : x.writer = NoRow
      OBVIOUS
    <3> HIDE DEF Existing
    <3> QED
      BY <3>1, <3>2
  <2> HIDE DEF Existing
  <2> QED
    BY <2>2, <2>3
<1>2. ErrorsWroteNothing
  BY <1>1, NullsAreApart DEF ErrorsWroteNothing
<1>3. \A w \in Worker : req[w].seen.cells # "badship" /\ req[w].held.cells # "badship"
  BY DEF Init, Idle, Blank
<1>4. \A r \in Row : rows[r].cells # "badship"
  <2>1. PICK raw \in [Row -> Ident \union {NoIdent}], cells \in [Row -> Cells],
             override \in [Row -> Overrides \union {NoIdent}],
             deleted \in SUBSET Row :
           LET table == [r \in Row |->
                          [Blank EXCEPT !.raw = raw[r], !.cells = cells[r],
                                        !.override = override[r],
                                        !.discarded = r \in deleted]]
          IN  /\ rows = [r \in Row |-> StagedRow(table, r)]
              /\ \A r \in Row \ deleted :
                    \/ Collides(table, r)
                    \/ ~Accepted(jobs, table[r], KindOf[BatchOf[r]])
    BY DEF Init
  <2> DEFINE table == [s \in Row |->
                          [Blank EXCEPT !.raw = raw[s], !.cells = cells[s],
                                        !.override = override[s],
                                        !.discarded = s \in deleted]]
  <2>2. \A r \in Row : /\ "cells" \in DOMAIN table[r]
                       /\ table[r].cells = cells[r] /\ cells[r] \in Cells
    BY DEF Blank
  <2>3. \A r \in Row : rows[r] = StagedRow(table, r)
    BY <2>1
  <2> HIDE DEF table
  <2>4. \A r \in Row : StagedRow(table, r).cells = table[r].cells
    BY <2>2 DEF StagedRow
  <2> QED
    BY <2>2, <2>3, <2>4
<1> QED
  BY <1>2, <1>3, <1>4 DEF AllReadable

(* As long as SHIPPED can be read, no request leaves an active job behind  *)
(* that a row in error wrote, wherever it dies; a text that cannot be read *)
(* is what the run PhantomJobBySettle uses.                                *)
THEOREM OnlyUnreadableMakesPhantoms ==
    ASSUME OneAtATime, "badship" \notin Cells
    PROVE  Spec => []NoPhantomJob
<1> DEFINE Inv == TypeOK /\ SerialInv /\ AllReadable /\ ErrorsWroteNothing
<1>1. Init => Inv
  BY InitTyped, InitSerial, InitWroteNothing
<1>2. Inv /\ [Next]_vars => Inv'
  BY StepTyped, StepSerial, StepReadable, StepWroteNothing
<1>3. Inv => NoPhantomJob
  BY DEF NoPhantomJob, ErrorsWroteNothing, IsActive
<1> QED
  BY <1>1, <1>2, <1>3, PTL DEF Spec
-----------------------------------------------------------------------------
(* The duplicate group a row is in, if it is in one.                       *)
KeyOf(x) == IF IsGrouped(x) THEN x.key ELSE NoIdent

Alone(b, k) == \E s \in Row : Group(b, k) = {s}

NoneAlone == \A b \in Batch, k \in Ident : ~Alone(b, k)

(* Between two requests no row is alone in its group.  Once a request has  *)
(* written its row, the group that row left may have one member, and while *)
(* that one is settled it is alone in it.                                  *)
GroupsWait(q) ==
    /\ q.pc \in {"idle", "correct", "discard"} => NoneAlone
    /\ q.pc = "survey" =>
         /\ \A b \in Batch, k \in Ident : Alone(b, k) => b = BatchOf[q.row] /\ k = q.left
         /\ q.left # NoIdent => KeyOf(rows[q.row]) # q.left
    /\ q.pc = "settle" =>
         /\ Group(BatchOf[q.lone], KeyOf(rows[q.lone])) = {q.lone}
         /\ \A b \in Batch, k \in Ident :
              Alone(b, k) => b = BatchOf[q.lone] /\ k = KeyOf(rows[q.lone])

GroupsInv ==
    /\ \A r \in Row : rows[r].discarded => rows[r].key = NoIdent
    /\ \A w \in Worker : GroupsWait(req[w])
    /\ Worker = {} => NoneAlone
-----------------------------------------------------------------------------
LEMMA Members ==
    ASSUME NEW b, NEW k \in Ident, NEW r
    PROVE  r \in Group(b, k) <=> r \in Row /\ BatchOf[r] = b /\ KeyOf(rows[r]) = k
  BY NullsAreApart DEF Group, KeyOf, IsGrouped

LEMMA MembersNext ==
    ASSUME NEW b, NEW k \in Ident, NEW r
    PROVE  r \in Group(b, k)' <=> r \in Row /\ BatchOf[r] = b /\ KeyOf(rows'[r]) = k
  BY NullsAreApart DEF Group, KeyOf, IsGrouped

LEMMA AloneIsOne ==
    ASSUME IsFiniteSet(Row), NEW S \in SUBSET Row
    PROVE  Cardinality(S) = 1 <=> \E s \in Row : S = {s}
<1>1. IsFiniteSet(S)
  BY FS_Subset
<1> QED
  BY <1>1, FS_Singleton

(* Groups whose members stay as they are.                                  *)
LEMMA SameGroup ==
    ASSUME NEW b \in Batch, NEW k \in Ident,
           \A r \in Row : BatchOf[r] = b =>
              (KeyOf(rows'[r]) = k <=> KeyOf(rows[r]) = k)
    PROVE  Group(b, k)' = Group(b, k) /\ (Alone(b, k)' <=> Alone(b, k))
<1>1. Group(b, k)' = Group(b, k)
  BY Members, MembersNext
<1> QED
  BY <1>1 DEF Alone

(* What the request has left to do once it has committed.                  *)
LEMMA AfterResume ==
    ASSUME TypeOK, NEW w \in Worker, NEW memory, NEW left, NEW joined,
           Resume(w, memory, left, joined)
    PROVE  \/ req'[w].pc = "idle" /\ left = NoIdent
           \/ req'[w].pc = "survey" /\ req'[w].left = left /\ req'[w].row = req[w].row
  BY DEF TypeOK, Resume, Idle

(* A row that leaves its group, if it was in one, or resolves in none.     *)
LEMMA LeavingWrites ==
    ASSUME TypeOK, SerialInv, NEW w \in Worker,
           CorrectionErrored(w) \/ CorrectionProcessed(w) \/ CommitDiscard(w)
    PROVE  LET q == req[w] IN
           /\ q.row \in Row /\ OpenError(rows[q.row]) /\ q.seen = rows[q.row]
           /\ \E new \in StagingRecord :
                /\ rows' = [rows EXCEPT ![q.row] = new] /\ new.key = NoIdent
                /\ Resume(w, new, q.seen.key, NoIdent)
<1> DEFINE q == req[w]
<1>0. /\ q.seen \in StagingRecord /\ q.held \in StagingRecord
      /\ q.row \in Row /\ rows[q.row] \in StagingRecord /\ q.seen = rows[q.row]
      /\ OpenError(q.held) /\ OpenError(rows[q.row])
  BY DEF TypeOK, SerialInv, Request, MemoryIsCurrent, CorrectionErrored,
         CorrectionProcessed, CommitDiscard
<1>1. CASE CorrectionErrored(w)
  <2> DEFINE new == [q.held EXCEPT !.key = NoIdent]
  <2>1. Flushed(rows[q.row], q.seen, q.held) = q.held
    BY <1>0, FlushOfCurrentRow
  <2>2. [q.held EXCEPT !.status = "error", !.key = NoIdent] = new
    BY <1>0 DEF OpenError, StagingRecord
  <2>3. rows' = [rows EXCEPT ![q.row] = new] /\ Resume(w, new, q.seen.key, NoIdent)
    BY <1>1, <2>1, <2>2 DEF CorrectionErrored
  <2>4. new \in StagingRecord /\ new.key = NoIdent
    BY <1>0 DEF StagingRecord
  <2> QED
    BY <1>0, <2>3, <2>4
<1>2. CASE CorrectionProcessed(w)
  <2>1. PICK j \in TargetJobs(jobs, q.held) :
           LET done == [q.held EXCEPT !.status = "processed", !.key = NoIdent,
                                      !.resolved = j]
           IN  /\ rows' = [rows EXCEPT ![q.row] = Flushed(@, q.seen, done)]
               /\ Resume(w, done, q.seen.key, NoIdent)
    BY <1>2 DEF CorrectionProcessed
  <2> DEFINE new == [q.held EXCEPT !.status = "processed", !.key = NoIdent,
                                   !.resolved = j]
  <2>2. j \in Job
    BY DEF TargetJobs, Free, ActiveAt
  <2>3. new \in StagingRecord /\ new.key = NoIdent
    BY <1>0, <2>2 DEF StagingRecord
  <2>4. /\ rows' = [rows EXCEPT ![q.row] = Flushed(rows[q.row], q.seen, new)]
        /\ Resume(w, new, q.seen.key, NoIdent)
    BY <2>1
  <2> HIDE DEF new
  <2>5. Flushed(rows[q.row], q.seen, new) = new
    BY <1>0, <2>3, FlushOfCurrentRow
  <2> QED
    BY <1>0, <2>3, <2>4, <2>5
<1>3. CASE CommitDiscard(w)
  <2> DEFINE new == [q.held EXCEPT !.discarded = TRUE, !.key = NoIdent]
  <2>1. new \in StagingRecord /\ new.key = NoIdent
    BY <1>0 DEF StagingRecord
  <2>2. /\ rows' = [rows EXCEPT ![q.row] = Flushed(rows[q.row], q.seen, new)]
        /\ Resume(w, new, q.seen.key, NoIdent)
    BY <1>3 DEF CommitDiscard
  <2> HIDE DEF new
  <2>3. Flushed(rows[q.row], q.seen, new) = new
    BY <1>0, <2>1, FlushOfCurrentRow
  <2> QED
    BY <1>0, <2>1, <2>2, <2>3
<1> QED
  BY <1>1, <1>2, <1>3

(* A row that joins a group which has a member already.                    *)
LEMMA JoiningWrites ==
    ASSUME TypeOK, SerialInv, NEW w \in Worker, CorrectionCollides(w)
    PROVE  LET q == req[w]
               old == IF q.seen.key = q.held.raw THEN NoIdent ELSE q.seen.key IN
           /\ q.row \in Row /\ OpenError(rows[q.row]) /\ q.seen = rows[q.row]
           /\ q.held.raw \in Ident
           /\ Group(BatchOf[q.row], q.held.raw) \ {q.row} # {}
           /\ \E new \in StagingRecord :
                /\ rows' = [rows EXCEPT ![q.row] = new] /\ KeyOf(new) = q.held.raw
                /\ ~new.discarded /\ Resume(w, new, old, q.held.raw)
<1> DEFINE q == req[w]
           old == IF q.seen.key = q.held.raw THEN NoIdent ELSE q.seen.key
           new == [q.held EXCEPT !.key = q.held.raw]
<1>0. /\ q.seen \in StagingRecord /\ q.held \in StagingRecord
      /\ q.row \in Row /\ rows[q.row] \in StagingRecord /\ q.seen = rows[q.row]
      /\ OpenError(q.held) /\ OpenError(rows[q.row])
  BY DEF TypeOK, SerialInv, Request, MemoryIsCurrent, CorrectionCollides
<1>1. q.held.raw \in Ident
  BY <1>0 DEF CorrectionCollides, Accepted, RejectedEarly, EffectiveIdent, StagingRecord
<1>2. Group(BatchOf[q.row], q.held.raw) \ {q.row} # {}
  BY DEF CorrectionCollides, SiblingsAt
<1>3. Flushed(rows[q.row], q.seen, q.held) = q.held
  BY <1>0, FlushOfCurrentRow
<1>4. [q.held EXCEPT !.status = "error", !.key = q.held.raw, !.resolved = NoJob] = new
  BY <1>0 DEF OpenError, StagingRecord
<1>5. rows' = [rows EXCEPT ![q.row] = new] /\ Resume(w, new, old, q.held.raw)
  BY <1>3, <1>4 DEF CorrectionCollides
<1>6. new \in StagingRecord /\ ~new.discarded /\ KeyOf(new) = q.held.raw
  BY <1>0, <1>1, NullsAreApart DEF StagingRecord, OpenError, KeyOf, IsGrouped
<1> HIDE DEF new, old
<1> QED
  BY <1>0, <1>1, <1>2, <1>5, <1>6 DEF old

(* The lone member is ungrouped, whatever the transform makes of it.       *)
LEMMA SettlingWrites ==
    ASSUME TypeOK, SerialInv, NEW w \in Worker,
           SettleProcessed(w) \/ SettleErrored(w) \/ SettleHalfWritten(w)
    PROVE  LET q == req[w] IN
           /\ q.pc = "settle" /\ q.lone \in Row
           /\ Resume(w, q.seen, NoIdent, q.joined)
           /\ \E new \in StagingRecord :
                rows' = [rows EXCEPT ![q.lone] = new] /\ new.key = NoIdent
<1> DEFINE q == req[w]
<1>0. /\ q.pc = "settle" /\ Resume(w, q.seen, NoIdent, q.joined)
      /\ q.held \in StagingRecord /\ q.lone \in Row /\ rows[q.lone] = q.held
      /\ OpenError(q.held)
  BY DEF TypeOK, SerialInv, Request, MemoryIsCurrent, SettleProcessed,
         SettleErrored, SettleHalfWritten
<1>1. CASE SettleProcessed(w)
  <2>1. PICK j \in TargetJobs(jobs, q.held) :
           rows' = [rows EXCEPT ![q.lone] =
                      Flushed(@, q.held, [q.held EXCEPT !.key = NoIdent,
                                                        !.status = "processed",
                                                        !.resolved = j])]
    BY <1>1 DEF SettleProcessed
  <2> DEFINE new == [q.held EXCEPT !.key = NoIdent, !.status = "processed",
                                   !.resolved = j]
  <2>2. j \in Job
    BY DEF TargetJobs, Free, ActiveAt
  <2>3. new \in StagingRecord /\ new.key = NoIdent
    BY <1>0, <2>2 DEF StagingRecord
  <2>4. rows' = [rows EXCEPT ![q.lone] = Flushed(rows[q.lone], q.held, new)]
    BY <2>1
  <2> HIDE DEF new
  <2>5. Flushed(rows[q.lone], q.held, new) = new
    BY <1>0, <2>3, FlushOfCurrentRow
  <2> QED
    BY <1>0, <2>3, <2>4, <2>5
<1>2. CASE SettleErrored(w) \/ SettleHalfWritten(w)
  <2> DEFINE new == [q.held EXCEPT !.key = NoIdent]
  <2>1. new \in StagingRecord /\ new.key = NoIdent /\ new = [new EXCEPT !.status = "error"]
    BY <1>0 DEF StagingRecord, OpenError
  <2>2. \/ rows' = [rows EXCEPT ![q.lone] = Flushed(rows[q.lone], q.held, new)]
        \/ rows' = [rows EXCEPT ![q.lone] =
                      [Flushed(rows[q.lone], q.held, new) EXCEPT !.status = "error"]]
    BY <1>2 DEF SettleErrored, SettleHalfWritten
  <2> HIDE DEF new
  <2>3. Flushed(rows[q.lone], q.held, new) = new
    BY <1>0, <2>1, FlushOfCurrentRow
  <2> QED
    BY <1>0, <2>1, <2>2, <2>3
<1> QED
  BY <1>1, <1>2
-----------------------------------------------------------------------------
(* One row is written and the others keep their groups.                    *)
LEMMA OneRowWritten ==
    ASSUME TypeOK, NEW r \in Row, NEW new, rows' = [rows EXCEPT ![r] = new]
    PROVE  /\ rows'[r] = new /\ \A s \in Row : s # r => rows'[s] = rows[s]
           /\ \A b \in Batch, k \in Ident :
                b # BatchOf[r] \/ (k # KeyOf(rows[r]) /\ k # KeyOf(new)) =>
                  Group(b, k)' = Group(b, k) /\ (Alone(b, k)' <=> Alone(b, k))
<1>1. rows'[r] = new /\ \A s \in Row : s # r => rows'[s] = rows[s]
  BY DEF TypeOK
<1>2. ASSUME NEW b \in Batch, NEW k \in Ident,
             b # BatchOf[r] \/ (k # KeyOf(rows[r]) /\ k # KeyOf(new))
      PROVE  Group(b, k)' = Group(b, k) /\ (Alone(b, k)' <=> Alone(b, k))
  <2>1. \A s \in Row : BatchOf[s] = b => (KeyOf(rows'[s]) = k <=> KeyOf(rows[s]) = k)
    BY <1>1, <1>2
  <2> QED
    BY <2>1, SameGroup
<1> QED
  BY <1>1, <1>2

LEMMA LeavingWaits ==
    ASSUME TypeOK, SerialInv, GroupsInv, NEW w \in Worker,
           CorrectionErrored(w) \/ CorrectionProcessed(w) \/ CommitDiscard(w)
    PROVE  /\ \A r \in Row : rows'[r].discarded => rows'[r].key = NoIdent
           /\ GroupsWait(req[w])'
<1> DEFINE q == req[w]
<1>1. /\ q.row \in Row /\ OpenError(rows[q.row]) /\ q.seen = rows[q.row]
      /\ \E new \in StagingRecord :
           /\ rows' = [rows EXCEPT ![q.row] = new] /\ new.key = NoIdent
           /\ Resume(w, new, q.seen.key, NoIdent)
  BY LeavingWrites
<1>2. PICK new \in StagingRecord :
        /\ rows' = [rows EXCEPT ![q.row] = new] /\ new.key = NoIdent
        /\ Resume(w, new, q.seen.key, NoIdent)
  BY <1>1
<1>3. /\ rows'[q.row] = new /\ \A s \in Row : s # q.row => rows'[s] = rows[s]
      /\ \A b \in Batch, k \in Ident :
           b # BatchOf[q.row] \/ (k # KeyOf(rows[q.row]) /\ k # KeyOf(new)) =>
             (Alone(b, k)' <=> Alone(b, k))
  BY <1>1, <1>2, OneRowWritten
<1>4. KeyOf(new) = NoIdent /\ KeyOf(rows[q.row]) = q.seen.key
  BY <1>1, <1>2, NullsAreApart DEF KeyOf, IsGrouped, OpenError
<1>5. NoneAlone
  BY DEF GroupsInv, GroupsWait, CorrectionErrored, CorrectionProcessed, CommitDiscard
<1>6. \A b \in Batch, k \in Ident :
         Alone(b, k)' => b = BatchOf[q.row] /\ k = q.seen.key
  BY <1>3, <1>4, <1>5, NullsAreApart DEF NoneAlone
<1>7. \/ req'[w].pc = "idle" /\ q.seen.key = NoIdent
      \/ req'[w].pc = "survey" /\ req'[w].left = q.seen.key /\ req'[w].row = q.row
  BY <1>2, AfterResume
<1>8. \A r \in Row : rows'[r].discarded => rows'[r].key = NoIdent
  BY <1>2, <1>3 DEF GroupsInv
<1>9. CASE req'[w].pc = "idle" /\ q.seen.key = NoIdent
  BY <1>6, <1>8, <1>9, NullsAreApart DEF GroupsWait, NoneAlone
<1>10. CASE req'[w].pc = "survey" /\ req'[w].left = q.seen.key /\ req'[w].row = q.row
  BY <1>3, <1>4, <1>6, <1>8, <1>10 DEF GroupsWait
<1> QED
  BY <1>7, <1>9, <1>10

LEMMA JoiningWaits ==
    ASSUME TypeOK, SerialInv, GroupsInv, NEW w \in Worker, CorrectionCollides(w)
    PROVE  /\ \A r \in Row : rows'[r].discarded => rows'[r].key = NoIdent
           /\ GroupsWait(req[w])'
<1> DEFINE q == req[w]
           old == IF q.seen.key = q.held.raw THEN NoIdent ELSE q.seen.key
<1>1. /\ q.row \in Row /\ OpenError(rows[q.row]) /\ q.seen = rows[q.row]
      /\ q.held.raw \in Ident
      /\ Group(BatchOf[q.row], q.held.raw) \ {q.row} # {}
      /\ \E new \in StagingRecord :
           /\ rows' = [rows EXCEPT ![q.row] = new] /\ KeyOf(new) = q.held.raw
           /\ ~new.discarded /\ Resume(w, new, old, q.held.raw)
  BY JoiningWrites
<1>2. PICK new \in StagingRecord :
        /\ rows' = [rows EXCEPT ![q.row] = new] /\ KeyOf(new) = q.held.raw
        /\ ~new.discarded /\ Resume(w, new, old, q.held.raw)
  BY <1>1
<1>3. /\ rows'[q.row] = new /\ \A s \in Row : s # q.row => rows'[s] = rows[s]
      /\ \A b \in Batch, k \in Ident :
           b # BatchOf[q.row] \/ (k # KeyOf(rows[q.row]) /\ k # KeyOf(new)) =>
             (Alone(b, k)' <=> Alone(b, k))
  BY <1>1, <1>2, OneRowWritten
<1>4. KeyOf(rows[q.row]) = q.seen.key
  BY <1>1, NullsAreApart DEF KeyOf, IsGrouped, OpenError
<1>5. NoneAlone
  BY DEF GroupsInv, GroupsWait, CorrectionCollides
<1>6. ASSUME NEW b \in Batch, NEW k \in Ident, b = BatchOf[q.row], k = q.held.raw
      PROVE  ~Alone(b, k)'
  <2>1. PICK s \in Row : s # q.row /\ s \in Group(b, k)
    BY <1>1, <1>6 DEF Group
  <2>2. BatchOf[s] = b /\ KeyOf(rows'[s]) = k
    BY <1>3, <2>1, Members
  <2>3. s \in Group(b, k)'
    BY <2>2, MembersNext
  <2>4. BatchOf[q.row] = b /\ KeyOf(rows'[q.row]) = k /\ q.row \in Row
    BY <1>1, <1>2, <1>3, <1>6
  <2>5. q.row \in Group(b, k)'
    BY <2>4, MembersNext
  <2> QED
    BY <2>1, <2>3, <2>5 DEF Alone
<1>7. \A b \in Batch, k \in Ident :
         Alone(b, k)' => b = BatchOf[q.row] /\ k = old
  <2>1. SUFFICES ASSUME NEW b \in Batch, NEW k \in Ident, Alone(b, k)'
                 PROVE  b = BatchOf[q.row] /\ k = old
    OBVIOUS
  <2>2. b = BatchOf[q.row] /\ (k = q.seen.key \/ k = q.held.raw)
    BY <1>2, <1>3, <1>4, <1>5, <2>1 DEF NoneAlone
  <2>3. k # q.held.raw
    BY <1>6, <2>1, <2>2
  <2> QED
    BY <2>2, <2>3
<1> HIDE DEF old
<1>8. \/ req'[w].pc = "idle" /\ old = NoIdent
      \/ req'[w].pc = "survey" /\ req'[w].left = old /\ req'[w].row = q.row
  BY <1>2, AfterResume
<1>9. \A r \in Row : rows'[r].discarded => rows'[r].key = NoIdent
  BY <1>2, <1>3 DEF GroupsInv
<1>10. CASE req'[w].pc = "idle" /\ old = NoIdent
  BY <1>7, <1>9, <1>10, NullsAreApart DEF GroupsWait, NoneAlone
<1>11. CASE req'[w].pc = "survey" /\ req'[w].left = old /\ req'[w].row = q.row
  <2>1. old # NoIdent => old # q.held.raw
    BY DEF old
  <2> QED
    BY <1>2, <1>3, <1>7, <1>9, <1>11, <2>1 DEF GroupsWait
<1> QED
  BY <1>8, <1>10, <1>11

LEMMA SettlingWaits ==
    ASSUME TypeOK, SerialInv, GroupsInv, NEW w \in Worker,
           SettleProcessed(w) \/ SettleErrored(w) \/ SettleHalfWritten(w)
    PROVE  /\ \A r \in Row : rows'[r].discarded => rows'[r].key = NoIdent
           /\ GroupsWait(req[w])'
<1> DEFINE q == req[w]
<1>1. /\ q.pc = "settle" /\ q.lone \in Row
      /\ Resume(w, q.seen, NoIdent, q.joined)
      /\ \E new \in StagingRecord :
           rows' = [rows EXCEPT ![q.lone] = new] /\ new.key = NoIdent
  BY SettlingWrites
<1>2. PICK new \in StagingRecord :
        rows' = [rows EXCEPT ![q.lone] = new] /\ new.key = NoIdent
  BY <1>1
<1>3. /\ rows'[q.lone] = new /\ \A s \in Row : s # q.lone => rows'[s] = rows[s]
      /\ \A b \in Batch, k \in Ident :
           b # BatchOf[q.lone] \/ (k # KeyOf(rows[q.lone]) /\ k # KeyOf(new)) =>
             (Alone(b, k)' <=> Alone(b, k))
  BY <1>1, <1>2, OneRowWritten
<1>4. KeyOf(new) = NoIdent
  BY <1>2 DEF KeyOf
<1>5. /\ Group(BatchOf[q.lone], KeyOf(rows[q.lone])) = {q.lone}
      /\ \A b \in Batch, k \in Ident :
           Alone(b, k) => b = BatchOf[q.lone] /\ k = KeyOf(rows[q.lone])
  BY <1>1 DEF GroupsInv, GroupsWait
<1>6. NoneAlone'
  <2>1. SUFFICES ASSUME NEW b \in Batch, NEW k \in Ident PROVE ~Alone(b, k)'
    BY DEF NoneAlone
  <2>2. CASE b = BatchOf[q.lone] /\ k = KeyOf(rows[q.lone])
    <3>1. ASSUME NEW s \in Row PROVE s \notin Group(b, k)'
      <4>1. CASE s = q.lone
        BY <1>3, <1>4, <4>1, MembersNext, NullsAreApart
      <4>2. CASE s # q.lone
        BY <1>3, <1>5, <2>2, <4>2, Members, MembersNext
      <4> QED
        BY <4>1, <4>2
    <3> QED
      BY <3>1 DEF Alone
  <2>3. CASE ~(b = BatchOf[q.lone] /\ k = KeyOf(rows[q.lone]))
    BY <1>3, <1>4, <1>5, <2>3, NullsAreApart
  <2> QED
    BY <2>2, <2>3
<1>7. \/ req'[w].pc = "idle"
      \/ req'[w].pc = "survey" /\ req'[w].left = NoIdent
  BY <1>1, AfterResume
<1>8. \A r \in Row : rows'[r].discarded => rows'[r].key = NoIdent
  BY <1>2, <1>3 DEF GroupsInv
<1> QED
  BY <1>6, <1>7, <1>8 DEF GroupsWait, NoneAlone

LEMMA SurveyWaits ==
    ASSUME IsFiniteSet(Row), TypeOK, SerialInv, GroupsInv, NEW w \in Worker,
           SurveyGroup(w) \/ SurveyLone(w)
    PROVE  GroupsWait(req[w])'
<1> DEFINE q == req[w]
<1>1. /\ q.pc = "survey" /\ rows' = rows /\ q.row \in Row
      /\ q.left \in Ident \union {NoIdent} /\ q.joined \in Ident \union {NoIdent}
  BY DEF SurveyGroup, SurveyLone, TypeOK, Request, SerialInv, MemoryIsCurrent
<1>2. /\ \A b \in Batch, k \in Ident : Alone(b, k) => b = BatchOf[q.row] /\ k = q.left
      /\ q.left # NoIdent => KeyOf(rows[q.row]) # q.left
  BY <1>1 DEF GroupsInv, GroupsWait
<1>3. BatchOf[q.row] \in Batch
  BY <1>1, ReviewAssumption
<1>4. \A b \in Batch, k \in Ident : Alone(b, k)' <=> Alone(b, k)
  BY <1>1 DEF Alone, Group
(* Only the members of the group that was left count.                      *)
<1>5. CASE q.left # NoIdent
  <2>1. Survivors(q) = Group(BatchOf[q.row], q.left)
    BY <1>1, <1>2, <1>5, Members DEF Survivors, SurveyedKey
  <2>2. CASE SurveyGroup(w)
    <3>1. Cardinality(Group(BatchOf[q.row], q.left)) # 1
      BY <2>1, <2>2 DEF SurveyGroup
    <3>2. ~Alone(BatchOf[q.row], q.left)
      BY <3>1, AloneIsOne DEF Alone, Group
    <3>3. NoneAlone'
      BY <1>2, <1>4, <3>2 DEF NoneAlone
    <3>4. req'[w].pc = "idle" \/ (req'[w].pc = "survey" /\ req'[w].left = NoIdent)
      <4>1. Resume(w, q.seen, NoIdent, Remaining(q))
        BY <2>2 DEF SurveyGroup
      <4> QED
        BY <4>1, AfterResume
    <3> QED
      BY <3>3, <3>4 DEF GroupsWait, NoneAlone
  <2>3. CASE SurveyLone(w)
    <3>1. PICK s \in Survivors(q) :
             /\ Survivors(q) = {s}
             /\ req' = [req EXCEPT ![w].pc = "settle", ![w].lone = s,
                                   ![w].held = IF s = q.row THEN q.seen ELSE rows[s],
                                   ![w].left = NoIdent,
                                   ![w].joined = Remaining(q)]
      BY <2>3 DEF SurveyLone
    <3>2. req'[w].pc = "settle" /\ req'[w].lone = s
      BY <3>1 DEF TypeOK, Request
    <3>3. s \in Row /\ BatchOf[s] = BatchOf[q.row] /\ KeyOf(rows[s]) = q.left
      BY <1>1, <1>5, <2>1, Members
    <3>4. Group(BatchOf[s], KeyOf(rows[s]))' = {s}
      BY <1>1, <2>1, <3>1, <3>3 DEF Group
    <3> QED
      BY <1>1, <1>2, <1>4, <3>2, <3>3, <3>4 DEF GroupsWait
  <2> QED
    BY <2>2, <2>3
<1>6. CASE q.left = NoIdent
  <2>1. NoneAlone
    BY <1>2, <1>6, NullsAreApart DEF NoneAlone
  <2>2. ~SurveyLone(w)
    <3>1. SUFFICES ASSUME NEW s \in Survivors(q), Survivors(q) = {s} PROVE FALSE
      BY DEF SurveyLone
    <3>2. Survivors(q) = Group(BatchOf[q.row], q.joined) /\ s \in Row
      BY <1>6 DEF Survivors, SurveyedKey, Group
    <3>3. q.joined \in Ident
      BY <1>1, <3>1, <3>2 DEF Group, IsGrouped
    <3> QED
      BY <1>3, <2>1, <3>1, <3>2, <3>3 DEF NoneAlone, Alone
  <2>3. req'[w].pc = "idle" \/ (req'[w].pc = "survey" /\ req'[w].left = NoIdent)
    <3>1. Resume(w, q.seen, NoIdent, Remaining(q))
      BY <2>2 DEF SurveyGroup
    <3> QED
      BY <3>1, AfterResume
  <2> QED
    BY <1>4, <2>1, <2>3 DEF GroupsWait, NoneAlone
<1> QED
  BY <1>5, <1>6

(* What changes neither a group nor a row that is discarded leaves an idle *)
(* thread's groups as they are.                                            *)
LEMMA GroupsUntouched ==
    ASSUME NEW w \in Worker, GroupsWait(req[w]),
           req[w].pc = "idle", req'[w].pc \in {"idle", "correct", "discard"},
           \A r \in Row : KeyOf(rows'[r]) = KeyOf(rows[r])
    PROVE  GroupsWait(req[w])'
<1>1. \A b \in Batch, k \in Ident : Alone(b, k)' <=> Alone(b, k)
  BY SameGroup
<1> QED
  BY <1>1 DEF GroupsWait, NoneAlone

LEMMA SubmitWaits ==
    ASSUME "discard" \notin RestoreActions, TypeOK, GroupsInv,
           NEW w \in Worker, Submit(w)
    PROVE  /\ \A r \in Row : rows'[r].discarded => rows'[r].key = NoIdent
           /\ GroupsWait(req[w])'
<1>0. /\ rows \in [Row -> StagingRecord] /\ GroupsWait(req[w])
      /\ \A r \in Row : rows[r].discarded => rows[r].key = NoIdent
  BY DEF TypeOK, GroupsInv
<1>1. ASSUME rows' = rows, req[w].pc = "idle", req'[w].pc \in {"idle", "correct", "discard"}
      PROVE  /\ \A r \in Row : rows'[r].discarded => rows'[r].key = NoIdent
             /\ GroupsWait(req[w])'
  BY <1>0, <1>1, GroupsUntouched
<1>2. ASSUME NEW a \in Action
      PROVE  /\ AfterAction(a) \in [Row -> StagingRecord]
             /\ \A r \in Row : /\ AfterAction(a)[r].discarded = rows[r].discarded
                               /\ AfterAction(a)[r].key = rows[r].key
                               /\ AfterAction(a)[r].status = rows[r].status
                               /\ KeyOf(AfterAction(a)[r]) = KeyOf(rows[r])
  <2>1. a.kind # "discard"
    BY DEF Action, NoAction
  <2>2. AfterAction(a) \in [Row -> StagingRecord]
    BY AfterActionTyped DEF TypeOK
  <2>3. \A r \in Row : /\ AfterAction(a)[r].discarded = rows[r].discarded
                       /\ AfterAction(a)[r].key = rows[r].key
                       /\ AfterAction(a)[r].status = rows[r].status
    BY <1>0, <2>1 DEF AfterAction, StagingRecord
  <2> QED
    BY <2>2, <2>3 DEF KeyOf, IsGrouped
<1>3. ASSUME NEW r \in Row, NEW raw, NEW cells, BeginCorrection(w, r, raw, cells)
      PROVE  /\ \A s \in Row : rows'[s].discarded => rows'[s].key = NoIdent
             /\ GroupsWait(req[w])'
  <2>1. rows' = rows /\ req[w].pc = "idle" /\ req'[w].pc = "correct"
    BY <1>3 DEF BeginCorrection, TypeOK, Idle
  <2> QED
    BY <1>1, <2>1
<1>4. ASSUME NEW r \in Row, BeginDiscard(w, r)
      PROVE  /\ \A s \in Row : rows'[s].discarded => rows'[s].key = NoIdent
             /\ GroupsWait(req[w])'
  <2>1. rows' = rows /\ req[w].pc = "idle" /\ req'[w].pc = "discard"
    BY <1>4 DEF BeginDiscard, TypeOK, Idle
  <2> QED
    BY <1>1, <2>1
(* A row that comes back comes back without a group.                       *)
<1>5. ASSUME NEW r \in Row, NEW a \in Action, RestoreRow(w, r, a)
      PROVE  /\ \A s \in Row : rows'[s].discarded => rows'[s].key = NoIdent
             /\ GroupsWait(req[w])'
  <2>1. /\ rows' = [AfterAction(a) EXCEPT ![r].discarded = FALSE]
        /\ rows[r].discarded /\ req' = req /\ req[w].pc = "idle"
    BY <1>5 DEF RestoreRow
  <2> DEFINE mid == AfterAction(a)
  <2>2. /\ mid \in [Row -> StagingRecord]
        /\ \A s \in Row : mid[s].discarded = rows[s].discarded /\ mid[s].key = rows[s].key
        /\ \A s \in Row : KeyOf(mid[s]) = KeyOf(rows[s])
    BY <1>2
  <2>3. rows' = [mid EXCEPT ![r].discarded = FALSE]
    BY <2>1
  <2> HIDE DEF mid
  <2>4. rows'[r] = [mid[r] EXCEPT !.discarded = FALSE] /\ \A s \in Row : s # r => rows'[s] = mid[s]
    BY <2>2, <2>3
  <2>5. rows'[r].key = NoIdent /\ ~rows'[r].discarded
    BY <1>0, <2>1, <2>2, <2>4 DEF StagingRecord
  <2>6. KeyOf(rows'[r]) = NoIdent /\ KeyOf(rows[r]) = NoIdent
    BY <1>0, <2>1, <2>5 DEF KeyOf
  <2>7. \A s \in Row : KeyOf(rows'[s]) = KeyOf(rows[s])
    BY <2>2, <2>4, <2>6
  <2>8. GroupsWait(req[w])'
    BY <1>0, <2>1, <2>7, GroupsUntouched
  <2> QED
    BY <1>0, <2>2, <2>4, <2>5, <2>8
<1>6. ASSUME NEW j \in Job, DiscardJob(w, j)
      PROVE  /\ \A s \in Row : rows'[s].discarded => rows'[s].key = NoIdent
             /\ GroupsWait(req[w])'
  BY <1>1, <1>6 DEF DiscardJob
<1>7. ASSUME NEW j \in Job, NEW a \in Action, RestoreJob(w, j, a)
      PROVE  /\ \A s \in Row : rows'[s].discarded => rows'[s].key = NoIdent
             /\ GroupsWait(req[w])'
  <2>1. rows' = AfterAction(a) /\ req' = req /\ req[w].pc = "idle"
    BY <1>7 DEF RestoreJob
  <2>2. GroupsWait(req[w])'
    BY <1>0, <1>2, <2>1, GroupsUntouched
  <2> QED
    BY <1>0, <1>2, <2>1, <2>2
<1> QED
  BY <1>3, <1>4, <1>5, <1>6, <1>7 DEF Submit

LEMMA StepGroups ==
    ASSUME OneAtATime, ~MayFail, "discard" \notin RestoreActions, IsFiniteSet(Row),
           TypeOK, SerialInv, GroupsInv, [Next]_vars
    PROVE  GroupsInv'
<1>1. CASE UNCHANGED vars
  <2>1. rows' = rows /\ req' = req
    BY <1>1 DEF vars
  <2>2. \A b \in Batch, k \in Ident : Alone(b, k)' <=> Alone(b, k)
    BY <2>1, SameGroup
  <2>3. ASSUME NEW w \in Worker PROVE GroupsWait(req[w])'
    BY <2>1, <2>2 DEF GroupsInv, GroupsWait, NoneAlone, Group
  <2>4. Worker = {} => NoneAlone'
    BY <2>2 DEF GroupsInv, NoneAlone
  <2> QED
    BY <2>1, <2>3, <2>4 DEF GroupsInv
<1>2. ASSUME NEW w \in Worker, Continue(w) \/ Submit(w)
      PROVE  GroupsInv'
  <2>1. /\ \A r \in Row : rows'[r].discarded => rows'[r].key = NoIdent
        /\ GroupsWait(req[w])'
    <3>1. CASE SurveyGroup(w) \/ SurveyLone(w)
      <4>1. rows' = rows
        BY <3>1 DEF SurveyGroup, SurveyLone
      <4> QED
        BY <3>1, <4>1, SurveyWaits DEF GroupsInv
    <3> QED
      BY <1>2, <3>1, LeavingWaits, JoiningWaits, SettlingWaits, SubmitWaits DEF Continue
  <2>2. \A v \in Worker : v = w
    BY DEF OneAtATime
  <2> QED
    BY <2>1, <2>2 DEF GroupsInv
<1> QED
  BY <1>1, <1>2 DEF Next, Abort

(* An ingest groups the rows that collide, and collision takes two.        *)
LEMMA InitGroups ==
    ASSUME Init
    PROVE  GroupsInv
<1>1. PICK raw \in [Row -> Ident \union {NoIdent}], cells \in [Row -> Cells],
           override \in [Row -> Overrides \union {NoIdent}],
           deleted \in SUBSET Row :
         LET table == [r \in Row |->
                        [Blank EXCEPT !.raw = raw[r], !.cells = cells[r],
                                      !.override = override[r],
                                      !.discarded = r \in deleted]]
         IN  /\ rows = [r \in Row |-> StagedRow(table, r)]
             /\ \A r \in Row \ deleted :
                   \/ Collides(table, r)
                   \/ ~Accepted(jobs, table[r], KindOf[BatchOf[r]])
  BY DEF Init
<1> DEFINE table == [r \in Row |->
                      [Blank EXCEPT !.raw = raw[r], !.cells = cells[r],
                                    !.override = override[r],
                                    !.discarded = r \in deleted]]
<1>2. ASSUME NEW r \in Row
      PROVE  /\ table[r].key = NoIdent /\ table[r].status = "pending"
             /\ {"status", "key"} \subseteq DOMAIN table[r]
             /\ table[r].discarded \in BOOLEAN
             /\ rows[r] = StagedRow(table, r)
  <2>1. table[r] = [Blank EXCEPT !.raw = raw[r], !.cells = cells[r],
                                 !.override = override[r],
                                 !.discarded = r \in deleted]
    OBVIOUS
  <2>2. (r \in deleted) \in BOOLEAN
    OBVIOUS
  <2>3. rows[r] = StagedRow(table, r)
    BY <1>1
  <2> HIDE DEF table
  <2> QED
    BY <2>1, <2>2, <2>3 DEF Blank
<1>3. ASSUME NEW r \in Row
      PROVE  EffectiveIdent(table[r]) \in Ident \union {NoIdent}
  <2>1. table[r] = [Blank EXCEPT !.raw = raw[r], !.cells = cells[r],
                                 !.override = override[r],
                                 !.discarded = r \in deleted]
    OBVIOUS
  <2>2. table[r].raw = raw[r] /\ table[r].override = override[r]
    BY <2>1 DEF Blank
  <2> HIDE DEF table
  <2> QED
    BY <2>2, ReviewAssumption DEF EffectiveIdent
<1> HIDE DEF table
<1>4. ASSUME NEW r \in Row
      PROVE  /\ rows[r].discarded => rows[r].key = NoIdent
             /\ KeyOf(rows[r]) = IF ~table[r].discarded /\ Collides(table, r)
                                 THEN EffectiveIdent(table[r]) ELSE NoIdent
  <2>1. CASE table[r].discarded
    <3>1. rows[r] = table[r]
      BY <1>2, <2>1 DEF StagedRow
    <3> QED
      BY <1>2, <2>1, <3>1 DEF KeyOf
  <2>2. CASE ~table[r].discarded
    <3> DEFINE key == IF Collides(table, r) THEN EffectiveIdent(table[r]) ELSE NoIdent
    <3>1. rows[r] = [table[r] EXCEPT !.status = "error", !.key = key]
      BY <1>2, <2>2 DEF StagedRow
    <3> HIDE DEF key
    <3>2. rows[r].status = "error" /\ rows[r].key = key /\ ~rows[r].discarded
      BY <1>2, <2>2, <3>1
    <3> QED
      BY <2>2, <3>2 DEF KeyOf, IsGrouped, key
  <2> QED
    BY <1>2, <2>1, <2>2
<1>5. NoneAlone
  <2>1. SUFFICES ASSUME NEW b \in Batch, NEW k \in Ident, NEW r \in Row,
                        r \in Group(b, k)
                 PROVE  \E s \in Row : s # r /\ s \in Group(b, k)
    BY DEF NoneAlone, Alone
  <2>2. /\ BatchOf[r] = b /\ ~table[r].discarded /\ Collides(table, r)
        /\ EffectiveIdent(table[r]) = k
    BY <1>4, <2>1, Members, NullsAreApart
  <2>3. PICK s \in Row \ {r} : /\ BatchOf[s] = BatchOf[r] /\ ~table[s].discarded
                               /\ EffectiveIdent(table[s]) = EffectiveIdent(table[r])
    BY <2>2 DEF Collides
  <2>4. Collides(table, s)
    BY <2>2, <2>3, NullsAreApart DEF Collides
  <2>5. KeyOf(rows[s]) = k
    BY <1>4, <2>2, <2>3, <2>4
  <2> QED
    BY <2>2, <2>3, <2>5, Members
<1>6. \A w \in Worker : req[w].pc = "idle"
  BY DEF Init, Idle
<1> QED
  BY <1>4, <1>5, <1>6 DEF GroupsInv, GroupsWait

(* With one request at a time, that is not interrupted between two of its  *)
(* commits and brings no discard along with a restore, no duplicate group  *)
(* is left with a single member, whatever is corrected, discarded and      *)
(* restored.                                                               *)
THEOREM NobodyLeftAlone ==
    ASSUME OneAtATime, ~MayFail, "discard" \notin RestoreActions, IsFiniteSet(Row)
    PROVE  Spec => []NoLoneMember
<1> DEFINE Inv == TypeOK /\ SerialInv /\ GroupsInv
<1>1. Init => Inv
  BY InitTyped, InitSerial, InitGroups
<1>2. Inv /\ [Next]_vars => Inv'
  BY StepTyped, StepSerial, StepGroups
<1>3. Inv => NoLoneMember
  <2>1. SUFFICES ASSUME Inv, \A w \in Worker : req[w].pc = "idle",
                        NEW b \in Batch, NEW k \in Ident, Cardinality(Group(b, k)) = 1
                 PROVE  FALSE
    BY DEF NoLoneMember
  <2>2. Alone(b, k)
    BY <2>1, AloneIsOne DEF Alone, Group
  <2> QED
    BY <2>1, <2>2 DEF GroupsInv, GroupsWait, NoneAlone
<1> QED
  BY <1>1, <1>2, <1>3, PTL DEF Spec
=============================================================================
