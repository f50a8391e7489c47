----------------------------- MODULE SecondOps -----------------------------
(***************************************************************************)
(* The 2nd OPS record of a job (services/second_ops.py), and the requests  *)
(* that open and close it: the rows an ingest writes and the record it     *)
(* carries over from a discarded job (transform.py), the sweep (ingest.py),*)
(* and discard, restore and History edit of a job (services/jobs.py).      *)
(*                                                                         *)
(* The driver opens a transaction at the first write, so what a request    *)
(* read before is not protected: ReadJob keeps it in req[w].seen, and the  *)
(* flush writes only the columns that differ from it.  From the flush on   *)
(* the request holds the database's write lock, and the rest of it, with   *)
(* the check for colliding jobs and the commit, is one action.             *)
(*                                                                         *)
(* An identity is a pair of columns, <<part, suffix>>; the other three are *)
(* equal, and one of them NULL, for which the unique index of the table    *)
(* lets any two rows be.  A PUT is known by the tick of the clock it is    *)
(* stamped with: its lines are {n} or {}, its note n or 0 (none).          *)
(***************************************************************************)
EXTENDS Naturals, FiniteSets

CONSTANTS
    MaxJobs,    \* bound on the rows of the table jobs
    Part,       \* part numbers
    NoPart,     \* the id is not in use
    Suffix,     \* split suffixes
    NoSuffix,   \* the blank one, NULL in the table
    Worker,     \* request threads; a singleton is one request at a time
    MaxTicks    \* bound on the PUTs and discards that take a timestamp

ASSUME TableAssumption ==
    /\ MaxJobs \in Nat
    /\ MaxTicks \in Nat
    /\ NoPart \notin Part
    /\ NoSuffix \in Suffix

VARIABLES
    jobs,       \* the tables jobs and job_second_ops_lines
    req,        \* what each request has read
    clock,      \* the time, one tick per timestamp taken
    past        \* history: what happened to the jobs, for the properties

vars == <<jobs, req, clock, past>>

Job == 1 .. MaxJobs
Tick == 0 .. MaxTicks
Ident == Part \X Suffix

(* discarded and reviewed are timestamps, 0 for NULL.                      *)
Audit == [lines : SUBSET Tick, note : Tick, reviewed : Tick]

JobRecord ==
    [part : Part \union {NoPart}, suffix : Suffix,
     status : {"planned", "shipped"}, discarded : Tick, audit : Audit]

Unaudited == [lines |-> {}, note |-> 0, reviewed |-> 0]

Unused == [part |-> NoPart, suffix |-> NoSuffix,
           status |-> "planned", discarded |-> 0, audit |-> Unaudited]

Operation == {"put", "discard", "restore", "edit"}

(* seen: the columns of the row as it was read that the request uses once  *)
(* it writes; the blank values for those it does not.                      *)
Seen == [part : Part \union {NoPart}, suffix : Suffix, note : Tick]

Unread == [part |-> NoPart, suffix |-> NoSuffix, note |-> 0]

Request == [op : Operation \union {"idle"}, job : Job \union {0}, seen : Seen]

Idle == [op |-> "idle", job |-> 0, seen |-> Unread]

(* mistaken: jobs left under another identity than the one checked.        *)
(* late: jobs audited or discarded after they had been closed.             *)
(* moved: identities of jobs an operator restored or edited.               *)
TypeOK ==
    /\ jobs \in [Job -> JobRecord]
    /\ req \in [Worker -> Request]
    /\ clock \in Tick
    /\ past \in [mistaken : SUBSET Job, late : SUBSET Job, moved : SUBSET Ident]

Init ==
    /\ jobs = [j \in Job |-> Unused]
    /\ req = [w \in Worker |-> Idle]
    /\ clock = 0
    /\ past = [mistaken |-> {}, late |-> {}, moved |-> {}]
-----------------------------------------------------------------------------
InUse(row) == row.part # NoPart

IsActive(row) == InUse(row) /\ row.discarded = 0

(* identity_key_for_job.                                                   *)
Key(row) == <<row.part, row.suffix>>

ActiveAt(key) == {j \in Job : IsActive(jobs[j]) /\ Key(jobs[j]) = key}

(* Mutant of Colliders: only shipped jobs are looked at.                   *)
ShippedColliders(j, key) == {k \in ActiveAt(key) \ {j} : jobs[k].status = "shipped"}

(* find_active_job_with_identity, and the live colliders of a restore.     *)
Colliders(j, key) == ActiveAt(key) \ {j}

(* The planned jobs on the grid.                                           *)
IsPlanned(row) == IsActive(row) /\ row.status = "planned"

(* resolve_write_guard; nothing sets superseded_at.                        *)
Writable(row) == row.discarded = 0 /\ row.status # "shipped"

(* What a handler refuses right after reading the row.                     *)
Admitted(op, row) ==
    CASE op = "put"     -> Writable(row)
      [] op = "discard" -> row.discarded = 0
      [] op = "restore" -> row.discarded # 0
      [] op = "edit"    -> row.discarded = 0 /\ row.status = "shipped"

Read(op, row) ==
    CASE op = "put"               -> [Unread EXCEPT !.note = row.audit.note]
      [] op = "discard"           -> Unread
      [] op \in {"restore", "edit"} -> [Unread EXCEPT !.part = row.part,
                                                     !.suffix = row.suffix]

Finish(w) == req' = [req EXCEPT ![w] = Idle]

ReadJob(w, op, j) ==
    /\ req[w] = Idle
    /\ InUse(jobs[j])
    /\ Admitted(op, jobs[j])
    /\ req' = [req EXCEPT ![w] = [op |-> op, job |-> j, seen |-> Read(op, jobs[j])]]
    /\ UNCHANGED <<jobs, clock, past>>

(* A refused value, a collision, a database error or a crash: the          *)
(* transaction, or the savepoint of a PUT, is rolled back.                 *)
Fail(w) ==
    /\ req[w] # Idle
    /\ Finish(w)
    /\ UNCHANGED <<jobs, clock, past>>
-----------------------------------------------------------------------------
(* replace_second_ops: the lines are deleted and inserted, the note is     *)
(* written if it is not the one that was read, the stamp is always new.    *)
Replaced(stored, seen, n, lines, note) ==
    [lines    |-> lines,
     note     |-> IF note # seen.note THEN note ELSE stored.note,
     reviewed |-> n]

PutRecord(w, pasted, noted) ==
    LET j == req[w].job
        n == clock + 1
    IN  /\ req[w].op = "put"
        /\ n \in Tick
        /\ clock' = n
        /\ jobs' = [jobs EXCEPT ![j].audit =
                       Replaced(@, req[w].seen, n,
                                IF pasted THEN {n} ELSE {},
                                IF noted THEN n ELSE 0)]
        /\ past' = [past EXCEPT !.late = IF IsPlanned(jobs[j]) THEN @ ELSE @ \union {j}]
        /\ Finish(w)

(* discard_job.  The time is taken just before the flush in the code.      *)
DiscardJob(w) ==
    /\ req[w].op = "discard"
    /\ clock + 1 \in Tick
    /\ clock' = clock + 1
    /\ jobs' = [jobs EXCEPT ![req[w].job].discarded = clock + 1]
    /\ past' = [past EXCEPT !.late = IF IsActive(jobs[req[w].job]) THEN @
                                    ELSE @ \union {req[w].job}]
    /\ Finish(w)

(* The flush left job j under the identity key though another was checked. *)
Marked(j, stored, checked) ==
    [past EXCEPT !.moved = @ \union {Key(jobs[j]), stored},
                 !.mistaken = IF stored = checked THEN @ ELSE @ \union {j}]

(* restore_job_with_actions without actions on staging rows.  Colliding    *)
(* staging rows refuse it as well, which is a Fail here.                   *)
RestoreJob(w) ==
    LET j == req[w].job
        checked == Key(req[w].seen)
    IN  /\ req[w].op = "restore"
        /\ Colliders(j, checked) = {}
        /\ jobs' = [jobs EXCEPT ![j].discarded = 0]
        /\ past' = Marked(j, Key(jobs[j]), checked)
        /\ Finish(w)
        /\ UNCHANGED clock

(* edit_history_job: part and suffix are the columns as the request leaves *)
(* them in memory, the ones it does not send as they were read.            *)
EditJob(w, part, suffix) ==
    LET j == req[w].job
        seen == req[w].seen
        row == [jobs[j] EXCEPT !.part = IF part # seen.part THEN part ELSE @,
                               !.suffix = IF suffix # seen.suffix THEN suffix ELSE @]
    IN  /\ req[w].op = "edit"
        /\ Colliders(j, <<part, suffix>>) = {}
        /\ jobs' = [jobs EXCEPT ![j] = row]
        /\ past' = Marked(j, Key(row), <<part, suffix>>)
        /\ Finish(w)
        /\ UNCHANGED clock
-----------------------------------------------------------------------------
(* The donors of carry_forward_second_ops, and the one it takes: the most  *)
(* recently discarded, the greatest id among equals.                       *)
Donors(key) ==
    {k \in Job : /\ InUse(jobs[k])
                 /\ Key(jobs[k]) = key
                 /\ jobs[k].discarded # 0
                 /\ jobs[k].audit.reviewed # 0}

Later(k, i) == \/ jobs[k].discarded > jobs[i].discarded
               \/ jobs[k].discarded = jobs[i].discarded /\ k >= i

(* Mutant of CarriedAudit: the record stays on the discarded job.          *)
NoCarry(key) == Unaudited

CarriedAudit(key) ==
    IF Donors(key) = {} THEN Unaudited
    ELSE jobs[CHOOSE k \in Donors(key) : \A i \in Donors(key) : Later(k, i)].audit

(* The database gives a new row the id after the last.                     *)
NewId == 1 + Cardinality({j \in Job : InUse(jobs[j])})

ShippedBy(dated) == IF dated THEN "shipped" ELSE "planned"

(* transform_staging_row of an accepted row that has no active job.        *)
InsertJob(w, part, suffix, dated) ==
    /\ req[w] = Idle
    /\ ActiveAt(<<part, suffix>>) = {}
    /\ NewId \in Job
    /\ jobs' = [jobs EXCEPT ![NewId] =
                   [part |-> part, suffix |-> suffix, status |-> ShippedBy(dated),
                    discarded |-> 0, audit |-> CarriedAudit(<<part, suffix>>)]]
    /\ UNCHANGED <<req, clock, past>>

(* ... and of one that has: a date ships the job, a blank cell of a live   *)
(* workbook un-ships it.  scalar_one_or_none raises if there are several.  *)
UpdateJob(w, part, suffix, dated) ==
    /\ req[w] = Idle
    /\ \E j \in Job :
          /\ ActiveAt(<<part, suffix>>) = {j}
          /\ jobs' = [jobs EXCEPT ![j].status = ShippedBy(dated)]
    /\ UNCHANGED <<req, clock, past>>

(* sweep_missing_planned_jobs: the planned jobs a live workbook does not   *)
(* list are discarded with one timestamp.                                  *)
Sweep(w, missing) ==
    /\ req[w] = Idle
    /\ missing # {}
    /\ \A j \in missing : IsPlanned(jobs[j])
    /\ clock + 1 \in Tick
    /\ clock' = clock + 1
    /\ jobs' = [j \in Job |-> IF j \in missing
                              THEN [jobs[j] EXCEPT !.discarded = clock + 1]
                              ELSE jobs[j]]
    /\ UNCHANGED <<req, past>>

Ingest(w) ==
    \/ \E part \in Part, suffix \in Suffix, dated \in BOOLEAN :
          InsertJob(w, part, suffix, dated) \/ UpdateJob(w, part, suffix, dated)
    \/ \E missing \in SUBSET Job : Sweep(w, missing)

Handle(w) ==
    \/ \E op \in Operation, j \in Job : ReadJob(w, op, j)
    \/ \E pasted, noted \in BOOLEAN : PutRecord(w, pasted, noted)
    \/ DiscardJob(w)
    \/ RestoreJob(w)
    \/ \E part \in Part, suffix \in Suffix : EditJob(w, part, suffix)
    \/ Fail(w)

Next == \E w \in Worker : Ingest(w) \/ Handle(w)

Spec == Init /\ [][Next]_vars
-----------------------------------------------------------------------------
(* However requests race, two active jobs come to share an identity only   *)
(* if a flush left one of them under an identity nobody had checked: the   *)
(* lookup of an ingest and the checks that follow a flush are safe.        *)
TwinsAreMistaken ==
    /\ TypeOK
    /\ \A i, j \in Job : /\ IsActive(jobs[i]) /\ IsActive(jobs[j])
                         /\ Key(jobs[i]) = Key(jobs[j])
                         => i = j \/ {i, j} \cap past.mistaken # {}

Kin(j) == {k \in Job : InUse(jobs[k]) /\ Key(jobs[k]) = Key(jobs[j])}

(* An operator restored or edited a job of this identity, or a request     *)
(* wrote one that had been closed since it read it.                        *)
Disturbed(j) == Key(jobs[j]) \in past.moved \/ Kin(j) \cap past.late # {}

(* No review is lost when a job is swept and comes back under a new id,    *)
(* any number of times, with PUTs in between: the active job has the last  *)
(* review of its identity, unless that was disturbed.                      *)
LastReviewCarried ==
    \A j \in Job : IsActive(jobs[j]) /\ ~Disturbed(j)
        => \A k \in Kin(j) : jobs[k].audit.reviewed <= jobs[j].audit.reviewed
=============================================================================
