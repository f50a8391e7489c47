-------------------------- MODULE SecondOpsProofs --------------------------
(***************************************************************************)
(* What TLAPS proves of SecondOps, for any number of jobs, identities and  *)
(* racing requests:                                                        *)
(*   - the state is well typed, and active jobs share an identity only if  *)
(*     one of them was flushed under an identity nobody had checked        *)
(*     (OnlyMistakesMakeTwins);                                            *)
(*   - no review is lost when jobs are swept and come back                 *)
(*     (ReviewsAreCarried).                                                *)
(***************************************************************************)
EXTENDS SecondOps, FiniteSetTheorems, WellFoundedInduction, TLAPS

(* The ids in use are the first n.                                         *)
IdsInOrder == \E n \in 0 .. MaxJobs : \A j \in Job : InUse(jobs[j]) <=> j <= n

(* A request that has read a job was given one that is in the table.       *)
RequestsKnowTheirJob ==
    \A w \in Worker : req[w].op # "idle" =>
        req[w].job \in Job /\ InUse(jobs[req[w].job])

TableInv == TypeOK /\ IdsInOrder /\ RequestsKnowTheirJob

-----------------------------------------------------------------------------
(* Lemmas on the operators the actions are built from.                     *)

Less == {p \in Nat \X Nat : p[1] < p[2]}

(* A set of numbers has a least element.                                   *)
LEMMA Least ==
    ASSUME NEW S, S \subseteq Nat, S # {}
    PROVE  \E m \in S : \A i \in S : m <= i
<1>1. IsWellFoundedOn(Less, Nat)
  BY NatLessThanWellFounded DEF OpToRel, Less
<1>2. PICK m \in S : \A i \in S : ~(<<i, m>> \in Less)
  BY <1>1, WFMin, Zenon
<1>3. ASSUME NEW i \in S, i < m PROVE FALSE
  <2>1. <<i, m>> \in Nat \X Nat /\ <<i, m>>[1] < <<i, m>>[2]
    BY <1>3
  <2> QED
    BY <1>2, <2>1, Zenon DEF Less
<1>4. \A i \in S : m <= i
  BY <1>3
<1> QED
  BY <1>4

(* A set of numbers up to a bound has a greatest element.                  *)
LEMMA Greatest ==
    ASSUME NEW N \in Nat, NEW S, S \subseteq 0 .. N, S # {}
    PROVE  \E m \in S : \A i \in S : i <= m
<1> DEFINE T == {n \in 0 .. N : N - n \in S}
<1>1. T \subseteq Nat
  OBVIOUS
<1>2. \A i \in S : N - i \in T
  <2>1. \A i \in S : N - i \in 0 .. N /\ N - (N - i) = i
    OBVIOUS
  <2> QED
    BY <2>1
<1>3. T # {}
  BY <1>2
<1>4. \A n \in T : N - n \in S
  OBVIOUS
<1> HIDE DEF T
<1>5. PICK t \in T : \A u \in T : t <= u
  BY <1>1, <1>3, Least
<1>6. \A i \in S : i <= N - t
  <2> TAKE i \in S
  <2>1. t <= N - i
    BY <1>2, <1>5
  <2> QED
    BY <1>1, <2>1
<1> QED
  BY <1>4, <1>6

(* The donor taken is one, and none was discarded after it.                *)
LEMMA LatestDonor ==
    ASSUME TypeOK, NEW key, Donors(key) # {}
    PROVE  \E k \in Donors(key) :
             /\ CarriedAudit(key) = jobs[k].audit
             /\ \A i \in Donors(key) : Later(k, i)
<1> USE TableAssumption
<1> DEFINE D == Donors(key)
           Times == {jobs[k].discarded : k \in D}
<1>1. D \subseteq Job /\ \A k \in D : jobs[k].discarded \in Nat
  BY DEF TypeOK, Donors, JobRecord, Tick
<1>2. Times \subseteq 0 .. MaxTicks /\ Times # {}
  <2>1. \A k \in D : jobs[k].discarded \in 0 .. MaxTicks
    BY DEF TypeOK, Donors, JobRecord, Tick
  <2>2. D # {}
    OBVIOUS
  <2> HIDE DEF D
  <2> QED
    BY <2>1, <2>2
<1>3. PICK t \in Times : \A u \in Times : u <= t
  BY <1>2, Greatest
<1> DEFINE L == {k \in D : jobs[k].discarded = t}
<1>4. L \subseteq 0 .. MaxJobs /\ L # {}
  BY <1>1, <1>3 DEF Job
<1>5. PICK m \in L : \A i \in L : i <= m
  BY <1>4, Greatest
<1>6. \A i \in D : Later(m, i)
  <2> TAKE i \in D
  <2>1. jobs[i].discarded <= jobs[m].discarded
    BY <1>3, <1>5
  <2>2. jobs[i].discarded = jobs[m].discarded => m >= i
    BY <1>1, <1>4, <1>5
  <2> QED
    BY <1>1, <2>1, <2>2 DEF Later
<1> DEFINE c == CHOOSE k \in D : \A i \in D : Later(k, i)
<1>7. c \in D /\ \A i \in D : Later(c, i)
  BY <1>5, <1>6
<1> QED
  BY <1>7 DEF CarriedAudit

(* The record carried over is one.                                         *)
LEMMA CarriedIsAudit ==
    ASSUME TypeOK, NEW key
    PROVE  CarriedAudit(key) \in Audit
<1> USE TableAssumption
<1>1. CASE Donors(key) = {}
  BY <1>1 DEF CarriedAudit, Unaudited, Audit, Tick
<1>2. CASE Donors(key) # {}
  <2>1. PICK k \in Donors(key) : CarriedAudit(key) = jobs[k].audit
    BY <1>2, LatestDonor
  <2> QED
    BY <2>1 DEF Donors, TypeOK, JobRecord
<1> QED
  BY <1>1, <1>2

(* The new row's id was not in use, and is above all that were.            *)
LEMMA NewIdIsNext ==
    ASSUME TypeOK, IdsInOrder
    PROVE  /\ NewId \in Nat
           /\ \A j \in Job : InUse(jobs[j]) <=> j < NewId
<1> USE TableAssumption
<1>1. PICK n \in 0 .. MaxJobs : \A j \in Job : InUse(jobs[j]) <=> j <= n
  BY DEF IdsInOrder
<1>2. {j \in Job : InUse(jobs[j])} = 1 .. n
  BY <1>1 DEF Job
<1>3. Cardinality(1 .. n) = n
  BY FS_Interval
<1>4. Cardinality({j \in Job : InUse(jobs[j])}) = n
  BY <1>2, <1>3
<1>5. NewId = n + 1
  BY <1>4 DEF NewId
<1> QED
  BY <1>1, <1>5 DEF Job

-----------------------------------------------------------------------------
(* The table.                                                              *)

(* The table starts empty.                                                 *)
LEMMA InitTable == Init => TableInv
<1> USE TableAssumption
<1> SUFFICES ASSUME Init PROVE TableInv
  OBVIOUS
<1>1. Unused \in JobRecord
  BY DEF Unused, JobRecord, Unaudited, Audit, Tick
<1>2. Idle \in Request
  BY DEF Idle, Request, Unread, Seen, Tick
<1>3. TypeOK
  BY <1>1, <1>2 DEF Init, TypeOK, Tick
<1>4. IdsInOrder
  <2>1. \A j \in Job : ~InUse(jobs[j])
    BY DEF Init, Unused, InUse
  <2> QED
    BY <2>1 DEF IdsInOrder, Job
<1>5. RequestsKnowTheirJob
  BY DEF Init, Idle, RequestsKnowTheirJob
<1> QED
  BY <1>3, <1>4, <1>5 DEF TableInv

(* A step that keeps the ids in use keeps the other parts of TableInv.     *)
LEMMA SameIds ==
    ASSUME TableInv, TypeOK',
           \A j \in Job : InUse(jobs'[j]) <=> InUse(jobs[j]),
           NEW w \in Worker, req' = req \/ Finish(w)
    PROVE  TableInv'
<1>1. IdsInOrder'
  BY DEF TableInv, IdsInOrder, InUse
<1>2. RequestsKnowTheirJob'
  <2> SUFFICES ASSUME NEW v \in Worker, req'[v].op # "idle"
               PROVE  req'[v].job \in Job /\ InUse(jobs'[req'[v].job])
    BY DEF RequestsKnowTheirJob, InUse
  <2>1. req'[v] = req[v]
    BY DEF TableInv, TypeOK, Finish, Idle
  <2> QED
    BY <2>1 DEF TableInv, RequestsKnowTheirJob
<1> QED
  BY <1>1, <1>2 DEF TableInv

(* Reading a job leaves the table alone.                                   *)
LEMMA ReadTable ==
    ASSUME TableInv, NEW w \in Worker, NEW op \in Operation, NEW j \in Job,
           ReadJob(w, op, j)
    PROVE  TableInv'
<1> USE TableAssumption
<1>1. jobs[j] \in JobRecord
  BY DEF TableInv, TypeOK
<1>2. Read(op, jobs[j]) \in Seen
  <2>1. CASE op = "put"
    BY <1>1, <2>1 DEF Read, Seen, Unread, JobRecord, Audit, Tick
  <2>2. CASE op = "discard"
    BY <2>2 DEF Read, Seen, Unread, Tick
  <2>3. CASE op \in {"restore", "edit"}
    <3>1. Read(op, jobs[j]) = [Unread EXCEPT !.part = jobs[j].part,
                                             !.suffix = jobs[j].suffix]
      BY <2>3 DEF Read
    <3>2. jobs[j].part \in Part \union {NoPart} /\ jobs[j].suffix \in Suffix
      BY <1>1 DEF JobRecord
    <3>3. Read(op, jobs[j]) = [part |-> jobs[j].part, suffix |-> jobs[j].suffix,
                               note |-> 0]
      BY <3>1 DEF Unread
    <3> QED
      BY <3>2, <3>3 DEF Seen, Tick
  <2> QED
    BY <2>1, <2>2, <2>3 DEF Operation
<1> DEFINE q == [op |-> op, job |-> j, seen |-> Read(op, jobs[j])]
<1>3. q \in Request
  BY <1>2 DEF Request
<1>4. req' = [req EXCEPT ![w] = q] /\ UNCHANGED <<jobs, clock, past>> /\ InUse(jobs[j])
  BY DEF ReadJob
<1> HIDE DEF q
<1>5. TypeOK'
  BY <1>3, <1>4 DEF TableInv, TypeOK
<1>6. IdsInOrder'
  BY <1>4 DEF TableInv, IdsInOrder
<1>7. RequestsKnowTheirJob'
  <2> SUFFICES ASSUME NEW v \in Worker, req'[v].op # "idle"
               PROVE  req'[v].job \in Job /\ InUse(jobs[req'[v].job])
    BY <1>4 DEF RequestsKnowTheirJob
  <2>1. CASE v = w
    BY <1>4, <2>1 DEF TableInv, TypeOK, q
  <2>2. CASE v # w
    BY <1>4, <2>2 DEF TableInv, TypeOK, RequestsKnowTheirJob
  <2> QED
    BY <2>1, <2>2
<1> QED
  BY <1>5, <1>6, <1>7 DEF TableInv

(* The end of a request leaves the requests well typed.                    *)
LEMMA FinishTyped ==
    ASSUME TypeOK, NEW w \in Worker, Finish(w)
    PROVE  req' \in [Worker -> Request]
BY TableAssumption DEF TypeOK, Finish, Idle, Request, Unread, Seen, Tick

(* A PUT writes a record and takes a timestamp.                            *)
LEMMA PutTable ==
    ASSUME TableInv, NEW w \in Worker, NEW pasted \in BOOLEAN, NEW noted \in BOOLEAN,
           PutRecord(w, pasted, noted)
    PROVE  TableInv'
<1> USE TableAssumption
<1> DEFINE j == req[w].job
           n == clock + 1
           a == Replaced(jobs[j].audit, req[w].seen, n,
                         IF pasted THEN {n} ELSE {}, IF noted THEN n ELSE 0)
<1>1. j \in Job /\ n \in Tick /\ jobs[j] \in JobRecord
  BY DEF PutRecord, TableInv, TypeOK, RequestsKnowTheirJob
<1>2. a \in Audit
  BY <1>1 DEF Replaced, Audit, JobRecord, Tick
<1>3. jobs' = [jobs EXCEPT ![j].audit = a]
  BY DEF PutRecord
<1>4. clock' = n /\ Finish(w)
      /\ past' = [past EXCEPT !.late = IF IsPlanned(jobs[j]) THEN @ ELSE @ \union {j}]
  BY DEF PutRecord
<1> HIDE DEF a, n, j
<1>5. jobs' \in [Job -> JobRecord]
  BY <1>1, <1>2, <1>3 DEF TableInv, TypeOK, JobRecord
<1>6. past' \in [mistaken : SUBSET Job, late : SUBSET Job, moved : SUBSET Ident]
  BY <1>1, <1>4 DEF TableInv, TypeOK
<1>7. TypeOK'
  BY <1>1, <1>4, <1>5, <1>6, FinishTyped DEF TableInv, TypeOK
<1>8. \A i \in Job : InUse(jobs'[i]) <=> InUse(jobs[i])
  BY <1>3 DEF TableInv, TypeOK, InUse, JobRecord
<1> QED
  BY <1>4, <1>7, <1>8, SameIds

(* A discard stamps its job.                                               *)
LEMMA DiscardTable ==
    ASSUME TableInv, NEW w \in Worker, DiscardJob(w)
    PROVE  TableInv'
<1> USE TableAssumption
<1> DEFINE j == req[w].job
<1>1. j \in Job
  BY DEF DiscardJob, TableInv, RequestsKnowTheirJob
<1>2. /\ clock' \in Tick /\ Finish(w)
      /\ jobs' = [jobs EXCEPT ![j].discarded = clock']
      /\ past' = [past EXCEPT !.late = IF IsActive(jobs[j]) THEN @ ELSE @ \union {j}]
  BY DEF DiscardJob
<1> HIDE DEF j
<1>3. jobs' \in [Job -> JobRecord]
  BY <1>1, <1>2 DEF TableInv, TypeOK, JobRecord
<1>4. past' \in [mistaken : SUBSET Job, late : SUBSET Job, moved : SUBSET Ident]
  BY <1>1, <1>2 DEF TableInv, TypeOK
<1>5. TypeOK'
  BY <1>2, <1>3, <1>4, FinishTyped DEF TableInv, TypeOK
<1>6. \A i \in Job : InUse(jobs'[i]) <=> InUse(jobs[i])
  BY <1>2 DEF TableInv, TypeOK, InUse, JobRecord
<1> QED
  BY <1>2, <1>5, <1>6, SameIds

(* A restore leaves the key of its job, an edit gives it one of Ident.     *)
LEMMA RestoreTable ==
    ASSUME TableInv, NEW w \in Worker, RestoreJob(w)
    PROVE  TableInv'
<1> DEFINE j == req[w].job
<1>1. j \in Job /\ InUse(jobs[j]) /\ jobs[j] \in JobRecord
  BY DEF RestoreJob, TableInv, TypeOK, RequestsKnowTheirJob
<1>2. /\ clock' = clock /\ Finish(w)
      /\ jobs' = [jobs EXCEPT ![j].discarded = 0]
      /\ past' = Marked(j, Key(jobs[j]), Key(req[w].seen))
  BY DEF RestoreJob
<1> HIDE DEF j
<1>3. jobs' \in [Job -> JobRecord]
  BY <1>1, <1>2, TableAssumption DEF TableInv, TypeOK, JobRecord, Tick
<1>4. Key(jobs[j]) \in Ident
  BY <1>1 DEF JobRecord, InUse, Key, Ident
<1>5. past' \in [mistaken : SUBSET Job, late : SUBSET Job, moved : SUBSET Ident]
  BY <1>1, <1>2, <1>4 DEF TableInv, TypeOK, Marked
<1>6. TypeOK'
  BY <1>2, <1>3, <1>5, FinishTyped DEF TableInv, TypeOK
<1>7. \A i \in Job : InUse(jobs'[i]) <=> InUse(jobs[i])
  BY <1>2 DEF TableInv, TypeOK, InUse, JobRecord
<1> QED
  BY <1>2, <1>6, <1>7, SameIds

Edited(row, seen, part, suffix) ==
    [row EXCEPT !.part = IF part # seen.part THEN part ELSE @,
                !.suffix = IF suffix # seen.suffix THEN suffix ELSE @]

LEMMA EditTable ==
    ASSUME TableInv, NEW w \in Worker, NEW part \in Part, NEW suffix \in Suffix,
           EditJob(w, part, suffix)
    PROVE  TableInv'
<1> DEFINE j == req[w].job
           row == Edited(jobs[j], req[w].seen, part, suffix)
<1>1. j \in Job /\ InUse(jobs[j]) /\ jobs[j] \in JobRecord
  BY DEF EditJob, TableInv, TypeOK, RequestsKnowTheirJob
<1>2. /\ clock' = clock /\ Finish(w)
      /\ jobs' = [jobs EXCEPT ![j] = row]
      /\ past' = Marked(j, Key(row), <<part, suffix>>)
  BY DEF EditJob, Edited
<1>3. row \in JobRecord /\ InUse(row)
  BY <1>1, TableAssumption DEF JobRecord, InUse, Edited
<1> HIDE DEF j, row
<1>4. jobs' \in [Job -> JobRecord]
  BY <1>1, <1>2, <1>3 DEF TableInv, TypeOK
<1>5. Key(jobs[j]) \in Ident /\ Key(row) \in Ident
  BY <1>1, <1>3 DEF JobRecord, InUse, Key, Ident
<1>6. past' \in [mistaken : SUBSET Job, late : SUBSET Job, moved : SUBSET Ident]
  BY <1>1, <1>2, <1>5 DEF TableInv, TypeOK, Marked
<1>7. TypeOK'
  BY <1>2, <1>4, <1>6, FinishTyped DEF TableInv, TypeOK
<1>8. \A i \in Job : InUse(jobs'[i]) <=> InUse(jobs[i])
  BY <1>1, <1>2, <1>3 DEF TableInv, TypeOK
<1> QED
  BY <1>2, <1>7, <1>8, SameIds

(* A new job takes the next id.                                            *)
LEMMA InsertTable ==
    ASSUME TableInv, NEW w \in Worker, NEW part \in Part, NEW suffix \in Suffix,
           NEW dated \in BOOLEAN, InsertJob(w, part, suffix, dated)
    PROVE  TableInv'
<1> DEFINE row == [part |-> part, suffix |-> suffix, status |-> ShippedBy(dated),
                   discarded |-> 0, audit |-> CarriedAudit(<<part, suffix>>)]
<1>1. NewId \in Job /\ jobs' = [jobs EXCEPT ![NewId] = row]
      /\ UNCHANGED <<req, clock, past>>
  BY DEF InsertJob
<1>2. row \in JobRecord /\ InUse(row)
  BY CarriedIsAudit, TableAssumption DEF TableInv, JobRecord, InUse, ShippedBy, Tick
<1> HIDE DEF row
<1>3. TypeOK'
  BY <1>1, <1>2 DEF TableInv, TypeOK
<1>4. \A j \in Job : InUse(jobs'[j]) <=> j <= NewId
  <2>1. NewId \in Nat /\ \A j \in Job : InUse(jobs[j]) <=> j < NewId
    BY NewIdIsNext DEF TableInv
  <2>2. \A j \in Job : j \in Nat
    BY TableAssumption DEF Job
  <2>3. \A j \in Job : jobs'[j] = IF j = NewId THEN row ELSE jobs[j]
    BY <1>1 DEF TableInv, TypeOK
  <2> QED
    BY <1>2, <2>1, <2>2, <2>3
<1>5. IdsInOrder'
  <2>1. NewId \in 0 .. MaxJobs
    BY <1>1, TableAssumption DEF Job
  <2> DEFINE n == NewId
  <2>2. n \in 0 .. MaxJobs /\ \A j \in Job : InUse(jobs'[j]) <=> j <= n
    BY <1>4, <2>1
  <2> HIDE DEF n
  <2> QED
    BY <2>2 DEF IdsInOrder, InUse
<1>6. RequestsKnowTheirJob'
  BY <1>1, <1>2 DEF TableInv, TypeOK, RequestsKnowTheirJob, InUse
<1> QED
  BY <1>3, <1>5, <1>6 DEF TableInv

(* An ingest of a known job writes its status.                             *)
LEMMA UpdateTable ==
    ASSUME TableInv, NEW w \in Worker, NEW part \in Part, NEW suffix \in Suffix,
           NEW dated \in BOOLEAN, UpdateJob(w, part, suffix, dated)
    PROVE  TableInv'
<1>1. PICK j \in Job : jobs' = [jobs EXCEPT ![j].status = ShippedBy(dated)]
  BY DEF UpdateJob
<1>2. UNCHANGED <<req, clock, past>>
  BY DEF UpdateJob
<1>3. jobs' \in [Job -> JobRecord]
  BY <1>1 DEF TableInv, TypeOK, JobRecord, ShippedBy
<1>4. TypeOK'
  BY <1>2, <1>3 DEF TableInv, TypeOK
<1>5. \A i \in Job : InUse(jobs'[i]) <=> InUse(jobs[i])
  BY <1>1 DEF TableInv, TypeOK, InUse, JobRecord
<1> QED
  BY <1>2, <1>4, <1>5, SameIds

(* A sweep stamps the jobs it discards.                                    *)
LEMMA SweepTable ==
    ASSUME TableInv, NEW w \in Worker, NEW missing \in SUBSET Job, Sweep(w, missing)
    PROVE  TableInv'
<1>1. /\ clock' \in Tick /\ clock' = clock + 1
      /\ jobs' = [j \in Job |-> IF j \in missing
                                THEN [jobs[j] EXCEPT !.discarded = clock']
                                ELSE jobs[j]]
      /\ UNCHANGED <<req, past>>
  BY DEF Sweep
<1>2. jobs' \in [Job -> JobRecord]
  BY <1>1 DEF TableInv, TypeOK, JobRecord
<1>3. TypeOK'
  BY <1>1, <1>2 DEF TableInv, TypeOK
<1>4. \A i \in Job : InUse(jobs'[i]) <=> InUse(jobs[i])
  BY <1>1 DEF TableInv, TypeOK, InUse, JobRecord
<1> QED
  BY <1>1, <1>3, <1>4, SameIds

(* A request that fails leaves the table alone.                            *)
LEMMA FailTable ==
    ASSUME TableInv, NEW w \in Worker, Fail(w)
    PROVE  TableInv'
<1>1. Finish(w) /\ UNCHANGED <<jobs, clock, past>>
  BY DEF Fail
<1>2. TypeOK'
  BY <1>1, FinishTyped DEF TableInv, TypeOK
<1> QED
  BY <1>1, <1>2, SameIds

(* Every step of the system is one of these.                               *)
LEMMA StepTable ==
    ASSUME TableInv, [Next]_vars
    PROVE  TableInv'
<1>1. CASE UNCHANGED vars
  BY <1>1 DEF vars, TableInv, TypeOK, IdsInOrder, RequestsKnowTheirJob, InUse
<1>2. ASSUME NEW w \in Worker, Ingest(w) PROVE TableInv'
  BY <1>2, InsertTable, UpdateTable, SweepTable DEF Ingest
<1>3. ASSUME NEW w \in Worker, Handle(w) PROVE TableInv'
  BY <1>3, ReadTable, PutTable, DiscardTable, RestoreTable, EditTable, FailTable
     DEF Handle
<1> QED
  BY <1>1, <1>2, <1>3 DEF Next

-----------------------------------------------------------------------------
(* Twins: the pair part of TwinsAreMistaken, without the types.            *)

Twins(i, j) == IsActive(jobs[i]) /\ IsActive(jobs[j]) /\ Key(jobs[i]) = Key(jobs[j])

TwinsInv == \A i, j \in Job : Twins(i, j) => i = j \/ {i, j} \cap past.mistaken # {}

(* It is enough that a job that is active under a new key is mistaken or   *)
(* has that key to itself.                                                 *)
LEMMA TwinsByOneJob ==
    ASSUME TableInv, TwinsInv, NEW k \in Job,
           \A i \in Job \ {k} : jobs'[i] = jobs[i],
           past.mistaken \subseteq past'.mistaken,
           \/ k \in past'.mistaken
           \/ \A i \in Job \ {k} : ~(IsActive(jobs[i]) /\ Key(jobs[i]) = Key(jobs'[k]))
    PROVE  TwinsInv'
<1> SUFFICES ASSUME NEW i \in Job, NEW j \in Job, Twins(i, j)'
             PROVE  i = j \/ {i, j} \cap past'.mistaken # {}
  BY DEF TwinsInv, Twins, IsActive, InUse, Key
<1>1. CASE i # k /\ j # k
  BY <1>1 DEF TwinsInv, Twins
<1>2. CASE i = k \/ j = k
  BY <1>2 DEF Twins
<1> QED
  BY <1>1, <1>2

(* ... or that no job becomes active or changes its key.                   *)
LEMMA TwinsByNone ==
    ASSUME TableInv, TwinsInv,
           \A i \in Job : IsActive(jobs'[i]) => IsActive(jobs[i]) /\ Key(jobs'[i]) = Key(jobs[i]),
           past'.mistaken = past.mistaken
    PROVE  TwinsInv'
BY DEF TwinsInv, Twins, IsActive, InUse, Key

(* Every step keeps active jobs apart, or marks one of them.               *)
LEMMA StepTwins ==
    ASSUME TableInv, TwinsInv, [Next]_vars
    PROVE  TwinsInv'
<1> USE DEF TableInv
<1>1. CASE UNCHANGED <<jobs, past>>
  BY <1>1, TwinsByNone
<1>2. ASSUME NEW w \in Worker, NEW pasted \in BOOLEAN, NEW noted \in BOOLEAN,
             PutRecord(w, pasted, noted)
      PROVE  TwinsInv'
  <2>1. PICK a : jobs' = [jobs EXCEPT ![req[w].job].audit = a]
    BY <1>2 DEF PutRecord
  <2>2. past'.mistaken = past.mistaken
    BY <1>2 DEF PutRecord, TypeOK
  <2> QED
    BY <2>1, <2>2, TwinsByNone DEF TypeOK, JobRecord, IsActive, InUse, Key
<1>3. ASSUME NEW w \in Worker, DiscardJob(w)
      PROVE  TwinsInv'
  <2>1. jobs' = [jobs EXCEPT ![req[w].job].discarded = clock + 1]
    BY <1>3 DEF DiscardJob
  <2>2. past'.mistaken = past.mistaken /\ clock \in Nat
    BY <1>3, TableAssumption DEF DiscardJob, TypeOK, Tick
  <2>3. clock + 1 # 0
    BY <2>2
  <2> QED
    BY <2>1, <2>2, <2>3, TwinsByNone DEF TypeOK, JobRecord, IsActive, InUse, Key
<1>4. ASSUME NEW w \in Worker, RestoreJob(w)
      PROVE  TwinsInv'
  <2> DEFINE j == req[w].job
             checked == Key(req[w].seen)
  <2>1. j \in Job
    BY <1>4 DEF RestoreJob, RequestsKnowTheirJob
  <2>2. /\ Colliders(j, checked) = {}
        /\ jobs' = [jobs EXCEPT ![j].discarded = 0]
        /\ past' = Marked(j, Key(jobs[j]), checked)
    BY <1>4 DEF RestoreJob
  <2> HIDE DEF j, checked
  <2>3. Key(jobs'[j]) = Key(jobs[j])
    BY <2>1, <2>2 DEF TypeOK, JobRecord, Key
  <2>4. past.mistaken \subseteq past'.mistaken
        /\ (j \in past'.mistaken \/ Key(jobs[j]) = checked)
    BY <2>2 DEF Marked, TypeOK
  <2>5. \A i \in Job \ {j} : ~(IsActive(jobs[i]) /\ Key(jobs[i]) = checked)
    BY <2>2 DEF Colliders, ActiveAt
  <2> QED
    BY <2>1, <2>2, <2>3, <2>4, <2>5, TwinsByOneJob DEF TypeOK
<1>5. ASSUME NEW w \in Worker, NEW part \in Part, NEW suffix \in Suffix,
             EditJob(w, part, suffix)
      PROVE  TwinsInv'
  <2> DEFINE j == req[w].job
             row == Edited(jobs[j], req[w].seen, part, suffix)
             checked == <<part, suffix>>
  <2>1. j \in Job
    BY <1>5 DEF EditJob, RequestsKnowTheirJob
  <2>2. /\ Colliders(j, checked) = {}
        /\ jobs' = [jobs EXCEPT ![j] = row]
        /\ past' = Marked(j, Key(row), checked)
    BY <1>5 DEF EditJob, Edited
  <2> HIDE DEF j, row, checked
  <2>3. jobs'[j] = row
    BY <2>1, <2>2 DEF TypeOK
  <2>4. past.mistaken \subseteq past'.mistaken
        /\ (j \in past'.mistaken \/ Key(row) = checked)
    BY <2>2 DEF Marked, TypeOK
  <2>5. \A i \in Job \ {j} : ~(IsActive(jobs[i]) /\ Key(jobs[i]) = checked)
    BY <2>2 DEF Colliders, ActiveAt
  <2> QED
    BY <2>1, <2>2, <2>3, <2>4, <2>5, TwinsByOneJob DEF TypeOK
<1>6. ASSUME NEW w \in Worker, NEW part \in Part, NEW suffix \in Suffix,
             NEW dated \in BOOLEAN, InsertJob(w, part, suffix, dated)
      PROVE  TwinsInv'
  <2>1. /\ ActiveAt(<<part, suffix>>) = {} /\ NewId \in Job
        /\ jobs'[NewId].part = part /\ jobs'[NewId].suffix = suffix
        /\ \A i \in Job \ {NewId} : jobs'[i] = jobs[i]
        /\ UNCHANGED past
    BY <1>6 DEF InsertJob, TypeOK
  <2>2. \A i \in Job \ {NewId} :
           ~(IsActive(jobs[i]) /\ Key(jobs[i]) = Key(jobs'[NewId]))
    BY <2>1 DEF ActiveAt, Key
  <2> QED
    BY <2>1, <2>2, TwinsByOneJob
<1>7. ASSUME NEW w \in Worker, NEW part \in Part, NEW suffix \in Suffix,
             NEW dated \in BOOLEAN, UpdateJob(w, part, suffix, dated)
      PROVE  TwinsInv'
  <2>1. PICK j \in Job : jobs' = [jobs EXCEPT ![j].status = ShippedBy(dated)]
    BY <1>7 DEF UpdateJob
  <2>2. past' = past
    BY <1>7 DEF UpdateJob
  <2> QED
    BY <2>1, <2>2, TwinsByNone DEF TypeOK, JobRecord, IsActive, InUse, Key
<1>8. ASSUME NEW w \in Worker, NEW missing \in SUBSET Job, Sweep(w, missing)
      PROVE  TwinsInv'
  <2>1. jobs' = [j \in Job |-> IF j \in missing
                               THEN [jobs[j] EXCEPT !.discarded = clock + 1]
                               ELSE jobs[j]]
    BY <1>8 DEF Sweep
  <2>2. past' = past /\ clock + 1 # 0
    BY <1>8, TableAssumption DEF Sweep, TypeOK, Tick
  <2> QED
    BY <2>1, <2>2, TwinsByNone DEF TypeOK, JobRecord, IsActive, InUse, Key
<1>9. ASSUME NEW w \in Worker,
             Fail(w) \/ \E op \in Operation, j \in Job : ReadJob(w, op, j)
      PROVE  TwinsInv'
  BY <1>1, <1>9 DEF Fail, ReadJob
<1>10. CASE UNCHANGED vars
  BY <1>1, <1>10 DEF vars
<1> QED
  BY <1>2, <1>3, <1>4, <1>5, <1>6, <1>7, <1>8, <1>9, <1>10
     DEF Next, Ingest, Handle

-----------------------------------------------------------------------------
(* The jobs of an identity, from the oldest to the newest.                 *)

KinAt(key) == {k \in Job : InUse(jobs[k]) /\ Key(jobs[k]) = key}

Undisturbed(key) == key \notin past.moved /\ KinAt(key) \cap past.late = {}

(* What is true of two jobs of one identity, i the older.                  *)
Precedes(i, k) ==
    /\ jobs[i].discarded # 0
    /\ jobs[i].audit.reviewed <= jobs[k].audit.reviewed
    /\ jobs[k].discarded # 0 => jobs[i].discarded < jobs[k].discarded

InOrder ==
    \A i, k \in Job : /\ i < k
                      /\ InUse(jobs[i]) /\ InUse(jobs[k])
                      /\ Key(jobs[i]) = Key(jobs[k])
                      /\ Undisturbed(Key(jobs[k]))
                      => Precedes(i, k)

(* No stamp is later than the clock.                                       *)
StampsPassed ==
    \A j \in Job : jobs[j].discarded <= clock /\ jobs[j].audit.reviewed <= clock

CarryInv == InOrder /\ StampsPassed

(* The numbers of the order are numbers.                                   *)
LEMMA Stamps ==
    ASSUME TypeOK
    PROVE  /\ clock \in Nat
           /\ \A j \in Job : /\ j \in Nat /\ jobs[j].discarded \in Nat
                             /\ jobs[j].audit.reviewed \in Nat
<1>1. \A j \in Job : jobs[j].audit \in Audit /\ jobs[j].discarded \in Tick
  BY DEF TypeOK, JobRecord
<1> QED
  BY <1>1, TableAssumption DEF TypeOK, Audit, Tick, Job

(* A step that keeps what the order depends on.                            *)
LEMMA OrderKept ==
    ASSUME TableInv, InOrder, past' = past,
           \A j \in Job : /\ InUse(jobs'[j]) = InUse(jobs[j])
                          /\ Key(jobs'[j]) = Key(jobs[j])
                          /\ jobs'[j].discarded = jobs[j].discarded
                          /\ jobs'[j].audit = jobs[j].audit
    PROVE  InOrder'
<1>1. \A key : Undisturbed(key)' <=> Undisturbed(key)
  BY DEF Undisturbed, KinAt, Key, InUse
<1> QED
  BY <1>1 DEF InOrder, Precedes, Key, InUse, Undisturbed, KinAt

(* A step that writes one job: the job is disturbed by it, or was active   *)
(* and is reviewed or discarded now.                                       *)
LEMMA OrderByOneJob ==
    ASSUME TableInv, CarryInv, NEW j \in Job,
           \A i \in Job \ {j} : jobs'[i] = jobs[i],
           InUse(jobs'[j]) = InUse(jobs[j]), Key(jobs'[j]) = Key(jobs[j]),
           past.moved \subseteq past'.moved, past.late \subseteq past'.late,
           \/ Key(jobs[j]) \in past'.moved
           \/ j \in past'.late
           \/ /\ jobs[j].discarded = 0
              /\ jobs'[j].discarded \in {0, clock + 1}
              /\ jobs'[j].audit.reviewed \in {jobs[j].audit.reviewed, clock + 1}
    PROVE  InOrder'
<1> USE Stamps DEF TableInv
<1>1. \A key : KinAt(key)' = KinAt(key)
  BY DEF KinAt, InUse, Key
<1> SUFFICES ASSUME NEW i \in Job, NEW k \in Job, i < k,
                    InUse(jobs[i])', InUse(jobs[k])', (Key(jobs[i]) = Key(jobs[k]))',
                    Undisturbed(Key(jobs[k]))'
             PROVE  Precedes(i, k)'
  BY DEF InOrder
<1>2. /\ InUse(jobs[i]) /\ InUse(jobs[k]) /\ Key(jobs[i]) = Key(jobs[k])
      /\ Key(jobs[k])' = Key(jobs[k])
  <2>1. \A h \in Job : InUse(jobs[h])' = InUse(jobs[h]) /\ Key(jobs[h])' = Key(jobs[h])
    BY DEF InUse, Key
  <2> QED
    BY <2>1
<1> DEFINE key == Key(jobs[k])
<1>3. key \notin past'.moved /\ KinAt(key) \cap past'.late = {}
  BY <1>1, <1>2 DEF Undisturbed
<1>4. Precedes(i, k)
  <2>1. Undisturbed(key)
    BY <1>3 DEF Undisturbed
  <2> QED
    BY <1>2, <2>1 DEF CarryInv, InOrder
<1>5. CASE i # j /\ k # j
  BY <1>4, <1>5 DEF Precedes
<1>6. CASE i = j \/ k = j
  <2>1. j \in KinAt(key) /\ Key(jobs[j]) = key
    BY <1>2, <1>6 DEF KinAt
  <2>2. Key(jobs[j]) \notin past'.moved /\ j \notin past'.late
    BY <1>3, <2>1
  <2>3. /\ jobs[j].discarded = 0
        /\ jobs'[j].discarded \in {0, clock + 1}
        /\ jobs'[j].audit.reviewed \in {jobs[j].audit.reviewed, clock + 1}
    BY <2>2
  <2>4. k = j /\ i # j
    BY <1>4, <1>6, <2>3 DEF Precedes
  <2>5. jobs[i].discarded <= clock /\ jobs[i].audit.reviewed <= clock
    BY DEF CarryInv, StampsPassed
  <2> QED
    BY <1>4, <2>3, <2>4, <2>5 DEF Precedes
<1> QED
  BY <1>5, <1>6

(* The record a new job is given is that of the newest job of its identity.*)
LEMMA NewestIsCarried ==
    ASSUME TableInv, CarryInv, NEW key, ActiveAt(key) = {}, Undisturbed(key),
           NEW i \in KinAt(key)
    PROVE  jobs[i].audit.reviewed <= CarriedAudit(key).reviewed
<1> USE Stamps DEF TableInv
<1>1. i \in Job /\ InUse(jobs[i]) /\ Key(jobs[i]) = key
  BY DEF KinAt
<1>2. jobs[i].discarded # 0
  BY <1>1 DEF ActiveAt, IsActive
<1>3. CASE jobs[i].audit.reviewed = 0
  BY <1>3, CarriedIsAudit, TableAssumption DEF Audit, Tick
<1>4. CASE jobs[i].audit.reviewed # 0
  <2>1. i \in Donors(key)
    BY <1>1, <1>2, <1>4 DEF Donors
  <2>2. PICK k \in Donors(key) : /\ CarriedAudit(key) = jobs[k].audit
                                 /\ \A d \in Donors(key) : Later(k, d)
    BY <2>1, LatestDonor
  <2>3. /\ k \in Job /\ InUse(jobs[k]) /\ Key(jobs[k]) = key
        /\ jobs[k].discarded # 0
    BY DEF Donors
  <2>4. Later(k, i)
    BY <2>1, <2>2
  <2>5. ~(k < i)
    <3> SUFFICES ASSUME k < i PROVE FALSE
      OBVIOUS
    <3>1. Precedes(k, i)
      BY <1>1, <2>3 DEF CarryInv, InOrder
    <3> QED
      BY <1>1, <1>2, <2>3, <2>4, <3>1 DEF Precedes, Later
  <2>6. i < k => Precedes(i, k)
    BY <1>1, <2>3 DEF CarryInv, InOrder
  <2> QED
    BY <1>1, <2>2, <2>3, <2>5, <2>6 DEF Precedes
<1> QED
  BY <1>3, <1>4

(* A new job is the newest of its identity, with its last review.          *)
LEMMA InsertOrder ==
    ASSUME TableInv, CarryInv, NEW w \in Worker, NEW part \in Part, NEW suffix \in Suffix,
           NEW dated \in BOOLEAN, InsertJob(w, part, suffix, dated)
    PROVE  InOrder'
<1> USE Stamps DEF TableInv
<1> DEFINE key == <<part, suffix>>
<1>1. PICK n \in Job :
      /\ n = NewId /\ ActiveAt(key) = {} /\ past' = past
      /\ \A i \in Job \ {n} : jobs'[i] = jobs[i]
      /\ jobs'[n] = [part |-> part, suffix |-> suffix, status |-> ShippedBy(dated),
                     discarded |-> 0, audit |-> CarriedAudit(key)]
  BY DEF InsertJob, TypeOK
<1>2. /\ InUse(jobs[n])' /\ Key(jobs[n])' = key
      /\ jobs'[n].discarded = 0 /\ jobs'[n].audit = CarriedAudit(key)
  BY <1>1, TableAssumption DEF InUse, Key
<1>3. \A j \in Job : InUse(jobs[j]) <=> j < n
  BY <1>1, NewIdIsNext
<1> HIDE DEF key
<1>4. \A j \in Job \ {n} : InUse(jobs[j])' = InUse(jobs[j]) /\ Key(jobs[j])' = Key(jobs[j])
  BY <1>1 DEF InUse, Key
<1> SUFFICES ASSUME NEW i \in Job, NEW k \in Job, i < k,
                    InUse(jobs[i])', InUse(jobs[k])', (Key(jobs[i]) = Key(jobs[k]))',
                    Undisturbed(Key(jobs[k]))'
             PROVE  Precedes(i, k)'
  BY DEF InOrder
<1>5. i # n /\ InUse(jobs[i])
  <2>1. CASE k = n
    BY <1>4, <2>1
  <2>2. CASE k # n
    <3>1. k < n
      BY <1>3, <1>4, <2>2
    <3>2. i < n
      BY <1>1, <3>1
    <3> QED
      BY <1>3, <3>2
  <2> QED
    BY <2>1, <2>2
<1>6. \A kk \in Job : InUse(jobs[kk]) => kk # n
  BY <1>1, <1>3
<1>7. \A c : KinAt(c) \subseteq KinAt(c)'
  BY <1>4, <1>6 DEF KinAt, InUse, Key
<1>8. CASE k = n
  <2>1. Key(jobs[i]) = key /\ i \in KinAt(key)
    BY <1>2, <1>4, <1>5, <1>8 DEF KinAt
  <2>2. Undisturbed(key)
    BY <1>1, <1>2, <1>7, <1>8 DEF Undisturbed
  <2>3. jobs[i].audit.reviewed <= CarriedAudit(key).reviewed
    BY <1>1, <2>1, <2>2, NewestIsCarried
  <2>4. jobs[i].discarded # 0
    BY <1>1, <1>5, <2>1 DEF ActiveAt, IsActive
  <2> QED
    BY <1>1, <1>2, <1>5, <1>8, <2>3, <2>4 DEF Precedes
<1>9. CASE k # n
  <2>1. PICK c : /\ c = Key(jobs[k]) /\ c = Key(jobs[k])'
                 /\ InUse(jobs[k]) /\ Key(jobs[i]) = c
    BY <1>4, <1>5, <1>9
  <2>2. Undisturbed(c)
    BY <1>1, <1>7, <2>1 DEF Undisturbed
  <2>3. Precedes(i, k)
    BY <1>5, <2>1, <2>2 DEF CarryInv, InOrder
  <2> QED
    BY <1>1, <1>5, <1>9, <2>3 DEF Precedes
<1> QED
  BY <1>8, <1>9

(* An edit disturbs the identity its job had and the one it gets.          *)
LEMMA EditOrder ==
    ASSUME TableInv, CarryInv, NEW w \in Worker, NEW part \in Part, NEW suffix \in Suffix,
           EditJob(w, part, suffix)
    PROVE  InOrder'
<1> USE DEF TableInv
<1>1. PICK j \in Job : \E row :
      /\ jobs' = [jobs EXCEPT ![j] = row]
      /\ past' = Marked(j, Key(row), <<part, suffix>>)
  BY DEF EditJob, RequestsKnowTheirJob
<1>2. /\ \A i \in Job \ {j} : jobs'[i] = jobs[i]
      /\ past'.late = past.late /\ past.moved \subseteq past'.moved
      /\ Key(jobs[j]) \in past'.moved /\ Key(jobs[j])' \in past'.moved
  BY <1>1 DEF TypeOK, Marked
<1>3. \A i \in Job \ {j} : InUse(jobs[i])' = InUse(jobs[i]) /\ Key(jobs[i])' = Key(jobs[i])
  BY <1>2 DEF InUse, Key
<1> SUFFICES ASSUME NEW i \in Job, NEW k \in Job, i < k,
                    InUse(jobs[i])', InUse(jobs[k])', (Key(jobs[i]) = Key(jobs[k]))',
                    Undisturbed(Key(jobs[k]))'
             PROVE  Precedes(i, k)'
  BY DEF InOrder
<1>4. i # j /\ k # j
  BY <1>2 DEF Undisturbed
<1>5. PICK c : /\ c = Key(jobs[k]) /\ c = Key(jobs[k])'
               /\ InUse(jobs[k]) /\ InUse(jobs[i]) /\ Key(jobs[i]) = c
  BY <1>3, <1>4
<1>6. c \notin past.moved /\ KinAt(c) \subseteq KinAt(c)' /\ KinAt(c)' \cap past.late = {}
  <2>1. c \notin past'.moved /\ KinAt(c)' \cap past'.late = {}
    BY <1>5 DEF Undisturbed
  <2>2. j \notin KinAt(c)
    BY <1>2, <2>1 DEF KinAt
  <2>3. KinAt(c) \subseteq KinAt(c)'
    BY <1>3, <2>2 DEF KinAt
  <2> QED
    BY <1>2, <2>1, <2>3
<1>7. Precedes(i, k)
  BY <1>5, <1>6 DEF CarryInv, InOrder, Undisturbed
<1> QED
  BY <1>2, <1>4, <1>7 DEF Precedes

(* A sweep discards the newest job of each identity, if any.               *)
LEMMA SweepOrder ==
    ASSUME TableInv, CarryInv, NEW w \in Worker, NEW missing \in SUBSET Job,
           Sweep(w, missing)
    PROVE  InOrder'
<1> USE Stamps DEF TableInv
<1>1. /\ \A j \in missing : jobs[j].discarded = 0
      /\ jobs' = [j \in Job |-> IF j \in missing
                                THEN [jobs[j] EXCEPT !.discarded = clock + 1]
                                ELSE jobs[j]]
      /\ past' = past
  BY DEF Sweep, IsPlanned, IsActive
<1>2. \A j \in Job : /\ InUse(jobs[j])' = InUse(jobs[j])
                     /\ Key(jobs[j])' = Key(jobs[j])
                     /\ jobs'[j].audit = jobs[j].audit
                     /\ j \in missing => jobs'[j].discarded = clock + 1
                     /\ j \notin missing => jobs'[j].discarded = jobs[j].discarded
  BY <1>1 DEF TypeOK, JobRecord, InUse, Key
<1>3. \A c : KinAt(c)' = KinAt(c)
  BY <1>2 DEF KinAt
<1> SUFFICES ASSUME NEW i \in Job, NEW k \in Job, i < k,
                    InUse(jobs[i])', InUse(jobs[k])', (Key(jobs[i]) = Key(jobs[k]))',
                    Undisturbed(Key(jobs[k]))'
             PROVE  Precedes(i, k)'
  BY DEF InOrder
<1>4. PICK c : /\ c = Key(jobs[k]) /\ c = Key(jobs[k])'
               /\ InUse(jobs[k]) /\ InUse(jobs[i]) /\ Key(jobs[i]) = c
  BY <1>2
<1>5. Undisturbed(c)
  BY <1>1, <1>3, <1>4 DEF Undisturbed
<1>6. Precedes(i, k)
  BY <1>4, <1>5 DEF CarryInv, InOrder
<1>7. i \notin missing
  BY <1>1, <1>6 DEF Precedes
<1>8. jobs[i].discarded <= clock
  BY DEF CarryInv, StampsPassed
<1> QED
  BY <1>2, <1>6, <1>7, <1>8 DEF Precedes

(* A PUT writes the record of one job and stamps it.                       *)
LEMMA PutWrites ==
    ASSUME TableInv, NEW w \in Worker, NEW pasted \in BOOLEAN, NEW noted \in BOOLEAN,
           PutRecord(w, pasted, noted)
    PROVE  \E j \in Job :
             /\ \A i \in Job \ {j} : jobs'[i] = jobs[i]
             /\ InUse(jobs'[j]) = InUse(jobs[j]) /\ Key(jobs'[j]) = Key(jobs[j])
             /\ jobs'[j].discarded = jobs[j].discarded
             /\ jobs'[j].audit.reviewed = clock + 1
             /\ clock' = clock + 1
             /\ past' = [past EXCEPT !.late = IF IsPlanned(jobs[j]) THEN @
                                              ELSE @ \union {j}]
<1> DEFINE j == req[w].job
           n == clock + 1
           a == Replaced(jobs[j].audit, req[w].seen, n,
                         IF pasted THEN {n} ELSE {}, IF noted THEN n ELSE 0)
<1>1. /\ j \in Job /\ a.reviewed = n /\ clock' = n
      /\ jobs' = [jobs EXCEPT ![j].audit = a]
      /\ past' = [past EXCEPT !.late = IF IsPlanned(jobs[j]) THEN @ ELSE @ \union {j}]
  BY DEF PutRecord, Replaced, TableInv, RequestsKnowTheirJob
<1> HIDE DEF j, a
<1>2. /\ \A i \in Job \ {j} : jobs'[i] = jobs[i]
      /\ InUse(jobs'[j]) = InUse(jobs[j]) /\ Key(jobs'[j]) = Key(jobs[j])
      /\ jobs'[j].discarded = jobs[j].discarded
      /\ jobs'[j].audit.reviewed = n
  BY <1>1 DEF TableInv, TypeOK, JobRecord, InUse, Key
<1> QED
  BY <1>1, <1>2

(* Every step keeps the jobs of an identity in order.                      *)
LEMMA StepOrder ==
    ASSUME TableInv, CarryInv, [Next]_vars
    PROVE  InOrder'
<1> USE DEF TableInv
<1>1. ASSUME NEW w \in Worker, NEW pasted \in BOOLEAN, NEW noted \in BOOLEAN,
             PutRecord(w, pasted, noted)
      PROVE  InOrder'
  <2>1. PICK j \in Job :
        /\ \A i \in Job \ {j} : jobs'[i] = jobs[i]
        /\ InUse(jobs'[j]) = InUse(jobs[j]) /\ Key(jobs'[j]) = Key(jobs[j])
        /\ jobs'[j].discarded = jobs[j].discarded
        /\ jobs'[j].audit.reviewed = clock + 1
        /\ past' = [past EXCEPT !.late = IF IsPlanned(jobs[j]) THEN @
                                         ELSE @ \union {j}]
    BY <1>1, PutWrites
  <2>2. /\ past.moved \subseteq past'.moved /\ past.late \subseteq past'.late
        /\ j \in past'.late \/ jobs[j].discarded = 0
    BY <2>1 DEF TypeOK, IsPlanned, IsActive
  <2> QED
    BY <2>1, <2>2, OrderByOneJob
<1>2. ASSUME NEW w \in Worker, DiscardJob(w)
      PROVE  InOrder'
  <2>1. PICK j \in Job :
        /\ jobs' = [jobs EXCEPT ![j].discarded = clock + 1]
        /\ past' = [past EXCEPT !.late = IF IsActive(jobs[j]) THEN @
                                         ELSE @ \union {j}]
    BY <1>2 DEF DiscardJob, RequestsKnowTheirJob
  <2>2. /\ \A i \in Job \ {j} : jobs'[i] = jobs[i]
        /\ InUse(jobs'[j]) = InUse(jobs[j]) /\ Key(jobs'[j]) = Key(jobs[j])
        /\ jobs'[j].discarded = clock + 1
        /\ jobs'[j].audit = jobs[j].audit
    BY <2>1 DEF TypeOK, JobRecord, InUse, Key
  <2>3. /\ past.moved \subseteq past'.moved /\ past.late \subseteq past'.late
        /\ j \in past'.late \/ jobs[j].discarded = 0
    BY <2>1 DEF TypeOK, IsActive
  <2> QED
    BY <2>2, <2>3, OrderByOneJob
<1>3. ASSUME NEW w \in Worker, RestoreJob(w)
      PROVE  InOrder'
  <2>1. PICK j \in Job : \E checked :
        /\ jobs' = [jobs EXCEPT ![j].discarded = 0]
        /\ past' = Marked(j, Key(jobs[j]), checked)
    BY <1>3 DEF RestoreJob, RequestsKnowTheirJob
  <2>2. /\ \A i \in Job \ {j} : jobs'[i] = jobs[i]
        /\ InUse(jobs'[j]) = InUse(jobs[j]) /\ Key(jobs'[j]) = Key(jobs[j])
    BY <2>1 DEF TypeOK, JobRecord, InUse, Key
  <2>3. /\ past.moved \subseteq past'.moved /\ past.late \subseteq past'.late
        /\ Key(jobs[j]) \in past'.moved
    BY <2>1 DEF TypeOK, Marked
  <2> QED
    BY <2>2, <2>3, OrderByOneJob
<1>4. ASSUME NEW w \in Worker, NEW part \in Part, NEW suffix \in Suffix,
             NEW dated \in BOOLEAN, UpdateJob(w, part, suffix, dated)
      PROVE  InOrder'
  <2>1. PICK j \in Job : jobs' = [jobs EXCEPT ![j].status = ShippedBy(dated)]
    BY <1>4 DEF UpdateJob
  <2>2. past' = past
    BY <1>4 DEF UpdateJob
  <2> QED
    BY <2>1, <2>2, OrderKept DEF CarryInv, TypeOK, JobRecord, InUse, Key
<1>5. ASSUME NEW w \in Worker,
             Fail(w) \/ \E op \in Operation, j \in Job : ReadJob(w, op, j)
      PROVE  InOrder'
  BY <1>5, OrderKept DEF CarryInv, Fail, ReadJob
<1>6. CASE UNCHANGED vars
  BY <1>6, OrderKept DEF CarryInv, vars
<1> QED
  BY <1>1, <1>2, <1>3, <1>4, <1>5, <1>6, InsertOrder, EditOrder, SweepOrder
     DEF Next, Ingest, Handle

(* Every step stamps with the clock, which does not go back.               *)
LEMMA StepStamps ==
    ASSUME TableInv, StampsPassed, [Next]_vars
    PROVE  StampsPassed'
<1> USE Stamps DEF TableInv
<1>1. ASSUME NEW j \in Job, \A i \in Job \ {j} : jobs'[i] = jobs[i],
             clock' = clock \/ clock' = clock + 1,
             jobs'[j].discarded \in {0, jobs[j].discarded, clock'},
             jobs'[j].audit.reviewed \in {jobs[j].audit.reviewed, clock'}
      PROVE  StampsPassed'
  <2> SUFFICES ASSUME NEW i \in Job
               PROVE  jobs'[i].discarded <= clock' /\ jobs'[i].audit.reviewed <= clock'
    BY DEF StampsPassed
  <2>1. jobs[i].discarded <= clock /\ jobs[i].audit.reviewed <= clock
    BY DEF StampsPassed
  <2>2. CASE i = j
    BY <1>1, <2>1, <2>2
  <2>3. CASE i # j
    BY <1>1, <2>1, <2>3
  <2> QED
    BY <2>2, <2>3
<1>2. ASSUME jobs' = jobs, clock' = clock PROVE StampsPassed'
  BY <1>2 DEF StampsPassed
<1>3. ASSUME NEW w \in Worker, NEW pasted \in BOOLEAN, NEW noted \in BOOLEAN,
             PutRecord(w, pasted, noted)
      PROVE  StampsPassed'
  <2>1. PICK j \in Job : /\ \A i \in Job \ {j} : jobs'[i] = jobs[i]
                         /\ jobs'[j].discarded = jobs[j].discarded
                         /\ jobs'[j].audit.reviewed = clock'
                         /\ clock' = clock + 1
    BY <1>3, PutWrites
  <2> QED
    BY <1>1, <2>1
<1>4. ASSUME NEW w \in Worker, DiscardJob(w) \/ RestoreJob(w)
      PROVE  StampsPassed'
  <2>1. PICK j \in Job : \E t \in {0, clock'} :
        jobs' = [jobs EXCEPT ![j].discarded = t]
    BY <1>4 DEF DiscardJob, RestoreJob, RequestsKnowTheirJob
  <2>2. clock' = clock \/ clock' = clock + 1
    BY <1>4 DEF DiscardJob, RestoreJob
  <2>3. /\ \A i \in Job \ {j} : jobs'[i] = jobs[i]
        /\ jobs'[j].discarded \in {0, clock'}
        /\ jobs'[j].audit = jobs[j].audit
    BY <2>1 DEF TypeOK, JobRecord
  <2> QED
    BY <1>1, <2>2, <2>3
<1>5. ASSUME NEW w \in Worker, NEW part \in Part, NEW suffix \in Suffix,
             EditJob(w, part, suffix)
      PROVE  StampsPassed'
  <2>1. PICK j \in Job : jobs' = [jobs EXCEPT ![j] =
                              Edited(@, req[w].seen, part, suffix)]
    BY <1>5 DEF EditJob, Edited, RequestsKnowTheirJob
  <2>2. clock' = clock
    BY <1>5 DEF EditJob
  <2>3. /\ \A i \in Job \ {j} : jobs'[i] = jobs[i]
        /\ jobs'[j].discarded = jobs[j].discarded
        /\ jobs'[j].audit = jobs[j].audit
    BY <2>1 DEF TypeOK, JobRecord, Edited
  <2> QED
    BY <1>1, <2>2, <2>3
<1>6. ASSUME NEW w \in Worker, NEW part \in Part, NEW suffix \in Suffix,
             NEW dated \in BOOLEAN, InsertJob(w, part, suffix, dated)
      PROVE  StampsPassed'
  <2> DEFINE a == CarriedAudit(<<part, suffix>>)
  <2>1. PICK n \in Job :
        jobs' = [jobs EXCEPT ![n] =
                   [part |-> part, suffix |-> suffix, status |-> ShippedBy(dated),
                    discarded |-> 0, audit |-> a]]
    BY <1>6 DEF InsertJob
  <2>2. clock' = clock
    BY <1>6 DEF InsertJob
  <2>3. a.reviewed <= clock
    <3>1. CASE Donors(<<part, suffix>>) = {}
      BY <3>1 DEF CarriedAudit, Unaudited
    <3>2. CASE Donors(<<part, suffix>>) # {}
      <4>1. PICK k \in Donors(<<part, suffix>>) : a = jobs[k].audit
        BY <3>2, LatestDonor
      <4> QED
        BY <4>1 DEF Donors, StampsPassed
    <3> QED
      BY <3>1, <3>2
  <2> HIDE DEF a
  <2>4. /\ \A i \in Job \ {n} : jobs'[i] = jobs[i]
        /\ jobs'[n].discarded = 0 /\ jobs'[n].audit = a
    BY <2>1 DEF TypeOK
  <2> QED
    BY <2>2, <2>3, <2>4 DEF StampsPassed
<1>7. ASSUME NEW w \in Worker, NEW part \in Part, NEW suffix \in Suffix,
             NEW dated \in BOOLEAN, UpdateJob(w, part, suffix, dated)
      PROVE  StampsPassed'
  <2>1. PICK j \in Job : jobs' = [jobs EXCEPT ![j].status = ShippedBy(dated)]
    BY <1>7 DEF UpdateJob
  <2>2. clock' = clock
    BY <1>7 DEF UpdateJob
  <2>3. /\ \A i \in Job \ {j} : jobs'[i] = jobs[i]
        /\ jobs'[j].discarded = jobs[j].discarded
        /\ jobs'[j].audit = jobs[j].audit
    BY <2>1 DEF TypeOK, JobRecord
  <2> QED
    BY <1>1, <2>2, <2>3
<1>8. ASSUME NEW w \in Worker, NEW missing \in SUBSET Job, Sweep(w, missing)
      PROVE  StampsPassed'
  <2>1. \A j \in Job : /\ jobs'[j].discarded \in {jobs[j].discarded, clock + 1}
                       /\ jobs'[j].audit = jobs[j].audit
    BY <1>8 DEF Sweep, TypeOK, JobRecord
  <2>2. clock' = clock + 1
    BY <1>8 DEF Sweep
  <2> SUFFICES ASSUME NEW j \in Job
               PROVE  jobs'[j].discarded <= clock' /\ jobs'[j].audit.reviewed <= clock'
    BY DEF StampsPassed
  <2> QED
    BY <2>1, <2>2 DEF StampsPassed
<1>9. ASSUME NEW w \in Worker,
             Fail(w) \/ \E op \in Operation, j \in Job : ReadJob(w, op, j)
      PROVE  StampsPassed'
  BY <1>2, <1>9 DEF Fail, ReadJob
<1>10. CASE UNCHANGED vars
  BY <1>2, <1>10 DEF vars
<1> QED
  BY <1>3, <1>4, <1>5, <1>6, <1>7, <1>8, <1>9, <1>10 DEF Next, Ingest, Handle

-----------------------------------------------------------------------------
(* The theorems.                                                           *)

(* Nothing has happened to no job.                                         *)
LEMMA InitHistory == Init => TwinsInv /\ CarryInv
<1> SUFFICES ASSUME Init PROVE TwinsInv /\ CarryInv
  OBVIOUS
<1>1. \A j \in Job : /\ ~InUse(jobs[j])
                     /\ jobs[j].discarded = 0 /\ jobs[j].audit.reviewed = 0
  BY DEF Init, Unused, InUse, Unaudited
<1>2. clock = 0
  BY DEF Init
<1> QED
  BY <1>1, <1>2 DEF TwinsInv, Twins, CarryInv, InOrder, StampsPassed, IsActive

(* However requests race, active jobs share an identity only if a flush    *)
(* left one of them under an identity that no check had looked up          *)
(* (restore_job_with_actions, edit_history_job, transform_staging_row).    *)
THEOREM OnlyMistakesMakeTwins == Spec => []TwinsAreMistaken
<1>1. Init => TableInv /\ TwinsInv
  BY InitTable, InitHistory
<1>2. TableInv /\ TwinsInv /\ [Next]_vars => (TableInv /\ TwinsInv)'
  BY StepTable, StepTwins
<1>3. TableInv /\ TwinsInv => TwinsAreMistaken
  BY DEF TableInv, TwinsInv, Twins, TwinsAreMistaken
<1> QED
  BY <1>1, <1>2, <1>3, PTL DEF Spec

(* The oldest-to-newest order gives the property of the active job.        *)
LEMMA ActiveIsNewest ==
    ASSUME TableInv, CarryInv
    PROVE  LastReviewCarried
<1> USE Stamps DEF TableInv
<1> SUFFICES ASSUME NEW j \in Job, IsActive(jobs[j]), ~Disturbed(j), NEW k \in Kin(j)
             PROVE  jobs[k].audit.reviewed <= jobs[j].audit.reviewed
  BY DEF LastReviewCarried
<1>1. k \in Job /\ InUse(jobs[k]) /\ Key(jobs[k]) = Key(jobs[j])
  BY DEF Kin
<1>2. Undisturbed(Key(jobs[j])) /\ Undisturbed(Key(jobs[k]))
  BY <1>1 DEF Disturbed, Undisturbed, Kin, KinAt
<1>3. k < j => Precedes(k, j)
  BY <1>1, <1>2 DEF CarryInv, InOrder, IsActive
<1>4. j < k => Precedes(j, k)
  BY <1>1, <1>2 DEF CarryInv, InOrder, IsActive
<1> QED
  BY <1>1, <1>3, <1>4 DEF Precedes, IsActive

(* A job that is swept and comes back under a new id has the last review   *)
(* of its identity, any number of times and with PUTs racing               *)
(* (carry_forward_second_ops, replace_second_ops).                         *)
THEOREM ReviewsAreCarried == Spec => []LastReviewCarried
<1>1. Init => TableInv /\ CarryInv
  BY InitTable, InitHistory
<1>2. TableInv /\ CarryInv /\ [Next]_vars => (TableInv /\ CarryInv)'
  <2>1. TableInv /\ CarryInv /\ [Next]_vars => CarryInv'
    BY StepOrder, StepStamps DEF CarryInv
  <2> QED
    BY <2>1, StepTable
<1>3. TableInv /\ CarryInv => LastReviewCarried
  BY ActiveIsNewest
<1> QED
  BY <1>1, <1>2, <1>3, PTL DEF Spec
=============================================================================
