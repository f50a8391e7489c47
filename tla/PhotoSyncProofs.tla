--------------------------- MODULE PhotoSyncProofs ---------------------------
(***************************************************************************)
(* That runs of the auto-copy exclude each other, copy into their own      *)
(* source only when every check was blind, and record a day only when they *)
(* came to all they owed, for any photos, directories, runners, days and   *)
(* windows.                                                                *)
(***************************************************************************)
EXTENDS PhotoSync, TLAPS

MaybeDir == Dir \union {NoDir}

RunType == [at : {"off", "dates", "walk", "ending"}, src : MaybeDir, dst : MaybeDir,
            dates : SUBSET Days, date : Days \union {0}, seen : SUBSET Photo,
            failed : BOOLEAN, reason : Reasons, owed : SUBSET Photo,
            missed : SUBSET Photo, blind : BOOLEAN]

ConfigType == [enabled : BOOLEAN, source : MaybeDir, dest : MaybeDir]

PutType == [dir : [to : MaybeDir, blind : BOOLEAN],
            auto : [busy : BOOLEAN, enabled : BOOLEAN, source : MaybeDir, blind : BOOLEAN]]

SyncTypes ==
    /\ config \in ConfigType /\ put \in PutType /\ blind \in BOOLEAN
    /\ source \in [Photo -> {"absent", "fresh", "settled"}]
    /\ copied \subseteq Dir \X Photo
    /\ day \in Days /\ last \in 0..day
    /\ running \in BOOLEAN
    /\ run \in [Runner -> RunType]

(* Directories that overlap in the settings, or will once a route saves    *)
(* what it has checked, do so unnoticed.                                   *)
Accounted ==
    /\ <<config.source, config.dest>> \in Overlap => blind
    /\ <<config.source, put.dir.to>> \in Overlap => put.dir.blind
    /\ <<put.auto.source, config.dest>> \in Overlap => put.auto.blind

Exclusive ==
    /\ \A r1, r2 \in Runner : run[r1].at # "off" /\ run[r2].at # "off" => r1 = r2
    /\ running <=> \E r \in Runner : run[r].at # "off"

Walking(q) == q.at \in {"dates", "walk"}

(* What a run has still to come to: a date not taken yet, or an entry of   *)
(* the date at hand not seen yet.                                          *)
Pending(q, p) ==
    \/ Walking(q) /\ DateOf[p] \in q.dates
    \/ q.at = "walk" /\ DateOf[p] = q.date /\ p \notin q.seen

(* What can be relied on while a run is q.                                 *)
Apart(q) ==
    Walking(q) => q.dst \in Dir /\ (<<q.src, q.dst>> \in Overlap => q.blind)
Unseen(q) == q.at = "dates" => q.seen = {}
Still(q) == q.at # "off" => \A p \in q.owed : source[p] = "settled"
Paid(q) ==
    q.at # "off" /\ ~q.failed /\ q.reason = "Completed" =>
      \A p \in q.owed : p \in q.missed \/ <<q.dst, p>> \in copied \/ Pending(q, p)

RunOK(q) == Apart(q) /\ Unseen(q) /\ Still(q) /\ Paid(q)

SyncInv == SyncTypes /\ Accounted /\ Exclusive /\ \A r \in Runner : RunOK(run[r])
-----------------------------------------------------------------------------
LEMMA IdleOK ==
    /\ Idle \in RunType /\ Idle.at = "off" /\ Idle.seen = {} /\ Idle.missed = {}
    /\ RunOK(Idle)
  <1>1. Idle \in RunType /\ Idle.at = "off" /\ Idle.seen = {} /\ Idle.missed = {}
    BY DEF Idle, RunType, MaybeDir, Reasons
  <1>2. RunOK(Idle)
    BY <1>1 DEF RunOK, Apart, Unseen, Still, Paid, Walking
  <1> QED
    BY <1>1, <1>2

LEMMA InitSync ==
    ASSUME Init
    PROVE  SyncInv
  <1>1. SyncTypes
    <2>1. config \in ConfigType /\ put \in PutType
      BY DEF Init, Defaults, NoPut, MaybeDir, ConfigType, PutType
    <2>2. day \in Days /\ last \in 0..day
      BY SyncAssumption DEF Init, Days
    <2>3. run \in [Runner -> RunType]
      BY IdleOK DEF Init
    <2> QED
      BY <2>1, <2>2, <2>3 DEF Init, SyncTypes
  <1>2. Accounted
    BY SyncAssumption DEF Init, Defaults, NoPut, Accounted
  <1>3. Exclusive
    BY IdleOK DEF Init, Exclusive
  <1>4. \A r \in Runner : RunOK(run[r])
    BY IdleOK DEF Init
  <1> QED
    BY <1>1, <1>2, <1>3, <1>4 DEF SyncInv

(* The settings, the photos and the days change nothing a run relies on:   *)
(* a run has its own source and destination, and a photo that is settled   *)
(* stays so.                                                               *)
LEMMA OutsideSync ==
    ASSUME SyncInv, UNCHANGED <<copied, running, run>>, SyncTypes', Accounted',
           \A p \in Photo : source[p] = "settled" => source'[p] = "settled"
    PROVE  SyncInv'
  <1>1. Exclusive'
    BY DEF SyncInv, Exclusive
  <1>2. ASSUME NEW r \in Runner PROVE RunOK(run[r])'
    <2>1. RunOK(run[r]) /\ run[r].owed \subseteq Photo
      BY DEF SyncInv, SyncTypes, RunType
    <2>2. Still(run[r])'
      BY <2>1 DEF RunOK, Still
    <2>3. Apart(run[r])' /\ Unseen(run[r])' /\ Paid(run[r])'
      BY <2>1 DEF RunOK, Apart, Unseen, Paid, Pending, Walking
    <2> QED
      BY <2>2, <2>3 DEF RunOK
  <1> QED
    BY <1>1, <1>2 DEF SyncInv

(* A step of one run that goes on.                                         *)
LEMMA GoesOn ==
    ASSUME SyncInv, NEW r \in Runner, run[r].at # "off",
           NEW q \in RunType, q.at # "off", run' = [run EXCEPT ![r] = q],
           copied \subseteq copied', copied' \subseteq Dir \X Photo, RunOK(q)',
           UNCHANGED <<settings, source, day, running, last>>
    PROVE  SyncInv'
  <1>1. run'[r] = q /\ \A s \in Runner \ {r} : run'[s] = run[s]
    BY DEF SyncInv, SyncTypes
  <1>2. SyncTypes' /\ Accounted'
    BY DEF SyncInv, SyncTypes, Accounted, settings
  <1>3. Exclusive'
    BY <1>1 DEF SyncInv, Exclusive
  <1>4. ASSUME NEW s \in Runner PROVE RunOK(run[s])'
    <2>1. CASE s = r
      BY <1>1, <2>1
    <2>2. CASE s # r
      BY <1>1, <2>2
      DEF SyncInv, RunOK, Apart, Unseen, Still, Paid, Pending, Walking
    <2> QED
      BY <2>1, <2>2
  <1> QED
    BY <1>2, <1>3, <1>4 DEF SyncInv
-----------------------------------------------------------------------------
(* What the routes check and save keeps every overlap accounted for.       *)
LEMMA RouteSteps ==
    ASSUME SyncInv,
           \/ \E d \in Dir, resolves \in BOOLEAN : CheckDir(d, resolves)
           \/ \E enabled \in BOOLEAN, d \in SourceDir \union {NoDir}, resolves \in BOOLEAN :
                CheckAuto(enabled, d, resolves)
           \/ \E ok \in BOOLEAN : SaveDir(ok) \/ SaveAuto(ok)
    PROVE  SyncInv'
  <1>0. /\ SyncTypes /\ Accounted /\ config \in ConfigType /\ put \in PutType
        /\ NoPut \in PutType /\ NoPut.dir.to = NoDir /\ NoPut.auto.source = NoDir
        /\ \A d \in MaybeDir : <<NoDir, d>> \notin Overlap /\ <<d, NoDir>> \notin Overlap
    BY SyncAssumption DEF SyncInv, SyncTypes, NoPut, PutType, MaybeDir
  <1>1. /\ UNCHANGED <<source, copied, day, stop, running, run, last>>
        /\ config' \in ConfigType /\ put' \in PutType /\ blind' \in BOOLEAN /\ Accounted'
    <2>1. CASE \E d \in Dir, resolves \in BOOLEAN : CheckDir(d, resolves)
      <3>1. PICK d \in Dir, resolves \in BOOLEAN : CheckDir(d, resolves)
        BY <2>1
      <3>2. PICK b \in BOOLEAN : /\ <<config.source, d>> \in Overlap => b
                                 /\ put' = [put EXCEPT !.dir = [to |-> d, blind |-> b]]
        BY <3>1 DEF CheckDir
      <3>3. /\ put' \in PutType /\ put'.dir.to = d /\ put'.dir.blind = b
            /\ put'.auto = put.auto
        BY <1>0, <3>2 DEF PutType, MaybeDir
      <3> QED
        BY <1>0, <3>1, <3>2, <3>3 DEF CheckDir, Accounted, SyncTypes
    <2>2. CASE \E enabled \in BOOLEAN, d \in SourceDir \union {NoDir}, resolves \in BOOLEAN :
                 CheckAuto(enabled, d, resolves)
      <3>1. PICK enabled \in BOOLEAN, d \in SourceDir \union {NoDir}, resolves \in BOOLEAN :
              CheckAuto(enabled, d, resolves)
        BY <2>2
      <3>2. PICK b \in BOOLEAN :
              /\ <<d, config.dest>> \in Overlap => b
              /\ put' = [put EXCEPT !.auto = [busy |-> TRUE, enabled |-> enabled,
                                              source |-> d, blind |-> b]]
        BY <3>1 DEF CheckAuto
      <3>3. /\ put' \in PutType /\ put'.auto.source = d /\ put'.auto.blind = b
            /\ put'.dir = put.dir
        BY <1>0, <3>2, SyncAssumption DEF PutType, MaybeDir
      <3> QED
        BY <1>0, <3>1, <3>2, <3>3 DEF CheckAuto, Accounted, SyncTypes
    <2>3. CASE SaveDir(TRUE)
      <3>1. PICK x : x = (<<put.auto.source, put.dir.to>> \in Overlap)
        OBVIOUS
      <3>2. x \in BOOLEAN
        BY <3>1, SMT
      <3>3. put' = [dir |-> NoPut.dir, auto |-> [put.auto EXCEPT !.blind = x]]
        BY <2>3, <3>1, Zenon DEF SaveDir
      <3>4. put' \in PutType /\ put'.dir.to = NoDir /\ put'.auto.source = put.auto.source /\ put'.auto.blind = x
        BY <1>0, <3>2, <3>3 DEF PutType
      <3>5. <<put.auto.source, put.dir.to>> \in Overlap => put'.auto.blind
        BY <3>1, <3>4, Zenon
      <3>6. /\ config' \in ConfigType /\ config'.dest = put.dir.to
            /\ config'.source = config.source /\ config.source \in MaybeDir
        BY <1>0, <2>3 DEF SaveDir, ConfigType, PutType
      <3>7. blind' = put.dir.blind /\ blind' \in BOOLEAN
        BY <1>0, <2>3 DEF SaveDir, PutType
      <3> QED
        BY <1>0, <2>3, <3>4, <3>5, <3>6, <3>7 DEF SaveDir, Accounted
    <2>4. CASE SaveAuto(TRUE)
      <3>1. PICK x : x = (<<put.auto.source, put.dir.to>> \in Overlap)
        OBVIOUS
      <3>2. x \in BOOLEAN
        BY <3>1, SMT
      <3>3. put' = [auto |-> NoPut.auto, dir |-> [put.dir EXCEPT !.blind = x]]
        BY <2>4, <3>1, Zenon DEF SaveAuto
      <3>4. put' \in PutType /\ put'.auto.source = NoDir /\ put'.dir.to = put.dir.to /\ put'.dir.blind = x
        BY <1>0, <3>2, <3>3 DEF PutType
      <3>5. <<put.auto.source, put.dir.to>> \in Overlap => put'.dir.blind
        BY <3>1, <3>4, Zenon
      <3>6. /\ config' \in ConfigType /\ config'.source = put.auto.source
            /\ config'.dest = config.dest /\ config.dest \in MaybeDir
        BY <1>0, <2>4 DEF SaveAuto, ConfigType, PutType
      <3>7. blind' = put.auto.blind /\ blind' \in BOOLEAN
        BY <1>0, <2>4 DEF SaveAuto, PutType
      <3> QED
        BY <1>0, <2>4, <3>4, <3>5, <3>6, <3>7 DEF SaveAuto, Accounted
    <2>5. CASE SaveDir(FALSE)
      <3>1. put' = [put EXCEPT !.dir = NoPut.dir] /\ UNCHANGED <<config, blind>>
        BY <2>5 DEF SaveDir
      <3>2. put' \in PutType /\ put'.dir.to = NoDir /\ put'.auto = put.auto
        BY <1>0, <3>1 DEF PutType
      <3> QED
        BY <1>0, <2>5, <3>1, <3>2 DEF SaveDir, Accounted, SyncTypes, ConfigType
    <2>6. CASE SaveAuto(FALSE)
      <3>1. put' = [put EXCEPT !.auto = NoPut.auto] /\ UNCHANGED <<config, blind>>
        BY <2>6 DEF SaveAuto
      <3>2. put' \in PutType /\ put'.auto.source = NoDir /\ put'.dir = put.dir
        BY <1>0, <3>1 DEF PutType
      <3> QED
        BY <1>0, <2>6, <3>1, <3>2 DEF SaveAuto, Accounted, SyncTypes, ConfigType
    <2> QED
      BY <2>1, <2>2, <2>3, <2>4, <2>5, <2>6
  <1>2. SyncTypes'
    BY <1>0, <1>1 DEF SyncTypes
  <1> QED
    BY <1>1, <1>2, OutsideSync

LEMMA OutsideSteps ==
    ASSUME SyncInv,
           \/ \E p \in Photo : Arrive(p) \/ Settle(p)
           \/ NextDay \/ Stop
    PROVE  SyncInv'
  <1>0. SyncTypes /\ Accounted
    BY DEF SyncInv
  <1>1. CASE \E p \in Photo : Arrive(p) \/ Settle(p)
    <2>1. PICK p \in Photo : Arrive(p) \/ Settle(p)
      BY <1>1
    <2>2. /\ \E to \in {"fresh", "settled"} : source' = [source EXCEPT ![p] = to]
          /\ source[p] # "settled"
          /\ UNCHANGED <<settings, copied, day, stop, running, run, last>>
      BY <2>1 DEF Arrive, Settle
    <2>3. SyncTypes' /\ \A q \in Photo : source[q] = "settled" => source'[q] = "settled"
      BY <1>0, <2>2 DEF SyncTypes, settings
    <2> QED
      BY <1>0, <2>2, <2>3, OutsideSync DEF settings, Accounted
  <1>2. CASE NextDay
    <2>1. SyncTypes'
      BY <1>0, <1>2, SyncAssumption DEF SyncTypes, NextDay, Days, settings
    <2> QED
      BY <1>0, <1>2, <2>1, OutsideSync DEF NextDay, settings, Accounted
  <1>3. CASE Stop
    <2>1. SyncTypes'
      BY <1>0, <1>3 DEF SyncTypes, Stop, settings
    <2> QED
      BY <1>0, <1>3, <2>1, OutsideSync DEF Stop, settings, Accounted
  <1> QED
    BY <1>1, <1>2, <1>3

(* The record a run begins with, field by field.                           *)
Begun(q, src, dst, dates, owed, b) ==
    [q EXCEPT !.at = "dates", !.src = src, !.dst = dst, !.dates = dates, !.owed = owed,
              !.blind = b]

LEMMA FirstRun ==
    ASSUME NEW q \in RunType, NEW src \in MaybeDir, NEW dst \in MaybeDir,
           NEW dates \in SUBSET Days, NEW owed \in SUBSET Photo, NEW b \in BOOLEAN
    PROVE  LET f == Begun(q, src, dst, dates, owed, b) IN
           /\ f \in RunType /\ f.at = "dates" /\ f.src = src /\ f.dst = dst
           /\ f.dates = dates /\ f.owed = owed /\ f.blind = b /\ f.seen = q.seen
  BY DEF RunType, Begun

LEMMA OverOK ==
    ASSUME NEW reason \in Reasons, reason # "Completed"
    PROVE  Over(reason) \in RunType /\ Over(reason).at = "ending" /\ RunOK(Over(reason))'
  <1>1. Idle \in RunType /\ Idle.owed = {}
    BY IdleOK DEF Idle
  <1>2. /\ Over(reason) \in RunType /\ Over(reason).at = "ending"
        /\ Over(reason).reason = reason /\ Over(reason).owed = {}
    BY <1>1 DEF Over, RunType
  <1> QED
    BY <1>2 DEF RunOK, Apart, Unseen, Still, Paid, Walking

(* A run starts with a pair whose overlap, if any, all checks were blind   *)
(* to, and with every debt among the dates it is about to take.            *)
LEMMA StartSync ==
    ASSUME SyncInv, NEW r \in Runner, NEW resolves \in BOOLEAN, NEW ready \in BOOLEAN,
           Start(r, resolves, ready)
    PROVE  SyncInv'
  <1> DEFINE dates == Scanned(last, day) \intersect Days
             owed == {p \in Photo : source[p] = "settled" /\ DateOf[p] \in dates}
             fit == /\ config.source # NoDir /\ config.dest # NoDir /\ ready
                    /\ resolves => <<config.source, config.dest>> \notin Overlap
             b == blind /\ ~resolves
             first == Begun(Idle, config.source, config.dest, dates, owed, b)
             none == Over("Unavailable")
  <1>1. /\ ~running /\ running' = TRUE /\ run' = [run EXCEPT ![r] = IF fit THEN first ELSE none]
        /\ UNCHANGED <<settings, source, copied, day, stop, last>>
    BY DEF Start, MayEnter, Begun
  <1>2. config.source \in MaybeDir /\ config.dest \in MaybeDir
    BY DEF SyncInv, SyncTypes, ConfigType
  <1>3. dates \subseteq Days /\ owed \subseteq Photo
    OBVIOUS
  <1>4. \A p \in owed : source[p] = "settled" /\ DateOf[p] \in dates
    OBVIOUS
  <1>5. b \in BOOLEAN /\ (fit /\ <<config.source, config.dest>> \in Overlap => b)
    BY DEF SyncInv, SyncTypes, Accounted
  <1> HIDE DEF dates, owed, b
  <1>6. PICK f \in RunType : /\ f = first /\ f.at = "dates" /\ f.src = config.source
                            /\ f.dst = config.dest /\ f.dates = dates /\ f.owed = owed
                            /\ f.blind = b /\ f.seen = {}
    BY <1>2, <1>3, <1>5, IdleOK, FirstRun
  <1>7. none \in RunType /\ none.at # "off" /\ RunOK(none)'
    BY OverOK DEF Reasons
  <1> HIDE DEF first, none
  <1>8. ASSUME fit PROVE RunOK(f)'
    <2>1. Apart(f)' /\ Unseen(f)'
      BY <1>2, <1>5, <1>6, <1>8 DEF Apart, Unseen, Walking, MaybeDir
    <2>2. Still(f)' /\ Paid(f)'
      BY <1>1, <1>4, <1>6 DEF Still, Paid, Pending, Walking
    <2> QED
      BY <2>1, <2>2 DEF RunOK
  <1> HIDE DEF fit
  <1>9. PICK q \in RunType : /\ run' = [run EXCEPT ![r] = q] /\ q.at # "off" /\ RunOK(q)'
    <2>1. CASE fit
      BY <1>1, <1>6, <1>8, <2>1
    <2>2. CASE ~fit
      BY <1>1, <1>7, <2>2
    <2> QED
      BY <2>1, <2>2
  <1>10. run'[r] = q /\ \A s \in Runner \ {r} : run'[s] = run[s]
    BY <1>9 DEF SyncInv, SyncTypes
  <1>11. SyncTypes' /\ Accounted'
    BY <1>1, <1>9 DEF SyncInv, SyncTypes, Accounted, settings
  <1>12. Exclusive'
    BY <1>1, <1>9, <1>10 DEF SyncInv, Exclusive
  <1>13. ASSUME NEW s \in Runner PROVE RunOK(run[s])'
    <2>1. CASE s = r
      BY <1>9, <1>10, <2>1
    <2>2. CASE s # r
      BY <1>1, <1>10, <2>2
      DEF SyncInv, RunOK, Apart, Unseen, Still, Paid, Pending, Walking
    <2> QED
      BY <2>1, <2>2
  <1> QED
    BY <1>11, <1>12, <1>13 DEF SyncInv

(* The record after entries were seen, or were passed over, field by field.*)
Noted(q, seen, missed, failed) ==
    [q EXCEPT !.seen = seen, !.missed = missed, !.failed = failed]

Alike(q, n) ==
    /\ n.at = q.at /\ n.owed = q.owed /\ n.src = q.src /\ n.dst = q.dst
    /\ n.reason = q.reason /\ n.blind = q.blind /\ n.date = q.date /\ n.dates = q.dates

LEMMA EntrySeen ==
    ASSUME NEW q \in RunType, NEW seen \in SUBSET Photo, NEW missed \in SUBSET Photo,
           NEW failed \in BOOLEAN
    PROVE  LET n == Noted(q, seen, missed, failed) IN
           /\ n \in RunType /\ Alike(q, n)
           /\ n.seen = seen /\ n.missed = missed /\ n.failed = failed
  BY DEF RunType, Noted, Alike

(* What the walk has come to is seen; what it owed of that is copied, or   *)
(* missed, or the run has failed.                                          *)
LEMMA WalkGoesOn ==
    ASSUME SyncInv, NEW r \in Runner, run[r].at = "walk",
           NEW folder \in SUBSET Photo, NEW missed \in SUBSET Photo, NEW failed \in BOOLEAN,
           run' = [run EXCEPT ![r] = Noted(run[r], run[r].seen \union folder, missed, failed)],
           run[r].missed \subseteq missed, run[r].failed = TRUE => failed = TRUE,
           copied \subseteq copied', copied' \subseteq Dir \X Photo,
           \A p \in folder : failed = TRUE \/ p \in missed \/ <<run[r].dst, p>> \in copied'
                              \/ p \notin run[r].owed,
           UNCHANGED <<settings, source, day, running, last>>
    PROVE  SyncInv'
  <1>1. run[r] \in RunType /\ RunOK(run[r]) /\ run[r].seen \union folder \subseteq Photo
    BY DEF SyncInv, SyncTypes, RunType
  <1>2. PICK q : q = Noted(run[r], run[r].seen \union folder, missed, failed)
    OBVIOUS
  <1>3. /\ q \in RunType /\ Alike(run[r], q) /\ q.seen = run[r].seen \union folder
        /\ q.missed = missed /\ q.failed = failed
    BY <1>1, <1>2, EntrySeen
  <1>4. Apart(q)' /\ Unseen(q)' /\ Still(q)'
    BY <1>1, <1>3 DEF RunOK, Apart, Unseen, Still, Walking, Alike
  <1>5. Paid(q)'
    BY <1>1, <1>3 DEF RunOK, Paid, Pending, Walking, Alike
  <1> QED
    BY <1>2, <1>3, <1>4, <1>5, GoesOn DEF RunOK, Alike

(* The steps of a run that is under way and goes on.                       *)
LEMMA RunSteps ==
    ASSUME SyncInv, NEW r \in Runner,
           \/ NextDate(r) \/ Deadline(r) \/ Unlisted(r) \/ EndDate(r) \/ WalkDone(r)
           \/ \E p \in Photo : VisitPasses(r, p) \/ VisitCopies(r, p) \/ VisitFails(r, p)
                               \/ VisitCuts(r, p)
    PROVE  SyncInv'
  <1>0. /\ run[r] \in RunType /\ RunOK(run[r]) /\ run \in [Runner -> RunType]
        /\ copied \subseteq Dir \X Photo /\ source \in [Photo -> {"absent", "fresh", "settled"}]
    BY DEF SyncInv, SyncTypes
  <1> DEFINE kept == UNCHANGED <<settings, source, day, running, last>>
  <1>1. ASSUME run[r].at # "off", NEW reason \in Reasons, reason # "Completed",
               Cut(r, reason), kept, copied' = copied
        PROVE  SyncInv'
    <2>1. PICK q : q = Over(reason)
      OBVIOUS
    <2>2. run' = [run EXCEPT ![r] = q]
      BY <1>1, <2>1 DEF Cut
    <2>3. q \in RunType /\ q.at # "off" /\ RunOK(q)'
      BY <1>1, <2>1, OverOK
    <2> QED
      BY <1>0, <1>1, <2>2, <2>3, GoesOn
  <1>2. CASE NextDate(r)
    <2>1. PICK d \in run[r].dates :
            IF Stopped(r) \/ ~config.enabled THEN Cut(r, "Cancelled")
            ELSE run' = [run EXCEPT ![r].at = "walk", ![r].date = d, ![r].dates = @ \ {d}]
      BY <1>2 DEF NextDate
    <2>2. kept /\ copied' = copied /\ run[r].at = "dates" /\ d \in Days
      BY <1>0, <1>2 DEF NextDate, RunType
    <2>3. CASE Stopped(r) \/ ~config.enabled
      BY <1>1, <2>1, <2>2, <2>3 DEF Reasons
    <2>4. CASE ~(Stopped(r) \/ ~config.enabled)
      <3>1. PICK q : q = [run[r] EXCEPT !.at = "walk", !.date = d, !.dates = @ \ {d}]
        OBVIOUS
      <3>2. run' = [run EXCEPT ![r] = q]
        BY <1>0, <2>1, <2>4, <3>1
      <3>3. /\ q \in RunType /\ q.at = "walk" /\ q.owed = run[r].owed
            /\ q.src = run[r].src /\ q.dst = run[r].dst /\ q.blind = run[r].blind
            /\ q.failed = run[r].failed /\ q.reason = run[r].reason
            /\ q.missed = run[r].missed /\ q.seen = run[r].seen
            /\ q.date = d /\ q.dates = run[r].dates \ {d}
        BY <1>0, <2>2, <3>1 DEF RunType
      <3>4. Apart(q)' /\ Unseen(q)' /\ Still(q)'
        BY <1>0, <2>2, <3>3 DEF RunOK, Apart, Unseen, Still, Walking
      <3>5. Paid(q)'
        <4>1. q.seen = {}
          BY <1>0, <2>2, <3>3 DEF RunOK, Unseen
        <4> QED
          BY <1>0, <2>2, <3>3, <4>1 DEF RunOK, Paid, Pending, Walking
      <3> QED
        BY <1>0, <2>2, <3>2, <3>3, <3>4, <3>5, GoesOn DEF RunOK
    <2> QED
      BY <2>3, <2>4
  <1>3. CASE Deadline(r)
    BY <1>1, <1>3 DEF Deadline, Reasons
  <1>4. CASE \E p \in Photo : VisitCuts(r, p)
    BY <1>1, <1>4 DEF VisitCuts, Visits, Reasons
  <1>5. CASE \E p \in Photo : VisitPasses(r, p)
    <2>1. PICK p \in Photo : VisitPasses(r, p)
      BY <1>5
    <2>2. PICK verdict \in Verdicts(r, p) \ {"Admit"} :
            /\ Visits(r, p) /\ kept /\ copied' = copied
            /\ run' = [run EXCEPT ![r].seen = @ \union {p},
                                  ![r].missed = IF verdict = "Reject" THEN @ \union {p} ELSE @]
      BY <2>1 DEF VisitPasses
    <2>3. PICK missed \in SUBSET Photo :
            missed = IF verdict = "Reject" THEN run[r].missed \union {p} ELSE run[r].missed
      BY <1>0 DEF RunType
    <2>4. PICK failed \in BOOLEAN : failed = run[r].failed
      BY <1>0 DEF RunType
    <2>5. PICK folder \in SUBSET Photo : folder = {p}
      OBVIOUS
    <2>6. run' = [run EXCEPT ![r] = Noted(run[r], run[r].seen \union folder, missed, failed)]
      BY <1>0, <2>2, <2>3, <2>4, <2>5 DEF Noted, RunType
    <2>7. run[r].at = "walk" /\ kept /\ copied' = copied /\ copied' \subseteq Dir \X Photo
      BY <1>0, <2>2 DEF Visits
    <2>8. p \in missed \/ <<run[r].dst, p>> \in copied \/ p \notin run[r].owed
      <3>1. p \in run[r].owed => source[p] # "fresh"
        BY <1>0, <2>7 DEF RunOK, Still
      <3> QED
        BY <2>2, <2>3, <3>1 DEF Verdicts
    <2>9. /\ run[r].missed \subseteq missed
          /\ \A x \in folder : x \in missed \/ <<run[r].dst, x>> \in copied'
                              \/ x \notin run[r].owed
      BY <2>3, <2>5, <2>7, <2>8
    <2>10. run[r].failed = TRUE => failed = TRUE
      BY <2>4
    <2> QED
      BY SyncInv, <2>6, <2>7, <2>9, <2>10, WalkGoesOn
  <1>6. CASE \E p \in Photo : VisitCopies(r, p)
    <2>1. PICK p \in Photo : VisitCopies(r, p)
      BY <1>6
    <2>2. run[r].at = "walk" /\ kept /\ copied' = copied \union {<<run[r].dst, p>>}
      BY <2>1 DEF VisitCopies, Visits
    <2>3. PICK failed \in BOOLEAN : failed = run[r].failed
      BY <1>0 DEF RunType
    <2>4. run' = [run EXCEPT ![r] = Noted(run[r], run[r].seen \union {p}, run[r].missed, failed)]
      BY <1>0, <2>1, <2>3 DEF VisitCopies, Noted, RunType
    <2>5. /\ {p} \in SUBSET Photo /\ copied' \subseteq Dir \X Photo
          /\ copied \subseteq copied' /\ <<run[r].dst, p>> \in copied'
      BY <1>0, <2>2 DEF RunOK, Apart, Walking
    <2>6. run[r].missed \in SUBSET Photo
      BY <1>0 DEF RunType
    <2>7. run[r].failed = TRUE => failed = TRUE
      BY <2>3
    <2>8. \A x \in {p} : failed = TRUE \/ x \in run[r].missed \/ <<run[r].dst, x>> \in copied'
                          \/ x \notin run[r].owed
      BY <2>5
    <2>9. UNCHANGED <<settings, source, day, running, last>>
      BY <2>2
    <2> QED
      BY SyncInv, <2>2, <2>7, <2>8, <2>9, <2>4, <2>5, <2>6, WalkGoesOn
  <1>7. CASE \E p \in Photo : VisitFails(r, p)
    <2>1. PICK p \in Photo : VisitFails(r, p)
      BY <1>7
    <2>2. run[r].at = "walk" /\ kept /\ copied' = copied
      BY <2>1 DEF VisitFails, Visits
    <2>3. run' = [run EXCEPT ![r] = Noted(run[r], run[r].seen \union {p}, run[r].missed, TRUE)]
      BY <1>0, <2>1 DEF VisitFails, Noted, RunType
    <2>4. run[r].missed \in SUBSET Photo
      BY <1>0 DEF RunType
    <2>5. {p} \in SUBSET Photo /\ TRUE \in BOOLEAN /\ copied' \subseteq Dir \X Photo
      BY <1>0, <2>2
    <2>6. UNCHANGED <<settings, source, day, running, last>>
      BY <2>2
    <2> QED
      BY SyncInv, <2>2, <2>3, <2>4, <2>5, <2>6, WalkGoesOn
  <1>8. CASE Unlisted(r)
    <2>1. PICK folder \in SUBSET Photo :
            run' = [run EXCEPT ![r].seen = @ \union folder, ![r].missed = @ \union folder]
      BY <1>8 DEF Unlisted, Listed
    <2>2. run[r].at = "walk" /\ kept /\ copied' = copied
      BY <1>8 DEF Unlisted
    <2>3. PICK missed \in SUBSET Photo : missed = run[r].missed \union folder
      BY <1>0 DEF RunType
    <2>4. PICK failed \in BOOLEAN : failed = run[r].failed
      BY <1>0 DEF RunType
    <2>5. run' = [run EXCEPT ![r] = Noted(run[r], run[r].seen \union folder, missed, failed)]
      BY <1>0, <2>1, <2>3, <2>4 DEF Noted, RunType
    <2>6. copied' \subseteq Dir \X Photo
      BY <1>0, <2>2
    <2>7. run[r].missed \subseteq missed /\ \A p \in folder : p \in missed
      BY <2>3
    <2>8. run[r].failed = TRUE => failed = TRUE
      BY <2>4
    <2> QED
      BY SyncInv, <2>2, <2>8, <2>3, <2>5, <2>6, <2>7, WalkGoesOn
  <1>9. CASE EndDate(r)
    <2>1. PICK q : q = [run[r] EXCEPT !.at = "dates", !.date = 0, !.seen = {}]
      OBVIOUS
    <2>2. /\ run[r].at = "walk" /\ kept /\ copied' = copied /\ run' = [run EXCEPT ![r] = q]
          /\ Listed(r) \subseteq run[r].seen
      BY <1>0, <1>9, <2>1 DEF EndDate
    <2>3. /\ q \in RunType /\ q.at = "dates" /\ q.owed = run[r].owed
          /\ q.src = run[r].src /\ q.dst = run[r].dst /\ q.blind = run[r].blind
          /\ q.failed = run[r].failed /\ q.reason = run[r].reason
          /\ q.missed = run[r].missed /\ q.dates = run[r].dates /\ q.seen = {}
      BY <1>0, <2>1 DEF RunType
    <2>4. Apart(q)' /\ Unseen(q)' /\ Still(q)'
      BY <1>0, <2>2, <2>3 DEF RunOK, Apart, Unseen, Still, Walking
    <2>5. Paid(q)'
      <3>1. \A p \in run[r].owed : DateOf[p] = run[r].date => p \in run[r].seen
        BY <1>0, <2>2 DEF RunOK, Still, Listed, RunType
      <3> QED
        BY <1>0, <2>2, <2>3, <3>1 DEF RunOK, Paid, Pending, Walking
    <2> QED
      BY <1>0, <2>2, <2>3, <2>4, <2>5, GoesOn DEF RunOK
  <1>10. CASE WalkDone(r)
    <2>1. PICK q : q = [run[r] EXCEPT !.at = "ending"]
      OBVIOUS
    <2>2. /\ run[r].at = "dates" /\ run[r].dates = {} /\ kept /\ copied' = copied
          /\ run' = [run EXCEPT ![r] = q]
      BY <1>0, <1>10, <2>1 DEF WalkDone
    <2>3. /\ q \in RunType /\ q.at = "ending" /\ q.owed = run[r].owed
          /\ q.dst = run[r].dst /\ q.missed = run[r].missed
          /\ q.failed = run[r].failed /\ q.reason = run[r].reason
      BY <1>0, <2>1 DEF RunType
    <2>4. RunOK(q)'
      BY <1>0, <2>2, <2>3 DEF RunOK, Apart, Unseen, Still, Paid, Pending, Walking
    <2> QED
      BY <1>0, <2>2, <2>3, <2>4, GoesOn
  <1> QED
    BY <1>2, <1>3, <1>4, <1>5, <1>6, <1>7, <1>8, <1>9, <1>10

(* A run that ends, or is lost, leaves nobody running.                     *)
LEMMA RunIsOver ==
    ASSUME SyncInv, NEW r \in Runner, run[r].at # "off",
           run' = [run EXCEPT ![r] = Idle], running' = FALSE, last' \in {last, day},
           UNCHANGED <<settings, source, copied, day, stop>>
    PROVE  SyncInv'
  <1>1. run'[r] = Idle /\ \A s \in Runner \ {r} : run'[s] = run[s]
    BY DEF SyncInv, SyncTypes
  <1>2. SyncTypes' /\ Accounted'
    <2>1. last' \in 0..day'
      BY SyncAssumption DEF SyncInv, SyncTypes, Days
    <2>2. run' \in [Runner -> RunType]
      BY IdleOK DEF SyncInv, SyncTypes
    <2> QED
      BY <2>1, <2>2 DEF SyncInv, SyncTypes, Accounted, settings
  <1>3. Exclusive'
    BY <1>1, IdleOK DEF SyncInv, Exclusive
  <1>4. ASSUME NEW s \in Runner PROVE RunOK(run[s])'
    <2>1. run'[s].at = "off"
      BY <1>1, IdleOK DEF SyncInv, Exclusive
    <2> QED
      BY <2>1 DEF RunOK, Apart, Unseen, Still, Paid, Walking
  <1> QED
    BY <1>2, <1>3, <1>4 DEF SyncInv

LEMMA NextSync ==
    ASSUME SyncInv, [Next]_vars
    PROVE  SyncInv'
  <1>1. ASSUME NEW r \in Runner, NEW resolves \in BOOLEAN, NEW ready \in BOOLEAN,
               Start(r, resolves, ready)
        PROVE  SyncInv'
    BY <1>1, StartSync
  <1>2. ASSUME NEW r \in Runner, Step(r) PROVE SyncInv'
    <2>1. CASE Raise(r)
      BY <2>1, RunIsOver DEF Raise
    <2>2. CASE \E saved \in BOOLEAN : Finish(r, saved)
      BY <2>2, RunIsOver DEF Finish, Stored
    <2> QED
      BY <1>2, <2>1, <2>2, RunSteps DEF Step
  <1>3. CASE UNCHANGED vars
    BY <1>3 DEF vars, settings, SyncInv, SyncTypes, Accounted, Exclusive, RunOK, Apart,
                Unseen, Still, Paid, Pending, Walking
  <1> QED
    BY <1>1, <1>2, <1>3, OutsideSteps, RouteSteps DEF Next

LEMMA SyncAlways == Spec => []SyncInv
  <1>1. Init => SyncInv
    BY InitSync
  <1>2. SyncInv /\ [Next]_vars => SyncInv'
    BY NextSync
  <1> QED
    BY <1>1, <1>2, PTL DEF Spec
-----------------------------------------------------------------------------
(* The worker and the manual run exclude each other, and the flag is set   *)
(* exactly while one of them runs.                                         *)
THEOREM RunsExcludeEachOther == Spec => []RunsExclude
  <1>1. SyncInv => RunsExclude
    BY DEF SyncInv, SyncTypes, Exclusive, RunsExclude, TypeOK, RunType, MaybeDir, ConfigType
  <1> QED
    BY <1>1, SyncAlways, PTL

(* A run copies between overlapping directories only when the settings     *)
(* routes were blind to the overlap and its own check was too.             *)
THEOREM IntoItselfOnlyBlindly == Spec => []NeverIntoItself
  <1>1. SyncInv => NeverIntoItself
    BY DEF SyncInv, RunOK, Apart, Walking, NeverIntoItself
  <1> QED
    BY <1>1, SyncAlways, PTL

(* A day is recorded as completed only by a run that came to every photo   *)
(* it owed: each is copied, or is one of those the walk passed over        *)
(* without counting it as failed.                                          *)
THEOREM DayRecordedWhenPaid == Spec => CompletedMeansCopied
  <1> DEFINE Recorded ==
        \A r \in Runner :
          run[r].at = "ending" /\ run'[r].at = "off" /\ last' # last =>
            \A p \in run[r].owed \ run[r].missed : <<run[r].dst, p>> \in copied
  <1>1. ASSUME SyncInv, [Next]_vars PROVE Recorded \/ UNCHANGED vars
    <2>1. CASE last' = last
      BY <2>1
    <2>2. CASE last' # last
      <3>1. PICK s \in Runner, saved \in BOOLEAN : Finish(s, saved)
        BY <1>1, <2>2
        DEF Next, vars, settings, Step, Arrive, Settle, NextDay, Stop, CheckDir, CheckAuto,
            SaveDir, SaveAuto, Start, NextDate, Deadline, Unlisted, EndDate, WalkDone, Raise,
            VisitPasses, VisitCopies, VisitFails, VisitCuts
      <3>2. /\ run[s].at = "ending" /\ run[s].reason = "Completed" /\ ~run[s].failed
        BY <2>2, <3>1 DEF Finish, Stored
      <3>3. \A r \in Runner : run[r].at = "ending" => r = s
        BY <1>1, <3>2 DEF SyncInv, Exclusive
      <3> QED
        BY <1>1, <3>2, <3>3 DEF SyncInv, RunOK, Paid, Pending, Walking
    <2> QED
      BY <2>1, <2>2
  <1>2. SyncInv /\ [Next]_vars => [Recorded]_vars
    BY <1>1
  <1> HIDE DEF Recorded
  <1>3. Spec => [][Recorded]_vars
    BY <1>2, SyncAlways, PTL DEF Spec
  <1> QED
    BY <1>3 DEF Recorded, CompletedMeansCopied
=============================================================================
