------------------------------ MODULE PhotoSync ------------------------------
(***************************************************************************)
(* The auto-copy of photos from a source share to the photos directory:    *)
(* the scheduled worker and the manual run, the settings they read, and    *)
(* the two settings routes that change those while a run is under way.     *)
(*                                                                         *)
(* A directory is a name; Overlap says which pairs lie inside each other.  *)
(* A photo belongs to the folder of one date and appears in the source on  *)
(* that day or later; it is fresh until it was quiet for long enough.  The *)
(* source is a share that may drop out and come back at any time: whoever  *)
(* reaches for it may find it or not.                                      *)
(*                                                                         *)
(* Two parts of the state are history, which no step reads to decide       *)
(* anything: what a run passed over (missed), and that directories overlap *)
(* and the check for it could not tell (blind).                            *)
(***************************************************************************)
EXTENDS SyncWindow, FiniteSets

CONSTANTS
    Photo, DateOf,      \* the photos and the day whose folder they are in
    Dir, NoDir,
    SourceDir,          \* the directories that are offered as a source
    Overlap,            \* the pairs of directories that are equal or nested
    Runner,             \* the threads that may run the copy
    Scheduled,          \* of those, the worker of the lifespan
    MaxDay              \* the days of the instance

Days == 1..MaxDay

ASSUME SyncAssumption ==
    /\ MaxDay \in Nat \ {0} /\ DateOf \in [Photo -> Days]
    /\ NoDir \notin Dir /\ SourceDir \subseteq Dir /\ Overlap \subseteq Dir \X Dir
    /\ \A d \in Dir : <<d, d>> \in Overlap
    /\ Scheduled \in Runner

VARIABLES
    config,     \* runtime-config.json and its cache: enabled, source, dest
    put,        \* what each settings route has checked and not yet saved
    blind,      \* whether the saved directories overlap unnoticed
    source,     \* each photo in the source: absent, fresh or settled
    copied,     \* the pairs <<directory, photo>> that were copied
    day,        \* today
    stop,       \* whether the worker was told to stop
    alive,      \* whether the worker thread still runs
    running,    \* _worker_running
    run,        \* what each runner is doing
    last        \* last_completed_date of photo-sync-state.json, 0 for none

settings == <<config, put, blind>>

vars == <<settings, source, copied, day, stop, alive, running, run, last>>
-----------------------------------------------------------------------------
Reasons == {"Completed", "Cancelled", "Capped", "Unavailable"}

Defaults == [enabled |-> FALSE, source |-> NoDir, dest |-> NoDir]

Idle == [at |-> "off", src |-> NoDir, dst |-> NoDir, dates |-> {}, date |-> 0,
         seen |-> {}, failed |-> FALSE, reason |-> "Completed",
         owed |-> {}, missed |-> {}, blind |-> FALSE]

(* A run that was broken off: nothing but the reason matters from then on. *)
Over(reason) == [Idle EXCEPT !.at = "ending", !.reason = reason]

NoPut == [dir |-> [to |-> NoDir, blind |-> FALSE],
          auto |-> [busy |-> FALSE, enabled |-> FALSE, source |-> NoDir, blind |-> FALSE]]
-----------------------------------------------------------------------------
Init ==
    /\ config = Defaults
    /\ put = NoPut /\ blind = FALSE
    /\ source \in [Photo -> {"absent", "fresh", "settled"}]
    /\ \A p \in Photo : source[p] # "absent" => DateOf[p] = 1
    /\ copied = {}
    /\ day = 1 /\ stop = FALSE
    /\ alive = TRUE /\ running = FALSE
    /\ run = [r \in Runner |-> Idle]
    /\ last = 0

(* The outside: photos arrive and come to rest, days pass, the process is  *)
(* told to end.                                                            *)
Arrive(p) ==
    /\ source[p] = "absent" /\ DateOf[p] <= day
    /\ source' = [source EXCEPT ![p] = "fresh"]
    /\ UNCHANGED <<settings, copied, day, stop, alive, running, run, last>>

Settle(p) ==
    /\ source[p] = "fresh"
    /\ source' = [source EXCEPT ![p] = "settled"]
    /\ UNCHANGED <<settings, copied, day, stop, alive, running, run, last>>

NextDay ==
    /\ day < MaxDay
    /\ day' = day + 1
    /\ UNCHANGED <<settings, source, copied, stop, alive, running, run, last>>

Stop ==
    /\ ~stop /\ stop' = TRUE
    /\ UNCHANGED <<settings, source, copied, day, alive, running, run, last>>
-----------------------------------------------------------------------------
(* put_photos_dir: the overlap with the source is checked against the      *)
(* settings as they are, the save follows later.  When the directories     *)
(* cannot be resolved the check is left out.                               *)
CheckDir(d, resolves) ==
    /\ put.dir.to = NoDir
    /\ LET overlaps == <<config.source, d>> \in Overlap IN
       /\ resolves => ~overlaps
       /\ put' = [put EXCEPT !.dir = [to |-> d, blind |-> overlaps /\ ~resolves]]
    /\ UNCHANGED <<config, blind, source, copied, day, stop, alive, running, run, last>>

(* save_runtime_config replaces the file and then the cache, or fails and  *)
(* leaves both.  What the other route has checked meanwhile is out of date.*)
SaveDir(ok) ==
    /\ put.dir.to # NoDir
    /\ IF ok
       THEN /\ config' = [config EXCEPT !.dest = put.dir.to]
            /\ blind' = put.dir.blind
            /\ put' = [dir |-> NoPut.dir, auto |-> [put.auto EXCEPT
                         !.blind = <<put.auto.source, put.dir.to>> \in Overlap]]
       ELSE put' = [put EXCEPT !.dir = NoPut.dir] /\ UNCHANGED <<config, blind>>
    /\ UNCHANGED <<source, copied, day, stop, alive, running, run, last>>

(* Mutant of CheckAuto: the destination is looked at only when the copy is *)
(* already switched on.                                                    *)
CheckAutoEnabled(enabled, d, resolves) ==
    /\ ~put.auto.busy
    /\ enabled => d # NoDir
    /\ LET overlaps == config.enabled /\ <<d, config.dest>> \in Overlap IN
       /\ resolves => ~overlaps
       /\ put' = [put EXCEPT !.auto = [busy |-> TRUE, enabled |-> enabled, source |-> d,
                                       blind |-> overlaps /\ ~resolves]]
    /\ UNCHANGED <<config, blind, source, copied, day, stop, alive, running, run, last>>

(* put_auto_copy, with the same check the other way round.  The source may *)
(* be left blank only when the copy is switched off.                       *)
CheckAuto(enabled, d, resolves) ==
    /\ ~put.auto.busy
    /\ enabled => d # NoDir
    /\ LET overlaps == <<d, config.dest>> \in Overlap IN
       /\ resolves => ~overlaps
       /\ put' = [put EXCEPT !.auto = [busy |-> TRUE, enabled |-> enabled, source |-> d,
                                       blind |-> overlaps /\ ~resolves]]
    /\ UNCHANGED <<config, blind, source, copied, day, stop, alive, running, run, last>>

SaveAuto(ok) ==
    /\ put.auto.busy
    /\ IF ok
       THEN /\ config' = [config EXCEPT !.enabled = put.auto.enabled,
                                        !.source = put.auto.source]
            /\ blind' = put.auto.blind
            /\ put' = [auto |-> NoPut.auto, dir |-> [put.dir EXCEPT
                         !.blind = <<put.auto.source, put.dir.to>> \in Overlap]]
       ELSE put' = [put EXCEPT !.auto = NoPut.auto] /\ UNCHANGED <<config, blind>>
    /\ UNCHANGED <<source, copied, day, stop, alive, running, run, last>>
-----------------------------------------------------------------------------
(* Nobody runs: the flag is tested and set under one lock.                 *)
MayEnter(r) == run[r].at = "off" /\ ~running

(* The worker is asked by the clock, a manual run by its route alone.      *)
Called(r) ==
    /\ config.enabled
    /\ r = Scheduled => alive /\ ~stop /\ Due(last, day, TRUE)

(* A tick of the worker that finds the run due, or a manual run, which is  *)
(* not asked and has a stop event of its own: _run_photo_sync_locked up to *)
(* the walk.  Directories that cannot be resolved are not compared, and    *)
(* the run goes on.  Either may not be there (ready).                      *)
Start(r, resolves, ready) ==
    /\ MayEnter(r) /\ Called(r)
    /\ running' = TRUE
    /\ LET dates == Scanned(last, day) \intersect Days
           fit == /\ config.source # NoDir /\ config.dest # NoDir /\ ready
                  /\ resolves => <<config.source, config.dest>> \notin Overlap
       IN run' = [run EXCEPT ![r] =
            IF fit
            THEN [Idle EXCEPT !.at = "dates", !.src = config.source,
                              !.dst = config.dest, !.dates = dates,
                              !.owed = {p \in Photo : source[p] = "settled" /\ DateOf[p] \in dates},
                              !.blind = blind /\ ~resolves]
            ELSE Over("Unavailable")]
    /\ UNCHANGED <<settings, source, copied, day, stop, alive, last>>

Stopped(r) == r = Scheduled /\ stop

(* Mutant of Cut: the walk is left without a word to the run.              *)
CutUnnoted(r, reason) == run' = [run EXCEPT ![r].at = "ending"]

Cut(r, reason) == run' = [run EXCEPT ![r] = Over(reason)]

(* The next date of the window, newest first.                              *)
NextDate(r) ==
    /\ run[r].at = "dates"
    /\ \E d \in run[r].dates :
         /\ \A e \in run[r].dates : e <= d
         /\ IF Stopped(r) \/ ~config.enabled THEN Cut(r, "Cancelled")
            ELSE run' = [run EXCEPT ![r].at = "walk", ![r].date = d, ![r].dates = @ \ {d}]
    /\ UNCHANGED <<settings, source, copied, day, stop, alive, running, last>>

(* The photos in the folder of the date at hand.                           *)
Listed(r) == {p \in Photo : DateOf[p] = run[r].date /\ source[p] # "absent"}

(* The run has used up its time when it comes to the next date or enters a *)
(* folder.                                                                 *)
Deadline(r) ==
    /\ \/ run[r].at = "dates" /\ run[r].dates # {} /\ config.enabled
       \/ run[r].at = "walk"
    /\ ~Stopped(r)
    /\ Cut(r, "Capped")
    /\ UNCHANGED <<settings, source, copied, day, stop, alive, running, last>>

(* What one entry of the walk may come to.  Whatever it is, it may be      *)
(* rejected because it cannot be resolved or looked at; a copy that cannot *)
(* be looked at is made again.                                             *)
Verdicts(r, p) ==
    {"Reject"} \union
    (IF source[p] = "fresh" THEN {"DeferQuiet"}
     ELSE IF <<run[r].dst, p>> \in copied THEN {"SkipUnchanged", "Admit"}
     ELSE {"Admit"})

(* The walk comes to an entry, and nothing has told it to end.             *)
Visits(r, p) ==
    /\ run[r].at = "walk" /\ p \in Listed(r) \ run[r].seen
    /\ ~Stopped(r) /\ config.enabled

(* An entry that is not copied is passed over and not counted as failed.   *)
VisitPasses(r, p) ==
    /\ Visits(r, p)
    /\ \E verdict \in Verdicts(r, p) \ {"Admit"} :
         run' = [run EXCEPT ![r].seen = @ \union {p},
                            ![r].missed = IF verdict = "Reject" THEN @ \union {p} ELSE @]
    /\ UNCHANGED <<settings, source, copied, day, stop, alive, running, last>>

VisitCopies(r, p) ==
    /\ Visits(r, p)
    /\ "Admit" \in Verdicts(r, p)
    /\ copied' = copied \union {<<run[r].dst, p>>}
    /\ run' = [run EXCEPT ![r].seen = @ \union {p}]
    /\ UNCHANGED <<settings, source, day, stop, alive, running, last>>

(* The entry was admitted and its second stat raises: it counts as failed. *)
(* The answer to the first is mostly kept, so this hardly ever happens.    *)
VisitFails(r, p) ==
    /\ Visits(r, p)
    /\ "Admit" \in Verdicts(r, p)
    /\ run' = [run EXCEPT ![r].seen = @ \union {p}, ![r].failed = TRUE]
    /\ UNCHANGED <<settings, source, copied, day, stop, alive, running, last>>

(* The copy meets a cap, the deadline or an error of either side, and the  *)
(* whole run ends; or the copy was switched off or stopped.                *)
VisitCuts(r, p) ==
    /\ \/ /\ run[r].at = "walk" /\ p \in Listed(r) \ run[r].seen
          /\ Stopped(r) \/ ~config.enabled
          /\ Cut(r, "Cancelled")
       \/ /\ Visits(r, p) /\ "Admit" \in Verdicts(r, p)
          /\ \E reason \in Reasons \ {"Completed"} : Cut(r, reason)
    /\ UNCHANGED <<settings, source, copied, day, stop, alive, running, last>>

(* A folder or sub-folder that is not to be seen or cannot be listed, or   *)
(* is entered after the stop, is passed over without a reason.             *)
Unlisted(r) ==
    /\ run[r].at = "walk"
    /\ \E folder \in SUBSET (Listed(r) \ run[r].seen) \ {{}} :
         run' = [run EXCEPT ![r].seen = @ \union folder, ![r].missed = @ \union folder]
    /\ UNCHANGED <<settings, source, copied, day, stop, alive, running, last>>

(* Mutant of EndDate: a date with a photo that was not quiet is walked     *)
(* again.                                                                  *)
EndDateRetries(r) ==
    /\ run[r].at = "walk" /\ Listed(r) \subseteq run[r].seen
    /\ run' = [run EXCEPT ![r].at = "dates", ![r].date = 0, ![r].seen = {}, ![r].dates =
         IF \E p \in Listed(r) : source[p] = "fresh" THEN @ \union {run[r].date} ELSE @]
    /\ UNCHANGED <<settings, source, copied, day, stop, alive, running, last>>

(* The listing is at its end.                                              *)
EndDate(r) ==
    /\ run[r].at = "walk" /\ Listed(r) \subseteq run[r].seen
    /\ run' = [run EXCEPT ![r].at = "dates", ![r].date = 0, ![r].seen = {}]
    /\ UNCHANGED <<settings, source, copied, day, stop, alive, running, last>>

WalkDone(r) ==
    /\ run[r].at = "dates" /\ run[r].dates = {}
    /\ run' = [run EXCEPT ![r].at = "ending"]
    /\ UNCHANGED <<settings, source, copied, day, stop, alive, running, last>>

(* Mutant of Raise: the flag is cleared only when the run returns.         *)
RaiseHolding(r) ==
    /\ run[r].at = "walk"
    /\ run' = [run EXCEPT ![r] = Idle]
    /\ alive' = (alive /\ r # Scheduled)
    /\ UNCHANGED <<settings, source, copied, day, stop, running, last>>

(* The next entry of a folder cannot be read: nothing catches the error.   *)
(* The flag is cleared, and the worker thread is gone for good.            *)
Raise(r) ==
    /\ run[r].at = "walk"
    /\ running' = FALSE
    /\ run' = [run EXCEPT ![r] = Idle]
    /\ alive' = (alive /\ r # Scheduled)
    /\ UNCHANGED <<settings, source, copied, day, stop, last>>

(* A save that fails is only logged.                                       *)
Stored(saved, date) == IF saved THEN date ELSE last

(* The outcome is saved; the flag is cleared whatever becomes of it.       *)
Finish(r, saved) ==
    /\ run[r].at = "ending"
    /\ last' = Stored(saved, IF run[r].reason = "Completed" /\ ~run[r].failed
                             THEN day ELSE last)
    /\ running' = FALSE
    /\ run' = [run EXCEPT ![r] = Idle]
    /\ UNCHANGED <<settings, source, copied, day, stop, alive>>
-----------------------------------------------------------------------------
Step(r) ==
    \/ NextDate(r) \/ Deadline(r) \/ Unlisted(r) \/ EndDate(r) \/ WalkDone(r) \/ Raise(r)
    \/ \E p \in Photo : VisitPasses(r, p) \/ VisitCopies(r, p) \/ VisitFails(r, p)
                        \/ VisitCuts(r, p)
    \/ \E saved \in BOOLEAN : Finish(r, saved)

Next ==
    \/ \E p \in Photo : Arrive(p) \/ Settle(p)
    \/ NextDay \/ Stop
    \/ \E d \in Dir, resolves \in BOOLEAN : CheckDir(d, resolves)
    \/ \E enabled \in BOOLEAN, d \in SourceDir \union {NoDir}, resolves \in BOOLEAN :
         CheckAuto(enabled, d, resolves)
    \/ \E ok \in BOOLEAN : SaveDir(ok) \/ SaveAuto(ok)
    \/ \E r \in Runner, resolves, ready \in BOOLEAN : Start(r, resolves, ready)
    \/ \E r \in Runner : Step(r)

Spec == Init /\ [][Next]_vars

(* A run that is under way keeps going.                                    *)
Fairness == \A r \in Runner : WF_vars(Step(r))

FairSpec == Spec /\ Fairness
-----------------------------------------------------------------------------
TypeOK ==
    /\ config \in [enabled : BOOLEAN, source : Dir \union {NoDir}, dest : Dir \union {NoDir}]
    /\ source \in [Photo -> {"absent", "fresh", "settled"}]
    /\ copied \subseteq Dir \X Photo
    /\ day \in Days /\ last \in 0..day
    /\ \A r \in Runner :
         /\ run[r].at \in {"off", "dates", "walk", "ending"}
         /\ run[r].dates \subseteq Days /\ run[r].reason \in Reasons
         /\ run[r].seen \subseteq Photo

(* The worker and the manual run never copy at the same time, and the flag *)
(* that keeps them apart is set exactly while one of them runs.            *)
RunsExclude ==
    /\ TypeOK
    /\ \A r1, r2 \in Runner : run[r1].at # "off" /\ run[r2].at # "off" => r1 = r2
    /\ running <=> \E r \in Runner : run[r].at # "off"

(* A run copies between directories that lie inside each other only if     *)
(* every look at the pair failed to see it: the run's own could not        *)
(* resolve them, and the route that completed the pair could not either or *)
(* had looked at settings that the other route replaced before the save.   *)
NeverIntoItself ==
    \A r \in Runner :
      run[r].at \in {"dates", "walk"} /\ <<run[r].src, run[r].dst>> \in Overlap =>
        run[r].blind

(* A day is recorded as completed only by a run that came to every photo   *)
(* that was settled in its window when it began: whatever caps, deadlines, *)
(* failures, outages, switches and stops it met, each was copied, or is    *)
(* one of those the walk passes over without a word.                       *)
CompletedMeansCopied ==
    [][\A r \in Runner :
         run[r].at = "ending" /\ run'[r].at = "off" /\ last' # last =>
           \A p \in run[r].owed \ run[r].missed : <<run[r].dst, p>> \in copied]_vars

(* Every run ends and lets the next one in.                                *)
RunEnds == \A r \in Runner : run[r].at # "off" ~> run[r].at = "off"
=============================================================================
