----------------------------- MODULE SyncWindow -----------------------------
(***************************************************************************)
(* Which dates a run of the photo copy looks at.  A date is the number of  *)
(* its day; 0 stands for no completed run yet.                             *)
(***************************************************************************)
EXTENDS Integers

CONSTANTS
    Lookback,       \* shipping_photos_auto_copy_lookback_days
    LookbackMax     \* shipping_photos_auto_copy_lookback_max_days

ASSUME WindowAssumption == Lookback \in Nat \ {0} /\ LookbackMax \in Nat \ {0}

(* A worker's run is due once a day, from its time of day on.              *)
Due(completed, today, timeReached) == completed < today /\ timeReached

(* Dates before the lookback are wanted only after days without a          *)
(* completed run.                                                          *)
WindowStart(completed, today) ==
    LET usual == today - Lookback + 1 IN
    IF completed # 0 /\ completed < usual THEN completed + 1 ELSE usual

(* None is scanned that lies further back than the maximum.                *)
Oldest(completed, today) ==
    LET start == WindowStart(completed, today)
        bound == today - LookbackMax + 1
    IN  IF start < bound THEN bound ELSE start

Scanned(completed, today) == Oldest(completed, today)..today

(* What is left out is reported with the run.                              *)
NotScanned(completed, today) ==
    WindowStart(completed, today)..(Oldest(completed, today) - 1)
=============================================================================
