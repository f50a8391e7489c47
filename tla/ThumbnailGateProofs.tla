------------------------- MODULE ThumbnailGateProofs -------------------------
(***************************************************************************)
(* What TLAPS proves of ThumbnailGate, for every number of threads, photos *)
(* and permits:                                                            *)
(*   - the state is well typed and the gate counts right (GateSound);      *)
(*   - no wakeup is lost (NoWakeupLost);                                   *)
(*   - who waits for a thumbnail waits for a thread that has its permit    *)
(*     (WaitersAreServed);                                                 *)
(*   - at most MaxConcurrent photos are decoded at a time, none of them    *)
(*     twice (DecodingIsPooled).                                           *)
(***************************************************************************)
EXTENDS ThumbnailGate, FiniteSetTheorems, TLAPS

(* The steps of one thread that no other thread takes part in.             *)
Alone(t) == \A s \in Thread \ {t} : pc'[s] = pc[s]

(* How many threads are somewhere is a number.                             *)
LEMMA AtFinite ==
    ASSUME NEW L
    PROVE  IsFiniteSet(At(L)) /\ Cardinality(At(L)) \in Nat
BY GateAssumption, FS_Subset, FS_CardinalityType DEF At

(* What a set of places gains and loses when one thread moves.             *)
LEMMA Moved ==
    ASSUME NEW t \in Thread, Alone(t), NEW L
    PROVE  /\ (pc[t] \in L <=> pc'[t] \in L) => At(L)' = At(L)
           /\ pc[t] \notin L /\ pc'[t] \in L =>
                 /\ At(L)' = At(L) \union {t}
                 /\ Cardinality(At(L)') = Cardinality(At(L)) + 1
           /\ pc[t] \in L /\ pc'[t] \notin L =>
                 /\ At(L)' = At(L) \ {t}
                 /\ Cardinality(At(L)') = Cardinality(At(L)) - 1
                 /\ Cardinality(At(L)) > 0
<1>1. (pc[t] \in L <=> pc'[t] \in L) => At(L)' = At(L)
  BY DEF At, Alone
<1>2. ASSUME pc[t] \notin L, pc'[t] \in L
      PROVE  /\ At(L)' = At(L) \union {t}
             /\ Cardinality(At(L)') = Cardinality(At(L)) + 1
  <2>1. At(L)' = At(L) \union {t} /\ t \notin At(L)
    BY <1>2 DEF At, Alone
  <2> QED
    BY <2>1, AtFinite, FS_AddElement
<1>3. ASSUME pc[t] \in L, pc'[t] \notin L
      PROVE  /\ At(L)' = At(L) \ {t}
             /\ Cardinality(At(L)') = Cardinality(At(L)) - 1
             /\ Cardinality(At(L)) > 0
  <2>1. At(L)' = At(L) \ {t} /\ t \in At(L)
    BY <1>3 DEF At, Alone
  <2>2. Cardinality(At(L)') = Cardinality(At(L)) - 1
    BY <2>1, AtFinite, FS_RemoveElement
  <2>3. Cardinality(At(L)) # 0
    BY <2>1, AtFinite, FS_EmptySet
  <2> QED
    BY <2>1, <2>2, <2>3, AtFinite
<1> QED
  BY <1>1, <1>2, <1>3

(* A step that neither enters nor leaves the gate, and wakes and puts to   *)
(* sleep nobody.                                                           *)
Bystander(t) ==
    /\ Alone(t)
    /\ UNCHANGED <<active, waiting>>
    /\ pc[t] \in WithPermit <=> pc'[t] \in WithPermit
    /\ pc[t] \in AtGate <=> pc'[t] \in AtGate
    /\ pc'[t] = "asleep" => pc[t] = "asleep"
    /\ pc'[t] = "woken" <=> pc[t] = "woken"

LEMMA BystanderKeepsGate ==
    ASSUME GateCounts, NoIdlePermit, NEW t \in Thread, Bystander(t)
    PROVE  GateCounts' /\ NoIdlePermit'
<1>1. /\ At(WithPermit)' = At(WithPermit)
      /\ At(AtGate)' = At(AtGate)
      /\ At({"woken"})' = At({"woken"})
  BY Moved DEF Bystander
<1>2. At({"asleep"})' \subseteq At({"asleep"})
  BY DEF At, Bystander, Alone
<1> QED
  BY <1>1, <1>2 DEF GateCounts, NoIdlePermit, Bystander

(* Everything but the three steps at the gate's counters leaves the gate   *)
(* alone.                                                                  *)
LEMMA MostStandBy ==
    ASSUME TypeOK, NEW t \in Thread,
           \/ \E k \in Key : Request(t, k) \/ Evict(t, k)
           \/ CheckCache(t) \/ LookUp(t) \/ TakeOutcome(t) \/ GiveUp(t)
           \/ Expire(t) \/ CheckAgain(t) \/ Claim(t) \/ Generate(t) \/ Publish(t)
    PROVE  Bystander(t)
<1> USE DEF Bystander, Alone, gate, Goto, WithPermit, AtGate, Generating
<1>1. CASE \E k \in Key : Request(t, k)
  BY <1>1 DEF Request, TypeOK
<1>2. CASE \E k \in Key : Evict(t, k)
  BY <1>2 DEF Evict
<1>3. CASE CheckCache(t)
  BY <1>3 DEF CheckCache, TypeOK
<1>4. CASE LookUp(t)
  BY <1>4 DEF LookUp, TypeOK
<1>5. CASE TakeOutcome(t)
  BY <1>5 DEF TakeOutcome, TypeOK
<1>6. CASE GiveUp(t)
  BY <1>6 DEF GiveUp, TypeOK
<1>7. CASE Expire(t)
  BY <1>7 DEF Expire, TypeOK
<1>8. CASE CheckAgain(t)
  BY <1>8 DEF CheckAgain, TypeOK
<1>9. CASE Claim(t)
  BY <1>9 DEF Claim, TypeOK
<1>10. CASE Generate(t)
  BY <1>10 DEF Generate, TypeOK
<1>11. CASE Publish(t)
  BY <1>11 DEF Publish, TypeOK
<1> QED
  BY <1>1, <1>2, <1>3, <1>4, <1>5, <1>6, <1>7, <1>8, <1>9, <1>10, <1>11

(* EnterGate: a permit is taken only if one is free, a place only if there *)
(* is room, and a thread goes to sleep only if no permit is free.          *)
LEMMA EnterKeepsGate ==
    ASSUME TypeOK, GateCounts, NoIdlePermit, NEW t \in Thread, EnterGate(t)
    PROVE  GateCounts' /\ NoIdlePermit'
<1> USE DEF Goto, WithPermit, AtGate, Generating
<1>1. Alone(t) /\ pc[t] = "gate"
  BY DEF EnterGate, Alone, TypeOK
<1>2. /\ At({"woken"})' = At({"woken"})
      /\ Cardinality(At({"woken"})) \in Nat
  <2>1. pc'[t] # "woken"
    BY DEF EnterGate, TypeOK
  <2> QED
    BY <1>1, <2>1, Moved, AtFinite
<1>3. CASE active < MaxConcurrent /\ active' = active + 1
           /\ pc' = [pc EXCEPT ![t] = "recheck"] /\ waiting' = waiting
  <2>1. pc'[t] = "recheck"
    BY <1>3 DEF TypeOK
  <2>2. Cardinality(At(WithPermit)') = Cardinality(At(WithPermit)) + 1
    BY <1>1, <2>1, Moved
  <2>3. At(AtGate)' = At(AtGate) /\ At({"asleep"})' = At({"asleep"})
    BY <1>1, <2>1, Moved
  <2> QED
    BY <1>2, <1>3, <2>2, <2>3, GateAssumption DEF GateCounts, NoIdlePermit, TypeOK
<1>4. CASE active' = active /\ waiting' = waiting
           /\ pc' = [pc EXCEPT ![t] = "idle"]
  <2>1. Bystander(t)
    BY <1>1, <1>4 DEF Bystander, TypeOK
  <2> QED
    BY <2>1, BystanderKeepsGate
<1>5. CASE /\ active >= MaxConcurrent /\ active' = active /\ t \notin Warm
           /\ waiting < MaxWaiters /\ waiting' = waiting + 1
           /\ pc' = [pc EXCEPT ![t] = "asleep"]
  <2>1. pc'[t] = "asleep"
    BY <1>5 DEF TypeOK
  <2>2. /\ Cardinality(At(AtGate)') = Cardinality(At(AtGate)) + 1
        /\ At(AtGate)' = At(AtGate) \union {t}
    BY <1>1, <2>1, Moved
  <2>3. At(WithPermit)' = At(WithPermit)
    BY <1>1, <2>1, Moved
  <2> QED
    BY <1>2, <1>5, <2>2, <2>3, GateAssumption DEF GateCounts, NoIdlePermit, TypeOK
<1> QED
  BY <1>3, <1>4, <1>5 DEF EnterGate

(* WaitEnds: a waiter takes a free permit, or sees that there is none.     *)
LEMMA WaitEndsKeepsGate ==
    ASSUME TypeOK, GateCounts, NoIdlePermit, NEW t \in Thread, WaitEnds(t)
    PROVE  GateCounts' /\ NoIdlePermit'
<1> USE DEF Goto, WithPermit, AtGate, Generating
<1>1. Alone(t) /\ pc[t] \in {"woken", "expired"}
  BY DEF WaitEnds, Alone, TypeOK
<1>2. /\ Cardinality(At({"woken"})) \in Nat
      /\ Cardinality(At({"woken"})') \in Nat
  <2>1. pc'[t] # "woken"
    BY DEF WaitEnds, TypeOK
  <2> QED
    BY <1>1, <2>1, Moved, AtFinite
<1>3. CASE active < MaxConcurrent /\ active' = active + 1
           /\ waiting' = waiting - 1 /\ pc' = [pc EXCEPT ![t] = "recheck"]
  <2>1. pc'[t] = "recheck"
    BY <1>3 DEF TypeOK
  <2>2. Cardinality(At(WithPermit)') = Cardinality(At(WithPermit)) + 1
    BY <1>1, <2>1, Moved
  <2>3. /\ Cardinality(At(AtGate)') = Cardinality(At(AtGate)) - 1
        /\ At(AtGate)' = At(AtGate) \ {t}
    BY <1>1, <2>1, Moved
  <2>4. At({"asleep"})' = At({"asleep"})
    BY <1>1, <2>1, Moved
  <2>5. \/ At({"woken"})' = At({"woken"})
        \/ Cardinality(At({"woken"})') = Cardinality(At({"woken"})) - 1
    BY <1>1, <2>1, Moved
  <2>6. GateCounts'
    BY <1>3, <2>2, <2>3, GateAssumption DEF GateCounts, TypeOK
  <2> QED
    BY <1>2, <1>3, <2>4, <2>5, <2>6, GateAssumption DEF NoIdlePermit, TypeOK
<1>4. CASE /\ active >= MaxConcurrent /\ active' = active /\ waiting' = waiting
           /\ pc' = [pc EXCEPT ![t] = "asleep"]
  <2>1. pc'[t] = "asleep"
    BY <1>4 DEF TypeOK
  <2>2. At(WithPermit)' = At(WithPermit) /\ At(AtGate)' = At(AtGate)
    BY <1>1, <2>1, Moved
  <2> QED
    BY <1>2, <1>4, <2>2, GateAssumption DEF GateCounts, NoIdlePermit, TypeOK
<1>5. CASE /\ active >= MaxConcurrent /\ active' = active
           /\ waiting' = waiting - 1 /\ pc' = [pc EXCEPT ![t] = "idle"]
  <2>1. pc'[t] = "idle"
    BY <1>5 DEF TypeOK
  <2>2. /\ Cardinality(At(AtGate)') = Cardinality(At(AtGate)) - 1
        /\ At(AtGate)' = At(AtGate) \ {t}
    BY <1>1, <2>1, Moved
  <2>3. At(WithPermit)' = At(WithPermit)
    BY <1>1, <2>1, Moved
  <2> QED
    BY <1>2, <1>5, <2>2, <2>3, GateAssumption DEF GateCounts, NoIdlePermit, TypeOK
<1> QED
  BY <1>3, <1>4, <1>5 DEF WaitEnds

(* Leave: a permit comes back, and one more thread is on its way to it     *)
(* unless nobody sleeps.                                                   *)
LEMMA LeaveKeepsGate ==
    ASSUME TypeOK, GateCounts, NoIdlePermit, NEW t \in Thread, Leave(t)
    PROVE  GateCounts' /\ NoIdlePermit'
<1> USE DEF WithPermit, AtGate, Generating
<1> DEFINE next == IF pc[t] = "release" THEN "idle" ELSE "check"
<1>1. /\ pc[t] \in {"release", "rejoin"} /\ next \in {"idle", "check"}
      /\ active' = active - 1 /\ waiting' = waiting
  BY DEF Leave
<1>2. CASE /\ {s \in Thread : pc[s] \in {"asleep", "expired"}} = {}
           /\ Goto(t, next)
  <2>1. Alone(t) /\ pc'[t] = next
    BY <1>2 DEF Alone, Goto, TypeOK
  <2>2. Cardinality(At(WithPermit)') = Cardinality(At(WithPermit)) - 1
    BY <1>1, <2>1, Moved
  <2>3. At(AtGate)' = At(AtGate) /\ At({"asleep"})' = At({"asleep"})
    BY <1>1, <2>1, Moved
  <2>4. At({"asleep"}) = {}
    BY <1>2 DEF At
  <2>5. Cardinality(At(WithPermit)) > 0
    BY <1>1, <2>1, Moved
  <2> QED
    BY <1>1, <2>2, <2>3, <2>4, <2>5, GateAssumption DEF GateCounts, NoIdlePermit, TypeOK
<1>3. ASSUME NEW s \in Thread, pc[s] \in {"asleep", "expired"},
             pc' = [pc EXCEPT ![t] = next, ![s] = "woken"]
      PROVE  GateCounts' /\ NoIdlePermit'
  <2>1. /\ pc'[t] = next /\ pc'[s] = "woken"
        /\ \A u \in Thread \ {s, t} : pc'[u] = pc[u]
    BY <1>1, <1>3 DEF TypeOK
  <2>2. At(WithPermit)' = At(WithPermit) \ {t} /\ t \in At(WithPermit)
    BY <1>1, <1>3, <2>1 DEF At
  <2>3. At(AtGate)' = At(AtGate)
    BY <1>1, <1>3, <2>1 DEF At
  <2>4. At({"woken"})' = At({"woken"}) \union {s} /\ s \notin At({"woken"})
    BY <1>1, <1>3, <2>1 DEF At
  <2>5. At({"asleep"})' \subseteq At({"asleep"})
    BY <1>1, <1>3, <2>1 DEF At
  <2>6. Cardinality(At(WithPermit)') = Cardinality(At(WithPermit)) - 1
    BY <2>2, AtFinite, FS_RemoveElement
  <2>7. Cardinality(At({"woken"})') = Cardinality(At({"woken"})) + 1
    BY <2>4, AtFinite, FS_AddElement
  <2>8. Cardinality(At({"woken"})) \in Nat
    BY AtFinite
  <2>9. GateCounts'
    BY <1>1, <2>3, <2>6, GateAssumption DEF GateCounts, TypeOK
  <2>10. NoIdlePermit'
    BY <1>1, <2>5, <2>7, <2>8, GateAssumption DEF NoIdlePermit, TypeOK
  <2> QED
    BY <2>9, <2>10
<1> QED
  BY <1>2, <1>3 DEF Leave

(* A step keeps the types; the counters do not fall below zero because     *)
(* they count threads.                                                     *)
LEMMA StepTyped ==
    ASSUME TypeOK, GateCounts, [Next]_vars
    PROVE  TypeOK'
<1> DEFINE Label == {"idle", "check", "lookup", "await", "gate"}
                    \union AtGate \union WithPermit
<1>1. CASE UNCHANGED vars
  BY <1>1 DEF vars, TypeOK
<1>2. ASSUME NEW t \in Thread, NEW k \in Key, Request(t, k) PROVE TypeOK'
  <2>1. left[t] - 1 \in 0..MaxRequests
    BY <1>2, GateAssumption DEF Request, TypeOK
  <2> QED
    BY <1>2, <2>1 DEF Request, TypeOK, Goto, gate
<1>3. ASSUME NEW t \in Thread, NEW k \in Key, Evict(t, k) PROVE TypeOK'
  BY <1>3 DEF Evict, TypeOK, gate
<1>4. ASSUME NEW t \in Thread, CheckCache(t) PROVE TypeOK'
  BY <1>4 DEF CheckCache, TypeOK, Goto, gate
<1>5. ASSUME NEW t \in Thread, LookUp(t) PROVE TypeOK'
  BY <1>5 DEF LookUp, TypeOK, Goto, gate
<1>6. ASSUME NEW t \in Thread, TakeOutcome(t) \/ GiveUp(t) PROVE TypeOK'
  BY <1>6 DEF TakeOutcome, GiveUp, TypeOK, Goto, gate
<1>7. ASSUME NEW t \in Thread, Expire(t) PROVE TypeOK'
  BY <1>7 DEF Expire, TypeOK, Goto, gate, AtGate
<1>8. ASSUME NEW t \in Thread, EnterGate(t) PROVE TypeOK'
  BY <1>8 DEF EnterGate, TypeOK, Goto, AtGate, WithPermit
<1>9. ASSUME NEW t \in Thread, WaitEnds(t) PROVE TypeOK'
  <2>1. waiting > 0
    <3>1. t \in At(AtGate)
      BY <1>9 DEF WaitEnds, At, AtGate
    <3> QED
      BY <3>1, AtFinite, FS_EmptySet DEF GateCounts
  <2> QED
    BY <1>9, <2>1 DEF WaitEnds, TypeOK, Goto, AtGate, WithPermit
<1>10. ASSUME NEW t \in Thread, Leave(t) PROVE TypeOK'
  <2>1. active > 0
    <3>1. t \in At(WithPermit)
      BY <1>10 DEF Leave, At, WithPermit
    <3> QED
      BY <3>1, AtFinite, FS_EmptySet DEF GateCounts
  <2>2. pc' \in [Thread -> Label] /\ late' \in [Thread -> BOOLEAN]
    BY <1>10 DEF Leave, TypeOK, Goto, AtGate
  <2> QED
    BY <1>10, <2>1, <2>2 DEF Leave, TypeOK
<1>11. ASSUME NEW t \in Thread, CheckAgain(t) PROVE TypeOK'
  BY <1>11 DEF CheckAgain, TypeOK, Goto, gate, WithPermit
<1>12. ASSUME NEW t \in Thread, Claim(t) PROVE TypeOK'
  BY <1>12 DEF Claim, TypeOK, Goto, gate, WithPermit, Generating
<1>13. ASSUME NEW t \in Thread, Generate(t) PROVE TypeOK'
  BY <1>13 DEF Generate, TypeOK, Goto, gate, WithPermit, Generating
<1>14. ASSUME NEW t \in Thread, Publish(t) PROVE TypeOK'
  BY <1>14 DEF Publish, TypeOK, Goto, gate, WithPermit
<1> QED
  BY <1>1, <1>2, <1>3, <1>4, <1>5, <1>6, <1>7, <1>8, <1>9, <1>10, <1>11,
     <1>12, <1>13, <1>14 DEF Next, Continue

(* What the steps at the gate rely on and keep.                            *)
GateInv == TypeOK /\ GateCounts /\ NoIdlePermit

LEMMA InitGate == Init => GateInv
<1> SUFFICES ASSUME Init PROVE GateInv
  OBVIOUS
<1>1. TypeOK
  BY GateAssumption DEF Init, TypeOK
<1>2. At(WithPermit) = {} /\ At(AtGate) = {} /\ At({"asleep"}) = {}
  BY DEF Init, At, WithPermit, AtGate, Generating
<1> QED
  BY <1>1, <1>2, FS_EmptySet, GateAssumption
  DEF GateInv, GateCounts, NoIdlePermit, Init

LEMMA StepKeepsGate == GateInv /\ [Next]_vars => GateInv'
<1> SUFFICES ASSUME GateInv, [Next]_vars PROVE GateInv'
  OBVIOUS
<1> USE DEF GateInv
<1>1. TypeOK'
  BY StepTyped
<1>2. CASE UNCHANGED vars
  BY <1>1, <1>2 DEF vars, GateCounts, NoIdlePermit, At
<1>3. ASSUME NEW t \in Thread, EnterGate(t) PROVE GateInv'
  BY <1>1, <1>3, EnterKeepsGate
<1>4. ASSUME NEW t \in Thread, WaitEnds(t) PROVE GateInv'
  BY <1>1, <1>4, WaitEndsKeepsGate
<1>5. ASSUME NEW t \in Thread, Leave(t) PROVE GateInv'
  BY <1>1, <1>5, LeaveKeepsGate
<1>6. ASSUME NEW t \in Thread,
             \/ \E k \in Key : Request(t, k) \/ Evict(t, k)
             \/ CheckCache(t) \/ LookUp(t) \/ TakeOutcome(t) \/ GiveUp(t)
             \/ Expire(t) \/ CheckAgain(t) \/ Claim(t) \/ Generate(t)
             \/ Publish(t)
      PROVE  GateInv'
  BY <1>1, <1>6, MostStandBy, BystanderKeepsGate
<1> QED
  BY <1>2, <1>3, <1>4, <1>5, <1>6 DEF Next, Continue

LEMMA GateAlways == Spec => []GateInv
BY InitGate, StepKeepsGate, PTL DEF Spec

(* The counters of the gate count the threads they stand for, and stay     *)
(* within their limits, whichever way threads leave.                       *)
THEOREM GateSound == Spec => [](TypeOK /\ GateCounts)
<1>1. GateInv => TypeOK /\ GateCounts
  BY DEF GateInv
<1> QED
  BY <1>1, GateAlways, PTL

(* No thread sleeps at the gate beside a permit nobody is going to take.   *)
THEOREM NoWakeupLost == Spec => []NoIdlePermit
<1>1. GateInv => NoIdlePermit
  BY DEF GateInv
<1> QED
  BY <1>1, GateAlways, PTL

(* The in-flight map and the threads agree: who is listed for a key is     *)
(* generating it, and who generates a key is listed for it.                *)
ClaimsHeld ==
    /\ \A k \in Key : inflight[k] # NoThread =>
          /\ inflight[k] \in At(Generating)
          /\ key[inflight[k]] = k
    /\ \A t \in At(Generating) : inflight[key[t]] = t

(* Who waits has the record that is in the map.                            *)
RecordsLive ==
    \A t \in Thread : pc[t] = "await" /\ ~told[t] =>
        /\ record[t] \in Thread
        /\ inflight[key[t]] = record[t]

Flights == TypeOK /\ ClaimsHeld /\ RecordsLive

(* A step that neither claims nor retires a key, and after which nobody    *)
(* waits that did not wait before.                                         *)
LEMMA OtherStepsKeepFlights ==
    ASSUME Flights, UNCHANGED inflight,
           \A t \in Thread :
              /\ pc'[t] \in Generating <=> pc[t] \in Generating
              /\ pc'[t] = "await" =>
                    pc[t] = "await" /\ record'[t] = record[t] /\ told'[t] = told[t]
              /\ pc'[t] \in Generating \/ pc'[t] = "await" => key'[t] = key[t]
    PROVE  ClaimsHeld' /\ RecordsLive'
<1>1. At(Generating)' = At(Generating)
  BY DEF At
<1>2. ClaimsHeld'
  BY <1>1 DEF Flights, ClaimsHeld, At
<1>3. RecordsLive'
  BY DEF Flights, RecordsLive
<1> QED
  BY <1>2, <1>3

(* Claim adds the thread to the map and to those that generate.            *)
LEMMA ClaimKeepsFlights ==
    ASSUME Flights, NEW t \in Thread, Claim(t)
    PROVE  ClaimsHeld' /\ RecordsLive'
<1> USE DEF Flights, Goto, Generating, At, TypeOK
<1>1. CASE /\ inflight[key[t]] = NoThread
           /\ inflight' = [inflight EXCEPT ![key[t]] = t]
           /\ pc' = [pc EXCEPT ![t] = "generate"]
  <2>1. UNCHANGED <<key, record, told>> /\ pc[t] = "claim"
    BY DEF Claim
  <2>2. \A k \in Key : inflight[k] # t
    BY <2>1, GateAssumption DEF ClaimsHeld
  <2>3. ClaimsHeld'
    BY <1>1, <2>1, <2>2, GateAssumption DEF ClaimsHeld
  <2>4. RecordsLive'
    BY <1>1, <2>1, GateAssumption DEF RecordsLive
  <2> QED
    BY <2>3, <2>4
<1>2. CASE UNCHANGED inflight
  BY <1>2, OtherStepsKeepFlights, GateAssumption DEF Claim
<1> QED
  BY <1>1, <1>2 DEF Claim

(* Publish takes the thread off the map and off those that generate, and   *)
(* tells everybody who waits for it.                                       *)
LEMMA PublishKeepsFlights ==
    ASSUME Flights, NEW t \in Thread, Publish(t)
    PROVE  ClaimsHeld' /\ RecordsLive'
<1> USE DEF Flights, Goto, Generating, At, TypeOK
<1>1. /\ UNCHANGED <<key, record>> /\ pc' = [pc EXCEPT ![t] = "release"]
      /\ inflight' = [inflight EXCEPT ![key[t]] = NoThread]
      /\ told' = [s \in Thread |-> told[s] \/ (pc[s] = "await" /\ record[s] = t)]
      /\ pc[t] \in {"sweep", "publish"}
  BY DEF Publish
<1>2. inflight[key[t]] = t
  BY <1>1 DEF ClaimsHeld
<1>3. ClaimsHeld'
  BY <1>1, <1>2, GateAssumption DEF ClaimsHeld
<1>4. RecordsLive'
  <2> SUFFICES ASSUME NEW s \in Thread, pc'[s] = "await", ~told'[s]
               PROVE  record'[s] \in Thread /\ inflight'[key'[s]] = record'[s]
    BY DEF RecordsLive
  <2>1. pc[s] = "await" /\ ~told[s] /\ record[s] # t
    BY <1>1
  <2>2. inflight[key[s]] = record[s] /\ record[s] \in Thread
    BY <2>1 DEF RecordsLive
  <2>3. key[s] # key[t]
    BY <1>2, <2>1, <2>2
  <2> QED
    BY <1>1, <2>2, <2>3
<1> QED
  BY <1>3, <1>4

LEMMA StepKeepsFlights ==
    ASSUME Flights, [Next]_vars
    PROVE  ClaimsHeld' /\ RecordsLive'
<1> USE DEF Flights, Goto, gate, Generating
<1>1. CASE UNCHANGED vars
  BY <1>1, OtherStepsKeepFlights DEF vars
<1>2. ASSUME NEW t \in Thread, NEW k \in Key, Request(t, k)
      PROVE  ClaimsHeld' /\ RecordsLive'
  BY <1>2, OtherStepsKeepFlights DEF Request, TypeOK
<1>3. ASSUME NEW t \in Thread, NEW k \in Key, Evict(t, k)
      PROVE  ClaimsHeld' /\ RecordsLive'
  BY <1>3, OtherStepsKeepFlights DEF Evict
<1>4. ASSUME NEW t \in Thread, CheckCache(t) \/ CheckAgain(t) \/ Expire(t)
      PROVE  ClaimsHeld' /\ RecordsLive'
  BY <1>4, OtherStepsKeepFlights DEF CheckCache, CheckAgain, Expire, TypeOK
<1>5. ASSUME NEW t \in Thread, LookUp(t)
      PROVE  ClaimsHeld' /\ RecordsLive'
  <2>1. At(Generating)' = At(Generating)
    BY <1>5 DEF LookUp, At, TypeOK
  <2>2. ClaimsHeld'
    BY <1>5, <2>1 DEF LookUp, ClaimsHeld
  <2>3. RecordsLive'
    BY <1>5, GateAssumption DEF LookUp, RecordsLive, TypeOK
  <2> QED
    BY <2>2, <2>3
<1>6. ASSUME NEW t \in Thread, TakeOutcome(t) \/ GiveUp(t)
      PROVE  ClaimsHeld' /\ RecordsLive'
  BY <1>6, OtherStepsKeepFlights DEF TakeOutcome, GiveUp, TypeOK
<1>7. ASSUME NEW t \in Thread, EnterGate(t)
      PROVE  ClaimsHeld' /\ RecordsLive'
  BY <1>7, OtherStepsKeepFlights DEF EnterGate, TypeOK
<1>8. ASSUME NEW t \in Thread, WaitEnds(t)
      PROVE  ClaimsHeld' /\ RecordsLive'
  BY <1>8, OtherStepsKeepFlights DEF WaitEnds, TypeOK
<1>9. ASSUME NEW t \in Thread, Leave(t)
      PROVE  ClaimsHeld' /\ RecordsLive'
  <2>1. UNCHANGED <<inflight, key, record, told>>
    BY <1>9 DEF Leave
  <2>2. \A s \in Thread : \/ pc'[s] = pc[s]
                         \/ /\ pc[s] \notin Generating
                            /\ pc'[s] \notin Generating \union {"await"}
    BY <1>9 DEF Leave, TypeOK
  <2> QED
    BY <2>1, <2>2, OtherStepsKeepFlights
<1>10. ASSUME NEW t \in Thread, Generate(t)
       PROVE  ClaimsHeld' /\ RecordsLive'
  BY <1>10, OtherStepsKeepFlights DEF Generate, TypeOK
<1>11. ASSUME NEW t \in Thread, Claim(t) \/ Publish(t)
       PROVE  ClaimsHeld' /\ RecordsLive'
  BY <1>11, ClaimKeepsFlights, PublishKeepsFlights
<1> QED
  BY <1>1, <1>2, <1>3, <1>4, <1>5, <1>6, <1>7, <1>8, <1>9, <1>10, <1>11
  DEF Next, Continue

LEMMA FlightsAlways == Spec => [](GateInv /\ Flights)
<1>1. Init => GateInv /\ Flights
  <2> SUFFICES ASSUME Init PROVE GateInv /\ Flights
    OBVIOUS
  <2>1. ClaimsHeld /\ RecordsLive
    BY DEF Init, ClaimsHeld, RecordsLive, At, Generating
  <2> QED
    BY <2>1, InitGate DEF GateInv, Flights
<1>2. GateInv /\ Flights /\ [Next]_vars => (GateInv /\ Flights)'
  BY StepKeepsGate, StepKeepsFlights DEF GateInv, Flights
<1> QED
  BY <1>1, <1>2, PTL DEF Spec

(* Nobody waits for a thumbnail that nobody is making, nor for a thread    *)
(* that waits itself.                                                      *)
THEOREM WaitersAreServed == Spec => []AwaitedIsRunning
<1>1. Flights => AwaitedIsRunning
  <2> SUFFICES ASSUME Flights, NEW t \in Thread, pc[t] = "await", ~told[t]
               PROVE  /\ inflight[key[t]] = record[t]
                      /\ record[t] \in At(Generating)
                      /\ key[record[t]] = key[t]
    BY DEF AwaitedIsRunning
  <2>1. inflight[key[t]] = record[t] /\ record[t] \in Thread /\ key[t] \in Key
    BY DEF Flights, RecordsLive, TypeOK
  <2> QED
    BY <2>1, GateAssumption DEF Flights, ClaimsHeld
<1> QED
  BY <1>1, FlightsAlways, PTL

(* While a thread claims a key, the keys in the map belong to other        *)
(* threads with a permit, and those are fewer than MaxConcurrent.          *)
LEMMA PermitsBoundFlights ==
    ASSUME GateInv, Flights, NEW t \in At(WithPermit), t \notin At(Generating)
    PROVE  Cardinality(Pool!Busy) < MaxConcurrent
<1> DEFINE Others == At(WithPermit) \ {t}
           maker  == [k \in Pool!Busy |-> inflight[k]]
<1>1. IsFiniteSet(Others) /\ Cardinality(Others) < MaxConcurrent
  <2>1. Cardinality(Others) = Cardinality(At(WithPermit)) - 1 /\ IsFiniteSet(Others)
    BY AtFinite, FS_RemoveElement
  <2>2. Cardinality(At(WithPermit)) <= MaxConcurrent /\ Cardinality(At(WithPermit)) \in Nat
    BY AtFinite DEF GateInv, GateCounts
  <2> HIDE DEF Others
  <2> QED
    BY <2>1, <2>2, GateAssumption
<1>2. maker \in Injection(Pool!Busy, Others)
  <2>1. \A k \in Pool!Busy : inflight[k] \in Others /\ key[inflight[k]] = k
    BY DEF Pool!Busy, Flights, ClaimsHeld, At, WithPermit
  <2> QED
    BY <2>1 DEF Injection, IsInjective
<1>3. Cardinality(Pool!Busy) <= Cardinality(Others)
  BY <1>1, <1>2, FS_Injection
<1>4. Cardinality(Pool!Busy) \in Nat /\ Cardinality(Others) \in Nat
  BY <1>1, <1>2, FS_Injection, FS_CardinalityType
<1> QED
  BY <1>1, <1>3, <1>4, GateAssumption

(* At most MaxConcurrent photos are decoded at a time, and no photo by two *)
(* threads.                                                                *)
THEOREM DecodingIsPooled == Spec => ImplementsPool
<1>1. Init => Pool!Init
  BY DEF Init, Pool!Init
<1>2. GateInv /\ Flights /\ [Next]_vars => [Pool!Next]_inflight
  <2> SUFFICES ASSUME GateInv, Flights, [Next]_vars, inflight' # inflight
               PROVE  Pool!Next
    OBVIOUS
  <2>1. PICK t \in Thread : Claim(t) \/ Publish(t)
    BY DEF Next, Continue, vars, Request, Evict, CheckCache, LookUp, TakeOutcome,
           EnterGate, WaitEnds, Leave, CheckAgain, Generate, GiveUp, Expire
  <2>2. key[t] \in Key
    BY DEF Flights, TypeOK
  <2>3. CASE Claim(t)
    <3>1. t \in At(WithPermit) /\ t \notin At(Generating)
      BY <2>3 DEF Claim, At, WithPermit, Generating
    <3>2. \A other \in Key : inflight[other] # t
      BY <3>1, GateAssumption DEF Flights, ClaimsHeld
    <3>3. Cardinality(Pool!Busy) < MaxConcurrent
      BY <3>1, PermitsBoundFlights
    <3>4. Pool!Cardinality(Pool!Busy) = Cardinality(Pool!Busy)
      BY DEF Pool!Cardinality, Cardinality
    <3>5. Pool!Start(t, key[t])
      BY <2>3, <3>2, <3>3, <3>4 DEF Claim, Pool!Start
    <3> QED
      BY <2>2, <3>5 DEF Pool!Next
  <2>4. CASE Publish(t)
    <3>1. inflight[key[t]] = t
      BY <2>4 DEF Publish, Flights, ClaimsHeld, At, Generating
    <3> QED
      BY <2>2, <2>4, <3>1, GateAssumption DEF Publish, Pool!Next, Pool!Stop
  <2> QED
    BY <2>1, <2>3, <2>4
<1> QED
  BY <1>1, <1>2, FlightsAlways, PTL DEF Spec, ImplementsPool, Pool!Spec
=============================================================================
