---------------------------- MODULE ThumbnailGate ----------------------------
(***************************************************************************)
(* Thumbnails (services/photo_thumbnails.py): threads that want a photo's  *)
(* thumbnail look in the cache, wait for a thread that is already making   *)
(* it, or take a permit at the gate and make it themselves.                *)
(*                                                                         *)
(* One step per critical section of _gate_lock and _inflight_lock and per  *)
(* access to the cache directory.  Which waiter a notification of the      *)
(* gate's condition variable wakes is left open.                           *)
(***************************************************************************)
EXTENDS Naturals, FiniteSets

CONSTANTS
    Thread,         \* threads of the server's pool, and the warm-up worker
    NoThread,
    Warm,           \* the threads that ask with priority "warm"
    Key,            \* cache keys: a photo and its version
    MaxConcurrent,  \* shipping_photos_thumb_max_concurrent
    MaxWaiters,     \* shipping_photos_thumb_max_waiters
    MaxRequests     \* bound: how many thumbnails each thread asks for

ASSUME GateAssumption ==
    /\ NoThread \notin Thread
    /\ Warm \subseteq Thread
    /\ IsFiniteSet(Thread)
    /\ MaxConcurrent \in Nat \ {0}
    /\ MaxWaiters \in Nat
    /\ MaxRequests \in Nat

VARIABLES
    active,     \* _gate_active
    waiting,    \* _gate_waiting
    inflight,   \* _inflight: the thread that makes a key, or NoThread
    cached,     \* keys with a file in the cache, a thumbnail or an empty one
    pc, key,
    record,     \* the thread whose in-flight record a thread waits on
    told,       \* that record has its outcome
    late,       \* notified, but only after its time at the gate was up
    left        \* requests a thread may still make

vars == <<active, waiting, inflight, cached, pc, key, record, told, late, left>>

gate == <<active, waiting, late>>

(* "asleep": on the condition variable; "expired": its time is up, but it  *)
(* is still on the list of waiters; "woken": notified.                     *)
AtGate == {"asleep", "expired", "woken"}

(* With the key claimed.                                                   *)
Generating == {"generate", "sweep", "publish"}

(* "release", "rejoin": leaving the gate, to answer or to start over.      *)
WithPermit == {"recheck", "claim", "release", "rejoin"} \union Generating

TypeOK ==
    /\ active \in Nat
    /\ waiting \in Nat
    /\ inflight \in [Key -> Thread \union {NoThread}]
    /\ cached \subseteq Key
    /\ pc \in [Thread -> {"idle", "check", "lookup", "await", "gate"}
                         \union AtGate \union WithPermit]
    /\ key \in [Thread -> Key]
    /\ record \in [Thread -> Thread \union {NoThread}]
    /\ told \in [Thread -> BOOLEAN]
    /\ late \in [Thread -> BOOLEAN]
    /\ left \in [Thread -> 0..MaxRequests]

Init ==
    /\ active = 0
    /\ waiting = 0
    /\ inflight = [k \in Key |-> NoThread]
    /\ cached \in SUBSET Key
    /\ pc = [t \in Thread |-> "idle"]
    /\ key \in [Thread -> Key]
    /\ record = [t \in Thread |-> NoThread]
    /\ told = [t \in Thread |-> FALSE]
    /\ late = [t \in Thread |-> FALSE]
    /\ left = [t \in Thread |-> MaxRequests]

Goto(t, label) == pc' = [pc EXCEPT ![t] = label]
-----------------------------------------------------------------------------
(* generate_once is called for a photo that exists.                        *)
Request(t, k) ==
    /\ pc[t] = "idle"
    /\ left[t] > 0
    /\ left' = [left EXCEPT ![t] = @ - 1]
    /\ key' = [key EXCEPT ![t] = k]
    /\ Goto(t, "check")
    /\ UNCHANGED <<gate, inflight, cached, record, told>>

(* 1. A hit, be it a thumbnail or the empty file of a broken photo, is the *)
(* answer.                                                                 *)
CheckCache(t) ==
    /\ pc[t] = "check"
    /\ Goto(t, IF key[t] \in cached THEN "idle" ELSE "lookup")
    /\ UNCHANGED <<gate, inflight, cached, key, record, told, left>>

(* 2.                                                                      *)
LookUp(t) ==
    /\ pc[t] = "lookup"
    /\ record' = [record EXCEPT ![t] = inflight[key[t]]]
    /\ Goto(t, IF inflight[key[t]] = NoThread THEN "gate" ELSE "await")
    /\ UNCHANGED <<gate, inflight, cached, key, told, left>>

(* 3. and 4., the outcome is there.                                        *)
TakeOutcome(t) ==
    /\ pc[t] = "await"
    /\ told[t]
    /\ record' = [record EXCEPT ![t] = NoThread]
    /\ told' = [told EXCEPT ![t] = FALSE]
    /\ Goto(t, "idle")
    /\ UNCHANGED <<gate, inflight, cached, key, left>>

(* 3. and 4., the deadline passes first.                                   *)
GiveUp(t) ==
    /\ pc[t] = "await"
    /\ ~told[t]
    /\ record' = [record EXCEPT ![t] = NoThread]
    /\ Goto(t, "idle")
    /\ UNCHANGED <<gate, inflight, cached, key, told, left>>
-----------------------------------------------------------------------------

(* acquire_thumbnail_permit: a free permit, a refusal, or a place among    *)
(* the waiters.                                                            *)
EnterGate(t) ==
    /\ pc[t] = "gate"
    /\ \/ /\ active < MaxConcurrent
          /\ active' = active + 1
          /\ Goto(t, "recheck")
          /\ UNCHANGED waiting
       \/ /\ active >= MaxConcurrent
          /\ t \in Warm \/ waiting >= MaxWaiters
          /\ Goto(t, "idle")
          /\ UNCHANGED <<active, waiting>>
       \/ /\ active >= MaxConcurrent
          /\ t \notin Warm
          /\ waiting < MaxWaiters
          /\ waiting' = waiting + 1
          /\ Goto(t, "asleep")
          /\ UNCHANGED active
    /\ UNCHANGED <<late, inflight, cached, key, record, told, left>>

(* The wait on the condition variable times out.                           *)
Expire(t) ==
    /\ pc[t] = "asleep"
    /\ Goto(t, "expired")
    /\ UNCHANGED <<gate, inflight, cached, key, record, told, left>>

(* Mutant of WaitEnds: the place among the waiters is not given back.      *)
WaitEndsUncounted(t) ==
    /\ pc[t] \in {"woken", "expired"}
    /\ \/ /\ active < MaxConcurrent
          /\ active' = active + 1
          /\ waiting' = waiting - 1
          /\ Goto(t, "recheck")
       \/ /\ active >= MaxConcurrent
          /\ pc[t] = "woken" /\ ~late[t]
          /\ Goto(t, "asleep")
          /\ UNCHANGED <<active, waiting>>
       \/ /\ active >= MaxConcurrent
          /\ pc[t] = "expired" \/ late[t]
          /\ Goto(t, "idle")
          /\ UNCHANGED <<active, waiting>>
    /\ late' = [late EXCEPT ![t] = FALSE]
    /\ UNCHANGED <<inflight, cached, key, record, told, left>>

(* Mutant of WaitEnds: a waiter whose time is up leaves whatever the gate  *)
(* looks like, taking the notification with it.                            *)
WaitEndsBlindly(t) ==
    /\ pc[t] \in {"woken", "expired"}
    /\ \/ /\ pc[t] = "woken" /\ ~late[t]
          /\ active < MaxConcurrent
          /\ active' = active + 1
          /\ waiting' = waiting - 1
          /\ Goto(t, "recheck")
       \/ /\ active >= MaxConcurrent
          /\ pc[t] = "woken" /\ ~late[t]
          /\ Goto(t, "asleep")
          /\ UNCHANGED <<active, waiting>>
       \/ /\ waiting' = waiting - 1
          /\ pc[t] = "expired" \/ late[t]
          /\ Goto(t, "idle")
          /\ UNCHANGED active
    /\ late' = [late EXCEPT ![t] = FALSE]
    /\ UNCHANGED <<inflight, cached, key, record, told, left>>

(* Condition.wait_for looks at the gate once more, also when its time is   *)
(* up: it takes the permit, goes on waiting, or gives up.                  *)
WaitEnds(t) ==
    /\ pc[t] \in {"woken", "expired"}
    /\ \/ /\ active < MaxConcurrent
          /\ active' = active + 1
          /\ waiting' = waiting - 1
          /\ Goto(t, "recheck")
       \/ /\ active >= MaxConcurrent
          /\ pc[t] = "woken" /\ ~late[t]
          /\ Goto(t, "asleep")
          /\ UNCHANGED <<active, waiting>>
       \/ /\ active >= MaxConcurrent
          /\ pc[t] = "expired" \/ late[t]
          /\ waiting' = waiting - 1
          /\ Goto(t, "idle")
          /\ UNCHANGED active
    /\ late' = [late EXCEPT ![t] = FALSE]
    /\ UNCHANGED <<inflight, cached, key, record, told, left>>

(* Mutant of Leave: nobody is notified.                                    *)
LeaveSilently(t) ==
    /\ pc[t] \in {"release", "rejoin"}
    /\ active' = active - 1
    /\ Goto(t, IF pc[t] = "release" THEN "idle" ELSE "check")
    /\ UNCHANGED <<waiting, late, inflight, cached, key, record, told, left>>

(* The permit is returned and one waiter notified; it may be one whose     *)
(* time is up.                                                             *)
Leave(t) ==
    LET listed == {s \in Thread : pc[s] \in {"asleep", "expired"}}
        next   == IF pc[t] = "release" THEN "idle" ELSE "check"
    IN  /\ pc[t] \in {"release", "rejoin"}
        /\ active' = active - 1
        /\ \/ /\ listed = {}
              /\ Goto(t, next)
              /\ UNCHANGED late
           \/ \E s \in listed :
                 /\ pc' = [pc EXCEPT ![t] = next, ![s] = "woken"]
                 /\ late' = [late EXCEPT ![s] = (pc[s] = "expired")]
        /\ UNCHANGED <<waiting, inflight, cached, key, record, told, left>>
-----------------------------------------------------------------------------
(* 6.                                                                      *)
CheckAgain(t) ==
    /\ pc[t] = "recheck"
    /\ Goto(t, IF key[t] \in cached THEN "release" ELSE "claim")
    /\ UNCHANGED <<gate, inflight, cached, key, record, told, left>>

(* Mutant of Claim: a thread with a permit makes its photo, though another *)
(* has claimed it meanwhile.                                               *)
ClaimRegardless(t) ==
    /\ pc[t] = "claim"
    /\ inflight' = [inflight EXCEPT ![key[t]] = t]
    /\ Goto(t, "generate")
    /\ UNCHANGED <<gate, cached, key, record, told, left>>

(* 7. Claim the key, or start over without the permit.                     *)
Claim(t) ==
    /\ pc[t] = "claim"
    /\ \/ /\ inflight[key[t]] = NoThread
          /\ inflight' = [inflight EXCEPT ![key[t]] = t]
          /\ Goto(t, "generate")
       \/ /\ inflight[key[t]] # NoThread
          /\ Goto(t, "rejoin")
          /\ UNCHANGED inflight
    /\ UNCHANGED <<gate, cached, key, record, told, left>>

(* Mutant of Generate: an exception leaves without publishing an outcome.  *)
GenerateOrRaise(t) ==
    /\ pc[t] = "generate"
    /\ \/ cached' = cached \union {key[t]} /\ Goto(t, "sweep")
       \/ UNCHANGED cached /\ Goto(t, "release")
    /\ UNCHANGED <<gate, inflight, key, record, told, left>>

(* 8. _generate_impl writes a thumbnail or an empty file, or neither when  *)
(* the cache cannot be written or something unexpected raises.             *)
Generate(t) ==
    /\ pc[t] = "generate"
    /\ \/ cached' = cached \union {key[t]} /\ Goto(t, "sweep")
       \/ UNCHANGED cached /\ Goto(t, "publish")
    /\ UNCHANGED <<gate, inflight, key, record, told, left>>

(* _clean_cache_if_needed, run by whoever makes the n-th write, removes    *)
(* files one by one.                                                       *)
Evict(t, k) ==
    /\ pc[t] = "sweep"
    /\ k \in cached
    /\ cached' = cached \ {k}
    /\ UNCHANGED <<gate, inflight, pc, key, record, told, left>>

(* The finally of 8.                                                       *)
Publish(t) ==
    /\ pc[t] \in {"sweep", "publish"}
    /\ inflight' = [inflight EXCEPT ![key[t]] = NoThread]
    /\ told' = [s \in Thread |-> told[s] \/ (pc[s] = "await" /\ record[s] = t)]
    /\ Goto(t, "release")
    /\ UNCHANGED <<gate, cached, key, record, left>>
-----------------------------------------------------------------------------
Continue(t) ==
    \/ CheckCache(t) \/ LookUp(t) \/ TakeOutcome(t)
    \/ EnterGate(t) \/ WaitEnds(t) \/ Leave(t)
    \/ CheckAgain(t) \/ Claim(t) \/ Generate(t) \/ Publish(t)

Next ==
    \E t \in Thread :
        \/ \E k \in Key : Request(t, k) \/ Evict(t, k)
        \/ Continue(t)
        \/ GiveUp(t) \/ Expire(t)

Spec == Init /\ [][Next]_vars

(* A thread that can run does; no timeout is assumed to strike.            *)
Fairness == \A t \in Thread : WF_vars(Continue(t))

FairSpec == Spec /\ Fairness
-----------------------------------------------------------------------------
At(labels) == {t \in Thread : pc[t] \in labels}

(* The two counters of the gate count what they stand for, whatever way a  *)
(* thread leaves, and stay within their limits; "WARM never blocks and     *)
(* never registers as a waiter".                                           *)
GateCounts ==
    /\ active = Cardinality(At(WithPermit))
    /\ waiting = Cardinality(At(AtGate))
    /\ active <= MaxConcurrent
    /\ waiting <= MaxWaiters
    /\ Warm \intersect At(AtGate) = {}

(* No lost wakeup: while a thread sleeps at the gate, every permit is held *)
(* or has a notified thread on its way to it.                              *)
NoIdlePermit ==
    At({"asleep"}) # {} => active + Cardinality(At({"woken"})) >= MaxConcurrent

(* Who waits for a thumbnail waits for a thread that has its permit and is *)
(* making it: "A waiter that held one while waiting on the holder of       *)
(* another is how N permits deadlock on N distinct photos", and a record   *)
(* nobody retires "would otherwise park every subsequent caller".          *)
AwaitedIsRunning ==
    \A t \in Thread :
        pc[t] = "await" /\ ~told[t]
            => /\ inflight[key[t]] = record[t]
               /\ record[t] \in At(Generating)
               /\ key[record[t]] = key[t]

(* Every request is answered, though no timeout strikes.                   *)
RequestsAnswered == \A t \in Thread : (pc[t] # "idle") ~> (pc[t] = "idle")

(* Decoding goes as DecoderPool says.                                      *)
Pool == INSTANCE DecoderPool WITH decoder <- inflight, Limit <- MaxConcurrent

ImplementsPool == Pool!Spec
=============================================================================
