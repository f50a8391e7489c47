--------------------------- MODULE WarmQueueProofs ---------------------------
(***************************************************************************)
(* That the warm-up worker strands no folder, that a second one exists     *)
(* only after a shutdown, and that a folder is known exactly while it is   *)
(* queued or being made, for any number of folders, threads and photos.    *)
(***************************************************************************)
EXTENDS WarmQueue, SequenceTheorems, TLAPS

(* Of the threads it matters where they are: the rest of what they hold    *)
(* plays no part.                                                          *)
Placed ==
    /\ DOMAIN worker = Worker
    /\ \A w \in Worker : "at" \in DOMAIN worker[w]
    /\ thread \in Worker \union {NoWorker}
    /\ running \in BOOLEAN /\ stop \in BOOLEAN

(* The mark is set while the marked thread has yet to look at the queue.   *)
MarkMeansServing == running => thread \in Worker /\ Serving(thread)

(* Only a shutdown stops a marked worker, and it does not go on at once.   *)
StopMeansShutdown == phase = "up" /\ running => ~stop

(* A folder in the queue is waited for.                                    *)
QueueIsMarked == phase = "up" /\ queue # << >> => running

(* A worker that serves without the mark was left behind by a shutdown.    *)
UnmarkedIsLeft ==
    /\ OneWorker
    /\ thread \in Worker /\ Serving(thread) /\ ~running => thread \in left

WarmInv ==
    Placed /\ MarkMeansServing /\ StopMeansShutdown /\ QueueIsMarked /\ UnmarkedIsLeft

(* What a step of one thread does to where the threads are.                *)
LEMMA Moved ==
    ASSUME WarmInv, NEW w \in Worker, NEW k,
           "at" \in DOMAIN k, worker' = [worker EXCEPT ![w] = k]
    PROVE  /\ DOMAIN worker' = Worker
           /\ \A v \in Worker : "at" \in DOMAIN worker'[v]
           /\ worker'[w].at = k.at
           /\ \A v \in Worker \ {w} : worker'[v] = worker[v]
  BY DEF WarmInv, Placed

LEMMA Placing ==
    ASSUME WarmInv, NEW w \in Worker, NEW place, worker' = [worker EXCEPT ![w].at = place]
    PROVE  /\ DOMAIN worker' = Worker
           /\ \A v \in Worker : "at" \in DOMAIN worker'[v]
           /\ worker'[w].at = place
           /\ \A v \in Worker \ {w} : worker'[v] = worker[v]
  <1>1. worker' = [worker EXCEPT ![w] = [worker[w] EXCEPT !.at = place]]
    OBVIOUS
  <1>2. /\ "at" \in DOMAIN [worker[w] EXCEPT !.at = place]
        /\ [worker[w] EXCEPT !.at = place].at = place
    BY DEF WarmInv, Placed
  <1> QED
    BY <1>1, <1>2, Moved

LEMMA InitWarm ==
    ASSUME Init
    PROVE  WarmInv
  BY DEF Init, WarmInv, Placed, MarkMeansServing, StopMeansShutdown, QueueIsMarked,
         UnmarkedIsLeft, OneWorker, Serving, Off

LEMMA EnqueueWarm ==
    ASSUME WarmInv, NEW k \in Key, Enqueue(k)
    PROVE  WarmInv'
  <1>1. left' = {w \in left : Alive(w)}
    BY DEF Enqueue
  <1>2. CASE running /\ Alive(thread)
    <2>1. UNCHANGED <<thread, running, stop, worker, phase>>
      BY <1>2 DEF Enqueue
    <2>2. OneWorker'
      BY <1>1, <2>1, WarmAssumption DEF WarmInv, UnmarkedIsLeft, OneWorker, Serving, Alive
    <2> QED
      BY <1>2, <2>1, <2>2
      DEF WarmInv, Placed, MarkMeansServing, StopMeansShutdown, QueueIsMarked,
          UnmarkedIsLeft, Serving
  <1>3. CASE ~(running /\ Alive(thread))
    <2>1. PICK w \in Worker :
            /\ worker[w].at = "off" /\ thread' = w /\ running' = TRUE /\ stop' = FALSE
            /\ worker' = [worker EXCEPT ![w].at = "loop"]
      BY <1>3 DEF Enqueue
    <2>2. /\ DOMAIN worker' = Worker /\ \A v \in Worker : "at" \in DOMAIN worker'[v]
          /\ worker'[w].at = "loop" /\ \A v \in Worker \ {w} : worker'[v] = worker[v]
      BY <2>1, Placing
    <2>3. \A v \in Worker : Serving(v) => v \in left
      <3>1. SUFFICES ASSUME NEW v \in Worker, Serving(v) PROVE v \in left
        OBVIOUS
      <3>2. CASE v = thread
        BY <1>3, <3>1, <3>2, WarmAssumption DEF WarmInv, UnmarkedIsLeft, Serving, Alive
      <3>3. CASE v # thread
        BY <3>1, <3>3 DEF WarmInv, UnmarkedIsLeft, OneWorker
      <3> QED
        BY <3>2, <3>3
    <2>4. OneWorker'
      BY <1>1, <2>1, <2>2, <2>3, WarmAssumption DEF OneWorker, Serving, Alive
    <2> QED
      BY <2>1, <2>2, <2>4
      DEF WarmInv, Placed, MarkMeansServing, StopMeansShutdown, QueueIsMarked,
          UnmarkedIsLeft, Serving
  <1> QED
    BY <1>2, <1>3

(* The worker retires only with the queue empty or after a stop, and gives *)
(* the mark back only if it is its own.                                    *)
LEMMA NextOrRetireWarm ==
    ASSUME WarmInv, NEW w \in Worker, NextOrRetire(w)
    PROVE  WarmInv'
  <1>1. /\ worker[w].at = "loop" /\ UNCHANGED <<known, thread, stop, phase, left>>
    BY DEF NextOrRetire
  <1>2. CASE ~stop /\ queue # << >>
    <2>1. PICK k : /\ worker' = [worker EXCEPT ![w] = k]
                   /\ "at" \in DOMAIN k /\ k.at = "process"
      <3>1. PICK n \in 0..Photos :
              worker' = [worker EXCEPT ![w] =
                [at |-> "process", key |-> Head(queue), photos |-> n, attempts |-> 0]]
        BY <1>2 DEF NextOrRetire
      <3> DEFINE k == [at |-> "process", key |-> Head(queue), photos |-> n, attempts |-> 0]
      <3>2. "at" \in DOMAIN k /\ k.at = "process"
        OBVIOUS
      <3> QED
        BY <3>1, <3>2
    <2>2. /\ DOMAIN worker' = Worker /\ \A v \in Worker : "at" \in DOMAIN worker'[v]
          /\ worker'[w].at = "process" /\ \A v \in Worker \ {w} : worker'[v] = worker[v]
      BY <2>1, Moved
    <2>3. running' = running
      BY <1>2 DEF NextOrRetire
    <2> QED
      BY <1>1, <1>2, <2>2, <2>3
      DEF WarmInv, Placed, MarkMeansServing, StopMeansShutdown, QueueIsMarked,
          UnmarkedIsLeft, OneWorker, Serving
  <1>3. CASE stop \/ queue = << >>
    <2>1. /\ worker' = [worker EXCEPT ![w].at = "leaving"]
          /\ running' = (running /\ thread # w) /\ queue' = queue
      BY <1>3 DEF NextOrRetire
    <2>2. /\ DOMAIN worker' = Worker /\ \A v \in Worker : "at" \in DOMAIN worker'[v]
          /\ worker'[w].at = "leaving" /\ \A v \in Worker \ {w} : worker'[v] = worker[v]
      BY <2>1, Placing
    <2>3. /\ running' \in BOOLEAN /\ (running' => running /\ thread # w)
          /\ (running /\ thread # w => running')
      BY <2>1
    <2>4. Placed' /\ MarkMeansServing' /\ StopMeansShutdown'
      BY <1>1, <2>2, <2>3
      DEF WarmInv, Placed, MarkMeansServing, StopMeansShutdown, Serving
    <2>5. QueueIsMarked'
      BY <1>1, <1>3, <2>1, <2>3, <2>2
      DEF WarmInv, MarkMeansServing, StopMeansShutdown, QueueIsMarked, UnmarkedIsLeft,
          OneWorker, Serving
    <2>6. UnmarkedIsLeft'
      BY <1>1, <2>2, <2>3 DEF WarmInv, UnmarkedIsLeft, OneWorker, Serving
    <2> QED
      BY <2>4, <2>5, <2>6 DEF WarmInv
  <1> QED
    BY <1>2, <1>3

(* A step inside a folder, or the end of a thread that retired.            *)
LEMMA WorksOn ==
    ASSUME WarmInv, NEW w \in Worker, NEW k, "at" \in DOMAIN k,
           worker' = [worker EXCEPT ![w] = k],
           \/ worker[w].at \in {"loop", "process"} /\ k.at \in {"loop", "process"}
           \/ worker[w].at \notin {"loop", "process"} /\ k.at \notin {"loop", "process"},
           UNCHANGED <<queue, thread, running, stop, phase, left>>
    PROVE  WarmInv'
  <1>1. /\ DOMAIN worker' = Worker /\ \A v \in Worker : "at" \in DOMAIN worker'[v]
        /\ worker'[w].at = k.at /\ \A v \in Worker \ {w} : worker'[v] = worker[v]
    BY Moved
  <1>2. \A v \in Worker : Serving(v)' <=> Serving(v)
    BY <1>1 DEF Serving
  <1> QED
    BY <1>1, <1>2
    DEF WarmInv, Placed, MarkMeansServing, StopMeansShutdown, QueueIsMarked,
        UnmarkedIsLeft, OneWorker

LEMMA WorkWarm ==
    ASSUME WarmInv, NEW w \in Worker, Work(w)
    PROVE  WarmInv'
  <1>0. "at" \in DOMAIN worker[w]
    BY DEF WarmInv, Placed
  <1>1. CASE Answered(w)
    <2> DEFINE k == [worker[w] EXCEPT !.photos = @ - 1, !.attempts = 0]
    <2>1. worker' = [worker EXCEPT ![w] = k] /\ worker[w].at = "process"
      BY <1>1 DEF Answered
    <2>2. "at" \in DOMAIN k /\ k.at = "process"
      BY <1>0, <2>1
    <2> QED
      BY <1>1, <2>1, <2>2, WorksOn DEF Answered
  <1>2. CASE Saturated(w)
    <2> DEFINE next == [worker[w] EXCEPT !.photos = @ - 1, !.attempts = 0]
               again == [worker[w] EXCEPT !.attempts = @ + 1]
    <2>1. worker[w].at = "process"
      BY <1>2 DEF Saturated
    <2>2. /\ "at" \in DOMAIN next /\ next.at = "process"
          /\ "at" \in DOMAIN again /\ again.at = "process"
      BY <1>0, <2>1
    <2>3. CASE worker[w].attempts + 1 = MaxAttempts
      <3>1. worker' = [worker EXCEPT ![w] = next]
        BY <1>2, <2>3 DEF Saturated, WarmInv, Placed
      <3> QED
        BY <1>2, <2>1, <2>2, <3>1, WorksOn DEF Saturated
    <2>4. CASE worker[w].attempts + 1 # MaxAttempts
      <3>1. worker' = [worker EXCEPT ![w] = again]
        BY <1>2, <2>4 DEF Saturated, WarmInv, Placed
      <3> QED
        BY <1>2, <2>1, <2>2, <3>1, WorksOn DEF Saturated
    <2> QED
      BY <2>3, <2>4
  <1>3. CASE Done(w)
    <2>1. /\ worker' = [worker EXCEPT ![w] = [Off EXCEPT !.at = "loop"]]
          /\ worker[w].at = "process"
      BY <1>3 DEF Done
    <2>2. "at" \in DOMAIN [Off EXCEPT !.at = "loop"] /\ [Off EXCEPT !.at = "loop"].at = "loop"
      BY DEF Off
    <2> QED
      BY <1>3, <2>1, <2>2, WorksOn DEF Done
  <1>4. CASE Leave(w)
    <2>1. "at" \in DOMAIN Off /\ Off.at = "off"
      BY DEF Off
    <2> QED
      BY <1>4, <2>1, WorksOn DEF Leave
  <1> QED
    BY <1>1, <1>2, <1>3, <1>4, NextOrRetireWarm DEF Work

LEMMA ShutdownWarm ==
    ASSUME WarmInv, Shutdown \/ ShutdownEnds
    PROVE  WarmInv'
  <1>1. CASE Shutdown
    <2>1. stop' \in BOOLEAN
      BY <1>1 DEF Shutdown
    <2> QED
      BY <1>1, <2>1
      DEF WarmInv, Placed, MarkMeansServing, StopMeansShutdown, QueueIsMarked,
          UnmarkedIsLeft, OneWorker, Serving, Shutdown
  <1>2. CASE ShutdownEnds
    <2>1. \A w \in Worker : Serving(w) => w \in left'
      BY <1>2, WarmAssumption DEF ShutdownEnds, Serving, Alive
    <2> QED
      BY <1>2, <2>1
      DEF WarmInv, Placed, MarkMeansServing, StopMeansShutdown, QueueIsMarked,
          UnmarkedIsLeft, OneWorker, Serving, ShutdownEnds
  <1> QED
    BY <1>1, <1>2

LEMMA NextWarm ==
    ASSUME WarmInv, [Next]_vars
    PROVE  WarmInv'
  <1>1. CASE UNCHANGED vars
    BY <1>1
    DEF vars, WarmInv, Placed, MarkMeansServing, StopMeansShutdown, QueueIsMarked,
        UnmarkedIsLeft, OneWorker, Serving
  <1> QED
    BY <1>1, EnqueueWarm, WorkWarm, ShutdownWarm DEF Next

(* No enqueue ever meets a worker that has made up its mind to retire and  *)
(* starts none, whatever evictions, retries and shutdowns come between.    *)
THEOREM NothingStranded == Spec => []NotStranded
  <1>1. Init => WarmInv
    BY InitWarm
  <1>2. WarmInv /\ [Next]_vars => WarmInv'
    BY NextWarm
  <1>3. WarmInv => NotStranded
    BY WarmAssumption
    DEF WarmInv, MarkMeansServing, StopMeansShutdown, QueueIsMarked, NotStranded
  <1> QED
    BY <1>1, <1>2, <1>3, PTL DEF Spec

(* A second worker serves only when a shutdown left one behind.            *)
THEOREM OneWorkerServes == Spec => []OneWorker
  <1>1. Init => WarmInv
    BY InitWarm
  <1>2. WarmInv /\ [Next]_vars => WarmInv'
    BY NextWarm
  <1>3. WarmInv => OneWorker
    BY DEF WarmInv, UnmarkedIsLeft
  <1> QED
    BY <1>1, <1>2, <1>3, PTL DEF Spec
-----------------------------------------------------------------------------
Distinct(q) == \A i, j \in DOMAIN q : q[i] = q[j] => i = j

(* What is left of q once some folders were taken out.                     *)
PartOf(r, q) ==
    /\ r \in Seq(Key) /\ Distinct(r)
    /\ Len(r) <= Len(q) /\ Queued(r) \subseteq Queued(q)

LEMMA TailIsPart ==
    ASSUME NEW q \in Seq(Key), Distinct(q), q # << >>
    PROVE  /\ PartOf(Tail(q), q) /\ Len(Tail(q)) = Len(q) - 1
           /\ Head(q) \in Key
           /\ Queued(Tail(q)) = Queued(q) \ {Head(q)} /\ Head(q) \in Queued(q)
  <1>1. /\ Tail(q) \in Seq(Key) /\ Len(q) \in Nat \ {0} /\ Len(Tail(q)) = Len(q) - 1
        /\ \A i \in 1..Len(Tail(q)) : Tail(q)[i] = q[i + 1]
        /\ Head(q) = q[1] /\ Head(q) \in Key
    BY HeadTailProperties, EmptySeq, LenProperties
  <1>2. DOMAIN q = 1..Len(q) /\ DOMAIN Tail(q) = 1..Len(Tail(q))
    BY <1>1, LenProperties
  <1>3. \A i \in 1..Len(Tail(q)) : i + 1 \in 1..Len(q) /\ i + 1 # 1
    BY <1>1
  <1>4. Distinct(Tail(q))
    BY <1>1, <1>2, <1>3 DEF Distinct
  <1>5. Head(q) \notin Queued(Tail(q))
    BY <1>1, <1>2, <1>3 DEF Distinct, Queued
  <1>6. Queued(q) \subseteq Queued(Tail(q)) \union {Head(q)}
    <2>1. SUFFICES ASSUME NEW i \in 1..Len(q), i # 1 PROVE q[i] \in Queued(Tail(q))
      BY <1>1, <1>2 DEF Queued
    <2>2. i - 1 \in 1..Len(Tail(q)) /\ (i - 1) + 1 = i
      BY <1>1, <2>1
    <2>3. Tail(q)[i - 1] = q[i]
      BY <1>1, <2>2
    <2> QED
      BY <1>2, <2>2, <2>3 DEF Queued
  <1>7. Queued(Tail(q)) \subseteq Queued(q) /\ Head(q) \in Queued(q)
    BY <1>1, <1>2, <1>3 DEF Queued
  <1> QED
    BY <1>1, <1>4, <1>5, <1>6, <1>7 DEF PartOf

LEMMA RemovedIsPart ==
    ASSUME NEW q \in Seq(Key), Distinct(q), NEW e
    PROVE  PartOf(Removed(q, e), q)
  <1>0. Len(q) \in Nat /\ DOMAIN q = 1..Len(q)
    BY LenProperties
  <1>1. CASE e \notin Queued(q)
    BY <1>0, <1>1 DEF Removed, PartOf
  <1>2. CASE e \in Queued(q)
    <2> DEFINE i == CHOOSE i \in DOMAIN q : q[i] = e
               a == SubSeq(q, 1, i - 1)
               b == SubSeq(q, i + 1, Len(q))
    <2>1. i \in 1..Len(q)
      BY <1>0, <1>2 DEF Queued
    <2>2. Removed(q, e) = a \o b
      BY <1>2 DEF Removed
    <2> HIDE DEF i
    <2>3. /\ a \in Seq(Key) /\ Len(a) = i - 1
          /\ \A j \in 1..(i - 1) : a[j] = q[j]
      <3>1. i - 1 \in Int /\ 1 \in Int /\ \A j \in 1..(i - 1) : q[j] \in Key
        BY <1>0, <2>1, ElementOfSeq
      <3> QED
        BY <1>0, <2>1, <3>1, SubSeqProperties
    <2>4. /\ b \in Seq(Key) /\ Len(b) = Len(q) - i
          /\ \A j \in 1..Len(q) - i : b[j] = q[j + i]
      <3>1. \A j \in i + 1..Len(q) : q[j] \in Key
        BY <1>0, <2>1, ElementOfSeq
      <3>2. i + 1 \in Int /\ Len(q) \in Int /\ i \in Int
        BY <1>0, <2>1
      <3>3. \A j \in 1..Len(q) - (i + 1) + 1 : b[j] = q[i + 1 + j - 1]
        BY <3>1, <3>2, SubSeqProperties
      <3>4. Len(b) = Len(q) - i
        <4>1. Len(b) = IF i + 1 <= Len(q) THEN Len(q) - (i + 1) + 1 ELSE 0
          BY <3>1, <3>2, SubSeqProperties
        <4>2. i <= Len(q)
          BY <2>1, <3>2
        <4> QED
          BY <3>2, <4>1, <4>2
      <3>5. b \in Seq(Key)
        BY <3>1, <3>2, SubSeqProperties
      <3>6. ASSUME NEW j \in 1..Len(q) - i
            PROVE  b[j] = q[j + i]
        <4>1. j \in 1..Len(q) - (i + 1) + 1 /\ i + 1 + j - 1 = j + i
          BY <3>2
        <4> QED
          BY <3>3, <4>1
      <3> QED
        BY <3>4, <3>5, <3>6
    <2> HIDE DEF a, b
    <2> DEFINE r == a \o b
    <2>5. /\ r \in Seq(Key) /\ Len(r) = Len(q) - 1
          /\ \A j \in 1..Len(q) - 1 : r[j] = q[IF j < i THEN j ELSE j + 1]
      <3>1. /\ r \in Seq(Key) /\ Len(r) = Len(a) + Len(b)
            /\ \A j \in 1..Len(a) + Len(b) :
                 r[j] = IF j <= Len(a) THEN a[j] ELSE b[j - Len(a)]
        BY <2>3, <2>4, ConcatProperties
      <3> HIDE DEF r
      <3>2. Len(a) + Len(b) = Len(q) - 1
        BY <1>0, <2>1, <2>3, <2>4
      <3>3. ASSUME NEW j \in 1..Len(q) - 1
            PROVE  r[j] = q[IF j < i THEN j ELSE j + 1]
        <4>1. CASE j < i
          BY <1>0, <2>1, <2>3, <3>1, <3>2, <4>1
        <4>2. CASE ~(j < i)
          <5>1. j - (i - 1) \in 1..Len(q) - i /\ j - (i - 1) + i = j + 1
            BY <1>0, <2>1, <4>2
          <5>2. r[j] = b[j - (i - 1)]
            BY <1>0, <2>1, <2>3, <3>1, <3>2, <4>2
          <5> QED
            BY <2>4, <4>2, <5>1, <5>2
        <4> QED
          BY <4>1, <4>2
      <3> QED
        BY <3>1, <3>2, <3>3
    <2>6. DOMAIN r = 1..(Len(q) - 1)
      BY <2>5, LenProperties
    <2> DEFINE src(j) == IF j < i THEN j ELSE j + 1
    <2>7. /\ \A j \in 1..Len(q) - 1 : src(j) \in 1..Len(q) /\ r[j] = q[src(j)]
          /\ \A j, l \in 1..Len(q) - 1 : src(j) = src(l) => j = l
      BY <1>0, <2>1, <2>5
    <2> HIDE DEF src
    <2>8. Distinct(r) /\ Queued(r) \subseteq Queued(q)
      <3>1. ASSUME NEW j \in 1..Len(q) - 1, NEW l \in 1..Len(q) - 1, r[j] = r[l]
            PROVE  j = l
        BY <1>0, <2>7, <3>1 DEF Distinct
      <3>2. Distinct(r)
        BY <2>6, <3>1 DEF Distinct
      <3>3. ASSUME NEW j \in 1..Len(q) - 1
            PROVE  r[j] \in Queued(q)
        BY <1>0, <2>7 DEF Queued
      <3> QED
        BY <2>6, <3>2, <3>3 DEF Queued
    <2>9. Removed(q, e) = r
      BY <2>2 DEF r
    <2> QED
      BY <1>0, <2>5, <2>8, <2>9 DEF PartOf
  <1> QED
    BY <1>1, <1>2

(* Whoever is taken out, what stays was queued, in single copies, and      *)
(* leaves room for one more.                                               *)
LEMMA RoomIsPart ==
    ASSUME NEW q \in Seq(Key), Distinct(q), Len(q) <= QueueMax, NEW k
    PROVE  PartOf(Room(q, k), q) /\ Len(Room(q, k)) < QueueMax
  <1> DEFINE t == AfterSibling(q, k)
  <1>0. QueueMax \in Nat \ {0} /\ Len(q) \in Nat
    BY WarmAssumption, LenProperties
  <1>1. PartOf(t, q)
    BY <1>0, RemovedIsPart DEF AfterSibling, PartOf
  <1> HIDE DEF t
  <1>2. Len(t) \in Nat
    BY <1>1, LenProperties DEF PartOf
  <1>3. CASE Len(t) >= QueueMax
    <2>1. t # << >> /\ t \in Seq(Key) /\ Distinct(t)
      BY <1>0, <1>1, <1>3, EmptySeq DEF PartOf
    <2>2. PartOf(Tail(t), t) /\ Len(Tail(t)) = Len(t) - 1
      BY <2>1, TailIsPart
    <2>3. Room(q, k) = Tail(t)
      BY <1>3 DEF Room, t
    <2> QED
      BY <1>0, <1>1, <1>2, <2>2, <2>3 DEF PartOf
  <1>4. CASE Len(t) < QueueMax
    <2>1. Room(q, k) = t
      BY <1>0, <1>2, <1>4 DEF Room, t
    <2> QED
      BY <1>1, <1>4, <2>1
  <1> QED
    BY <1>0, <1>2, <1>3, <1>4

LEMMA AppendedQueue ==
    ASSUME NEW q \in Seq(Key), Distinct(q), NEW k \in Key, k \notin Queued(q)
    PROVE  /\ Append(q, k) \in Seq(Key) /\ Len(Append(q, k)) = Len(q) + 1
           /\ Distinct(Append(q, k)) /\ Queued(Append(q, k)) = Queued(q) \union {k}
  <1>1. /\ Append(q, k) \in Seq(Key) /\ Len(Append(q, k)) = Len(q) + 1
        /\ \A i \in 1..Len(q) : Append(q, k)[i] = q[i]
        /\ Append(q, k)[Len(q) + 1] = k
    BY AppendProperties
  <1>2. /\ Len(q) \in Nat /\ DOMAIN q = 1..Len(q)
        /\ DOMAIN Append(q, k) = 1..(Len(q) + 1)
    BY <1>1, LenProperties
  <1>3. \A i \in 1..(Len(q) + 1) : i \in 1..Len(q) \/ i = Len(q) + 1
    BY <1>2
  <1>4. Distinct(Append(q, k))
    BY <1>1, <1>2, <1>3 DEF Distinct, Queued
  <1>5. Queued(Append(q, k)) = Queued(q) \union {k}
    BY <1>1, <1>2, <1>3 DEF Queued
  <1> QED
    BY <1>1, <1>4, <1>5
-----------------------------------------------------------------------------
WorkerType == [at : {"off", "loop", "process", "leaving"}, key : Key,
               photos : 0..Photos, attempts : 0..(MaxAttempts - 1)]

Makes(w, k) == worker[w].at = "process" /\ worker[w].key = k

(* Each folder is queued once or made once, and known while it is.         *)
EachOnce ==
    /\ Distinct(queue)
    /\ \A k \in Key :
         /\ k \in known <=> k \in Queued(queue) \/ \E w \in Worker : Makes(w, k)
         /\ \A w \in Worker : Makes(w, k) => k \notin Queued(queue)
         /\ \A v, w \in Worker : Makes(v, k) /\ Makes(w, k) => v = w

LEMMA ByFolder ==
    ASSUME TypeOK
    PROVE  KnownMatches <=> EachOnce
  <1>1. /\ known \subseteq Key /\ Queued(queue) \subseteq Key
        /\ \A w \in Worker : worker[w].key \in Key
    <2>1. queue \in Seq(Key) /\ DOMAIN queue = 1..Len(queue)
      BY LenProperties DEF TypeOK
    <2>2. \A i \in DOMAIN queue : queue[i] \in Key
      BY <2>1, ElementOfSeq
    <2> QED
      BY <2>2 DEF TypeOK, Queued
  <1>2. \A k : k \in Making <=> \E w \in Worker : Makes(w, k)
    BY DEF Making, Makes
  <1>3. Making \subseteq Key
    BY <1>1, <1>2 DEF Makes
  <1>4. known = Queued(queue) \union Making <=>
          \A k \in Key :
            k \in known <=> k \in Queued(queue) \/ \E w \in Worker : Makes(w, k)
    BY <1>1, <1>2, <1>3
  <1>5. Queued(queue) \intersect Making = {} <=>
          \A k \in Key, w \in Worker : Makes(w, k) => k \notin Queued(queue)
    BY <1>1, <1>2
  <1>6. (\A v, w \in Worker :
           v # w /\ worker[v].at = "process" /\ worker[w].at = "process" =>
             worker[v].key # worker[w].key) <=>
          \A k \in Key, v, w \in Worker : Makes(v, k) /\ Makes(w, k) => v = w
    BY <1>1 DEF Makes
  <1> QED
    BY <1>4, <1>5, <1>6 DEF KnownMatches, EachOnce, Distinct

KnownInv == TypeOK /\ EachOnce

LEMMA ThreadMoves ==
    ASSUME TypeOK, NEW w \in Worker, NEW r \in WorkerType, worker' = [worker EXCEPT ![w] = r]
    PROVE  /\ worker' \in [Worker -> WorkerType]
           /\ \A k : Makes(w, k)' <=> r.at = "process" /\ r.key = k
           /\ \A v \in Worker : v # w => \A k : (Makes(v, k)' <=> Makes(v, k))
  <1>1. worker \in [Worker -> WorkerType]
    BY DEF TypeOK, WorkerType
  <1>2. worker' \in [Worker -> WorkerType] /\ worker'[w] = r
    BY <1>1
  <1>3. \A v \in Worker : v # w => worker'[v] = worker[v]
    BY <1>1
  <1> QED
    BY <1>2, <1>3 DEF Makes

LEMMA OffIsTyped ==
    /\ Off \in WorkerType /\ Off.at = "off"
    /\ [Off EXCEPT !.at = "loop"] \in WorkerType /\ [Off EXCEPT !.at = "loop"].at = "loop"
  <1>1. Off.key \in Key
    BY WarmAssumption DEF Off
  <1>2. 0 \in 0..Photos /\ 0 \in 0..(MaxAttempts - 1)
    BY WarmAssumption
  <1>3. Off = [at |-> "off", key |-> Off.key, photos |-> 0, attempts |-> 0]
    BY DEF Off
  <1> QED
    BY <1>1, <1>2, <1>3 DEF WorkerType

(* A folder asked for takes the place of those that make room for it.      *)
LEMMA EnqueueKnown ==
    ASSUME KnownInv, NEW k \in Key, Enqueue(k)
    PROVE  KnownInv'
  <1> DEFINE q == Room(queue, k)
  <1>1. /\ queue \in Seq(Key) /\ Len(queue) <= QueueMax /\ Distinct(queue)
        /\ worker \in [Worker -> WorkerType]
    BY DEF KnownInv, TypeOK, EachOnce, WorkerType
  <1>2. PartOf(q, queue) /\ Len(q) < QueueMax
    BY <1>1, RoomIsPart
  <1>3. /\ k \notin known /\ queue' = Append(q, k)
        /\ known' = (known \ (Queued(queue) \ Queued(q))) \union {k}
        /\ left' \subseteq left
    BY DEF Enqueue, KnownAfter
  <1> HIDE DEF q
  <1>4. k \notin Queued(queue) /\ k \notin Queued(q)
    BY <1>2, <1>3 DEF KnownInv, EachOnce, PartOf
  <1>5. /\ queue' \in Seq(Key) /\ Len(queue') = Len(q) + 1
        /\ Distinct(queue') /\ Queued(queue') = Queued(q) \union {k}
    BY <1>2, <1>3, <1>4, AppendedQueue DEF PartOf
  <1>6. /\ worker' \in [Worker -> WorkerType]
        /\ \A v \in Worker : \A c : Makes(v, c)' <=> Makes(v, c)
        /\ thread' \in Worker \union {NoWorker}
        /\ running' \in BOOLEAN /\ stop' \in BOOLEAN
        /\ phase' \in {"up", "stopping", "down"}
    <2>1. CASE running /\ Alive(thread)
      BY <1>1, <2>1 DEF Enqueue, KnownInv, TypeOK, Makes
    <2>2. CASE ~(running /\ Alive(thread))
      <3>1. PICK w \in Worker :
              /\ worker[w].at = "off" /\ thread' = w /\ running' = TRUE /\ stop' = FALSE
              /\ worker' = [worker EXCEPT ![w].at = "loop"]
              /\ phase' = IF phase = "down" THEN "up" ELSE phase
        BY <2>2 DEF Enqueue
      <3> DEFINE r == [worker[w] EXCEPT !.at = "loop"]
      <3>2. r \in WorkerType /\ r.at = "loop" /\ worker' = [worker EXCEPT ![w] = r]
        BY <1>1, <3>1 DEF WorkerType
      <3> HIDE DEF r
      <3>3. /\ worker' \in [Worker -> WorkerType]
            /\ \A c : Makes(w, c)' <=> r.at = "process" /\ r.key = c
            /\ \A v \in Worker : v # w => \A c : (Makes(v, c)' <=> Makes(v, c))
        BY <3>2, ThreadMoves DEF KnownInv
      <3>4. \A c : ~Makes(w, c) /\ ~Makes(w, c)'
        BY <3>1, <3>2, <3>3 DEF Makes
      <3>5. phase' \in {"up", "stopping", "down"}
        BY <3>1 DEF KnownInv, TypeOK
      <3> QED
        BY <3>1, <3>3, <3>4, <3>5
    <2> QED
      BY <2>1, <2>2
  <1>7. TypeOK'
    <2>1. Len(queue') <= QueueMax
      <3>1. Len(q) \in Nat /\ QueueMax \in Nat
        BY <1>2, WarmAssumption, LenProperties DEF PartOf
      <3> QED
        BY <1>2, <1>5, <3>1
    <2>2. known' \subseteq Key /\ left' \subseteq Worker
      BY <1>3 DEF KnownInv, TypeOK
    <2> QED
      BY <1>5, <1>6, <2>1, <2>2 DEF TypeOK, WorkerType
  <1>8. EachOnce'
    <2>1. SUFFICES ASSUME NEW c \in Key
                   PROVE  /\ c \in known' <=> c \in Queued(queue') \/ \E w \in Worker : Makes(w, c)
                          /\ \A w \in Worker : Makes(w, c) => c \notin Queued(queue')
                          /\ \A v, w \in Worker : Makes(v, c) /\ Makes(w, c) => v = w
      <3>1. Distinct(queue)' /\ Queued(queue)' = Queued(queue')
        BY <1>5 DEF Distinct, Queued
      <3> QED
        BY <1>6, <2>1, <3>1 DEF EachOnce
    <2>2. /\ c \in known <=> c \in Queued(queue) \/ \E w \in Worker : Makes(w, c)
          /\ \A w \in Worker : Makes(w, c) => c \notin Queued(queue)
          /\ \A v, w \in Worker : Makes(v, c) /\ Makes(w, c) => v = w
      BY DEF KnownInv, EachOnce
    <2>3. \A w \in Worker : ~Makes(w, k)
      BY <1>3 DEF KnownInv, EachOnce
    <2> QED
      BY <1>2, <1>3, <1>4, <1>5, <2>2, <2>3 DEF PartOf
  <1> QED
    BY <1>7, <1>8 DEF KnownInv

(* A thread that keeps making the folder it makes, or goes on to none.     *)
LEMMA KeepsAtIt ==
    ASSUME KnownInv, NEW w \in Worker, NEW r \in WorkerType,
           worker' = [worker EXCEPT ![w] = r],
           \/ worker[w].at = "process" /\ r.at = "process" /\ r.key = worker[w].key
           \/ worker[w].at # "process" /\ r.at # "process",
           running' \in BOOLEAN, UNCHANGED <<queue, known, thread, stop, phase, left>>
    PROVE  KnownInv'
  <1>1. /\ worker' \in [Worker -> WorkerType]
        /\ \A c : Makes(w, c)' <=> r.at = "process" /\ r.key = c
        /\ \A v \in Worker : v # w => \A c : (Makes(v, c)' <=> Makes(v, c))
    BY ThreadMoves DEF KnownInv
  <1>2. \A v \in Worker : \A c : Makes(v, c)' <=> Makes(v, c)
    BY <1>1 DEF Makes
  <1>3. TypeOK'
    BY <1>1 DEF KnownInv, TypeOK, WorkerType
  <1>4. EachOnce'
    BY <1>2 DEF KnownInv, EachOnce, Distinct, Queued
  <1> QED
    BY <1>3, <1>4 DEF KnownInv

(* The first folder of the queue is made instead, by one thread.           *)
LEMMA NextOrRetireKnown ==
    ASSUME KnownInv, NEW w \in Worker, NextOrRetire(w)
    PROVE  KnownInv'
  <1>0. /\ worker[w].at = "loop" /\ UNCHANGED <<known, thread, stop, phase, left>>
        /\ worker \in [Worker -> WorkerType]
    BY DEF NextOrRetire, KnownInv, TypeOK, WorkerType
  <1>1. CASE ~stop /\ queue # << >>
    <2>1. PICK n \in 0..Photos :
            worker' = [worker EXCEPT ![w] =
              [at |-> "process", key |-> Head(queue), photos |-> n, attempts |-> 0]]
      BY <1>1 DEF NextOrRetire
    <2> DEFINE r == [at |-> "process", key |-> Head(queue), photos |-> n, attempts |-> 0]
               h == Head(queue)
    <2>2. queue' = Tail(queue) /\ running' = running
      BY <1>1 DEF NextOrRetire
    <2>3. /\ PartOf(queue', queue) /\ Len(queue') = Len(queue) - 1 /\ h \in Key
          /\ Queued(queue') = Queued(queue) \ {h} /\ h \in Queued(queue)
      BY <1>1, <2>2, TailIsPart DEF KnownInv, TypeOK, EachOnce
    <2>4. r \in WorkerType /\ r.at = "process" /\ r.key = h
      <3>1. 0 \in 0..(MaxAttempts - 1)
        BY WarmAssumption
      <3> QED
        BY <2>1, <2>3, <3>1 DEF WorkerType
    <2> HIDE DEF r, h
    <2>5. /\ worker' \in [Worker -> WorkerType]
          /\ \A c : Makes(w, c)' <=> h = c
          /\ \A v \in Worker : v # w => \A c : (Makes(v, c)' <=> Makes(v, c))
      <3>1. worker' = [worker EXCEPT ![w] = r]
        BY <2>1 DEF r
      <3> QED
        BY <2>4, <3>1, ThreadMoves DEF KnownInv
    <2>6. \A c : ~Makes(w, c)
      BY <1>0 DEF Makes
    <2>7. TypeOK'
      <3>1. Len(queue') <= QueueMax
        <4>1. Len(queue) \in Nat /\ QueueMax \in Nat /\ Len(queue) <= QueueMax
          BY WarmAssumption, LenProperties DEF KnownInv, TypeOK
        <4> QED
          BY <2>3, <4>1
      <3> QED
        BY <1>0, <2>2, <2>3, <2>5, <3>1 DEF KnownInv, TypeOK, PartOf, WorkerType
    <2>8. EachOnce'
      <3>1. Distinct(queue)' /\ Queued(queue)' = Queued(queue')
        BY <2>3 DEF Distinct, Queued, PartOf
      <3>2. ASSUME NEW c \in Key
            PROVE  /\ c \in known' <=> c \in Queued(queue') \/ \E v \in Worker : Makes(v, c)'
                   /\ \A v \in Worker : Makes(v, c)' => c \notin Queued(queue')
                   /\ \A u, v \in Worker : Makes(u, c)' /\ Makes(v, c)' => u = v
        <4>1. /\ c \in known <=> c \in Queued(queue) \/ \E v \in Worker : Makes(v, c)
              /\ \A v \in Worker : Makes(v, c) => c \notin Queued(queue)
              /\ \A u, v \in Worker : Makes(u, c) /\ Makes(v, c) => u = v
          BY DEF KnownInv, EachOnce
        <4>2. CASE c = h
          BY <1>0, <2>3, <2>5, <4>1, <4>2
        <4>3. CASE c # h
          <5>1. \A v \in Worker : Makes(v, c)' <=> Makes(v, c)
            BY <2>5, <2>6, <4>3
          <5> QED
            BY <1>0, <2>3, <4>1, <4>3, <5>1
        <4> QED
          BY <4>2, <4>3
      <3> QED
        BY <3>1, <3>2 DEF EachOnce
    <2> QED
      BY <2>7, <2>8 DEF KnownInv
  <1>2. CASE stop \/ queue = << >>
    <2> DEFINE r == [worker[w] EXCEPT !.at = "leaving"]
    <2>1. r \in WorkerType /\ r.at = "leaving" /\ worker' = [worker EXCEPT ![w] = r]
      BY <1>0, <1>2 DEF NextOrRetire, WorkerType
    <2>2. running' \in BOOLEAN /\ queue' = queue
      BY <1>2 DEF NextOrRetire
    <2> HIDE DEF r
    <2> QED
      BY <1>0, <2>1, <2>2, KeepsAtIt
  <1> QED
    BY <1>1, <1>2

(* The thread puts its folder down, which nobody else holds.               *)
LEMMA DoneKnown ==
    ASSUME KnownInv, NEW w \in Worker, Done(w)
    PROVE  KnownInv'
  <1> DEFINE r == [Off EXCEPT !.at = "loop"]
             h == worker[w].key
  <1>1. /\ worker[w].at = "process" /\ worker' = [worker EXCEPT ![w] = r]
        /\ known' = known \ {h}
        /\ UNCHANGED <<queue, thread, running, stop, phase, left>>
    BY DEF Done
  <1>2. r \in WorkerType /\ r.at = "loop"
    BY OffIsTyped
  <1> HIDE DEF r
  <1>3. /\ worker' \in [Worker -> WorkerType]
        /\ \A c : ~Makes(w, c)'
        /\ \A v \in Worker : v # w => \A c : (Makes(v, c)' <=> Makes(v, c))
    BY <1>1, <1>2, ThreadMoves DEF KnownInv
  <1>4. \A c : Makes(w, c) <=> c = h
    BY <1>1 DEF Makes
  <1> HIDE DEF h
  <1>5. TypeOK'
    BY <1>1, <1>3 DEF KnownInv, TypeOK, WorkerType
  <1>6. EachOnce'
    <2>1. Distinct(queue)' /\ Queued(queue)' = Queued(queue)
      BY <1>1 DEF KnownInv, EachOnce, Distinct, Queued
    <2>2. ASSUME NEW c \in Key
          PROVE  /\ c \in known' <=> c \in Queued(queue) \/ \E v \in Worker : Makes(v, c)'
                 /\ \A v \in Worker : Makes(v, c)' => c \notin Queued(queue)
                 /\ \A u, v \in Worker : Makes(u, c)' /\ Makes(v, c)' => u = v
      <3>1. /\ c \in known <=> c \in Queued(queue) \/ \E v \in Worker : Makes(v, c)
            /\ \A v \in Worker : Makes(v, c) => c \notin Queued(queue)
            /\ \A u, v \in Worker : Makes(u, c) /\ Makes(v, c) => u = v
        BY DEF KnownInv, EachOnce
      <3>2. CASE c = h
        BY <1>1, <1>3, <1>4, <3>1, <3>2
      <3>3. CASE c # h
        <4>1. \A v \in Worker : Makes(v, c)' <=> Makes(v, c)
          BY <1>3, <1>4, <3>3
        <4> QED
          BY <1>1, <3>1, <3>3, <4>1
      <3> QED
        BY <3>2, <3>3
    <2> QED
      BY <2>1, <2>2 DEF EachOnce
  <1> QED
    BY <1>5, <1>6 DEF KnownInv

LEMMA WorkKnown ==
    ASSUME KnownInv, NEW w \in Worker, Work(w)
    PROVE  KnownInv'
  <1>0. worker \in [Worker -> WorkerType] /\ running \in BOOLEAN
    BY DEF KnownInv, TypeOK, WorkerType
  <1> DEFINE next == [worker[w] EXCEPT !.photos = @ - 1, !.attempts = 0]
             again == [worker[w] EXCEPT !.attempts = @ + 1]
  <1>1. ASSUME worker[w].photos > 0
        PROVE  next \in WorkerType /\ next.at = worker[w].at /\ next.key = worker[w].key
    <2>1. worker[w].photos - 1 \in 0..Photos /\ 0 \in 0..(MaxAttempts - 1)
      BY <1>0, <1>1, WarmAssumption DEF WorkerType
    <2> QED
      BY <1>0, <2>1 DEF WorkerType
  <1>2. ASSUME worker[w].attempts + 1 # MaxAttempts
        PROVE  again \in WorkerType /\ again.at = worker[w].at /\ again.key = worker[w].key
    <2>1. worker[w].attempts + 1 \in 0..(MaxAttempts - 1)
      BY <1>0, <1>2, WarmAssumption DEF WorkerType
    <2> QED
      BY <1>0, <2>1 DEF WorkerType
  <1>3. CASE Answered(w)
    <2>1. /\ worker' = [worker EXCEPT ![w] = next]
          /\ worker[w].at = "process" /\ worker[w].photos > 0
          /\ UNCHANGED <<queue, known, thread, running, stop, phase, left>>
      BY <1>3 DEF Answered
    <2> HIDE DEF next
    <2> QED
      BY <1>0, <1>1, <2>1, KeepsAtIt
  <1>4. CASE Saturated(w)
    <2>1. /\ worker[w].at = "process" /\ worker[w].photos > 0
          /\ UNCHANGED <<queue, known, thread, running, stop, phase, left>>
      BY <1>4 DEF Saturated
    <2>2. CASE worker[w].attempts + 1 = MaxAttempts
      <3>1. worker' = [worker EXCEPT ![w] = next]
        BY <1>0, <1>4, <2>2 DEF Saturated
      <3> HIDE DEF next
      <3> QED
        BY <1>0, <1>1, <2>1, <3>1, KeepsAtIt
    <2>3. CASE worker[w].attempts + 1 # MaxAttempts
      <3>1. worker' = [worker EXCEPT ![w] = again]
        BY <1>0, <1>4, <2>3 DEF Saturated
      <3> HIDE DEF again
      <3> QED
        BY <1>0, <1>2, <2>1, <2>3, <3>1, KeepsAtIt
    <2> QED
      BY <2>2, <2>3
  <1>5. CASE Leave(w)
    <2>1. /\ worker' = [worker EXCEPT ![w] = Off] /\ worker[w].at = "leaving"
          /\ UNCHANGED <<queue, known, thread, running, stop, phase, left>>
      BY <1>5 DEF Leave
    <2> QED
      BY <1>0, <2>1, OffIsTyped, KeepsAtIt
  <1> QED
    BY <1>3, <1>4, <1>5, NextOrRetireKnown, DoneKnown DEF Work

LEMMA ShutdownKnown ==
    ASSUME KnownInv, Shutdown \/ ShutdownEnds
    PROVE  KnownInv'
  <1>1. /\ UNCHANGED <<queue, known, thread, worker>>
        /\ running' \in BOOLEAN /\ stop' \in BOOLEAN
        /\ phase' \in {"up", "stopping", "down"} /\ left' \subseteq Worker
    <2>1. CASE Shutdown
      <3>1. stop' \in BOOLEAN
        BY <2>1 DEF Shutdown
      <3> QED
        BY <2>1, <3>1 DEF Shutdown, KnownInv, TypeOK
    <2>2. CASE ShutdownEnds
      BY <2>2 DEF ShutdownEnds, KnownInv, TypeOK
    <2> QED
      BY <2>1, <2>2
  <1>2. TypeOK'
    BY <1>1 DEF KnownInv, TypeOK
  <1>3. EachOnce'
    BY <1>1 DEF KnownInv, EachOnce, Distinct, Queued, Makes
  <1> QED
    BY <1>2, <1>3 DEF KnownInv

LEMMA InitKnown ==
    ASSUME Init
    PROVE  KnownInv
  <1>1. queue = << >> /\ Queued(queue) = {} /\ Distinct(queue)
    BY DEF Init, Queued, Distinct
  <1>2. TypeOK
    <2>1. queue \in Seq(Key) /\ Len(queue) <= QueueMax
      BY <1>1, EmptySeq, WarmAssumption
    <2>2. worker \in [Worker -> WorkerType]
      BY OffIsTyped DEF Init
    <2> QED
      BY <2>1, <2>2 DEF Init, TypeOK, WorkerType
  <1>3. \A w \in Worker : \A k : ~Makes(w, k)
    BY OffIsTyped DEF Init, Makes
  <1> QED
    BY <1>1, <1>2, <1>3 DEF Init, KnownInv, EachOnce

LEMMA NextKnown ==
    ASSUME KnownInv, [Next]_vars
    PROVE  KnownInv'
  <1>1. CASE UNCHANGED vars
    <2>1. TypeOK'
      BY <1>1 DEF vars, KnownInv, TypeOK
    <2> QED
      BY <1>1, <2>1 DEF vars, KnownInv, EachOnce, Distinct, Queued, Makes
  <1> QED
    BY <1>1, EnqueueKnown, WorkKnown, ShutdownKnown DEF Next

(* However folders are evicted, retried and put down, a folder is known    *)
(* exactly while it is queued or being made, and it is so only once.       *)
THEOREM KnownWhileWaiting == Spec => []KnownMatches
  <1>1. Init => KnownInv
    BY InitKnown
  <1>2. KnownInv /\ [Next]_vars => KnownInv'
    BY NextKnown
  <1>3. KnownInv => KnownMatches
    BY ByFolder DEF KnownInv
  <1> QED
    BY <1>1, <1>2, <1>3, PTL DEF Spec
=============================================================================
