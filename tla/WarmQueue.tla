------------------------------ MODULE WarmQueue ------------------------------
(***************************************************************************)
(* The worker that makes the thumbnails of folders people look at, before  *)
(* they ask for them.  Every listing of a folder enqueues it; the worker   *)
(* takes folders one by one and retires when there are none; the end of    *)
(* the application stops it and waits for it only for a while.             *)
(*                                                                         *)
(* A step under _warm_lock is one action.  Of a folder it matters how many *)
(* of its photos are still to be made; saturated is the answer of the      *)
(* thumbnail gate (ThumbnailGate) that makes the worker try again.         *)
(***************************************************************************)
EXTENDS Integers, Sequences, FiniteSets

CONSTANTS
    Date, Sub, Root,    \* a folder is a date and Root or a name below it
    Worker, NoWorker,   \* threads
    Photos,             \* the most previewable photos of a folder
    QueueMax,           \* shipping_photos_thumb_warm_queue_max_keys
    SubMax,             \* shipping_photos_thumb_warm_max_subfolders_per_date
    MaxAttempts         \* shipping_photos_thumb_warm_max_attempts

Key == Date \X (Sub \union {Root})

ASSUME WarmAssumption ==
    /\ NoWorker \notin Worker /\ Root \notin Sub /\ Key # {}
    /\ Photos \in Nat /\ {QueueMax, SubMax, MaxAttempts} \subseteq Nat \ {0}

VARIABLES
    queue,      \* _warm_queue
    known,      \* _warm_known
    thread,     \* _warm_thread
    running,    \* _warm_worker_running
    stop,       \* _warm_stop
    worker,     \* where each thread is
    phase,      \* how far the end of the application is
    left        \* threads that shutdown_warm_worker left behind

vars == <<queue, known, thread, running, stop, worker, phase, left>>
-----------------------------------------------------------------------------
Off == [at |-> "off", key |-> CHOOSE k \in Key : TRUE, photos |-> 0, attempts |-> 0]

Alive(w) == w # NoWorker /\ worker[w].at # "off"
Queued(q) == {q[i] : i \in DOMAIN q}

Init ==
    /\ queue = << >> /\ known = {}
    /\ thread = NoWorker /\ running = FALSE /\ stop = FALSE
    /\ worker = [w \in Worker |-> Off]
    /\ phase = "up" /\ left = {}
-----------------------------------------------------------------------------
(* The folders that make room for k: the oldest sub-folder of its date     *)
(* when that has enough of them, then the oldest of all.                   *)
Siblings(q, k) ==
    IF k[2] = Root THEN << >>
    ELSE SelectSeq(q, LAMBDA e : e[1] = k[1] /\ e[2] # Root)

(* deque.remove: e leaves its place.                                       *)
Removed(q, e) ==
    IF e \notin Queued(q) THEN q
    ELSE LET i == CHOOSE i \in DOMAIN q : q[i] = e
         IN  SubSeq(q, 1, i - 1) \o SubSeq(q, i + 1, Len(q))

AfterSibling(q, k) ==
    LET own == Siblings(q, k)
    IN  IF Len(own) >= SubMax THEN Removed(q, Head(own)) ELSE q

Room(q, k) ==
    LET trimmed == AfterSibling(q, k)
    IN  IF Len(trimmed) >= QueueMax THEN Tail(trimmed) ELSE trimmed

(* Mutant of KnownAfter: an evicted folder stays known.                    *)
KnownForEver(q) == known

(* What is known once q has become the queue.                              *)
KnownAfter(q) == known \ (Queued(queue) \ Queued(q))

(* enqueue_warm for a folder that is neither queued nor being made.  A     *)
(* worker is started unless one is marked as running and alive.            *)
Enqueue(k) ==
    /\ k \notin known
    /\ LET q == Room(queue, k) IN
       /\ queue' = Append(q, k)
       /\ known' = KnownAfter(q) \union {k}
    /\ IF running /\ Alive(thread)
       THEN UNCHANGED <<thread, running, stop, worker, phase>>
       ELSE \E w \in Worker :
              /\ worker[w].at = "off"
              /\ thread' = w /\ running' = TRUE /\ stop' = FALSE
              /\ worker' = [worker EXCEPT ![w].at = "loop"]
              /\ phase' = IF phase = "down" THEN "up" ELSE phase
    /\ left' = {w \in left : Alive(w)}

(* Mutant of NextOrRetire: whether the thread is alive must do.            *)
LeavesMarked(w) ==
    /\ worker[w].at = "loop"
    /\ IF ~stop /\ queue # << >>
       THEN /\ queue' = Tail(queue)
            /\ \E n \in 0..Photos :
                 worker' = [worker EXCEPT ![w] =
                   [at |-> "process", key |-> Head(queue), photos |-> n, attempts |-> 0]]
       ELSE /\ worker' = [worker EXCEPT ![w].at = "leaving"]
            /\ UNCHANGED queue
    /\ UNCHANGED <<known, running, thread, stop, phase, left>>

(* Mutant of NextOrRetire: whoever retires clears the mark.                *)
AnyRetires(w) ==
    /\ worker[w].at = "loop"
    /\ IF ~stop /\ queue # << >>
       THEN /\ queue' = Tail(queue)
            /\ \E n \in 0..Photos :
                 worker' = [worker EXCEPT ![w] =
                   [at |-> "process", key |-> Head(queue), photos |-> n, attempts |-> 0]]
            /\ UNCHANGED running
       ELSE /\ worker' = [worker EXCEPT ![w].at = "leaving"]
            /\ running' = FALSE
            /\ UNCHANGED queue
    /\ UNCHANGED <<known, thread, stop, phase, left>>

(* _next_folder_or_retire: the next folder, of which n photos are to be    *)
(* made, or the end of this worker, decided in one critical section.       *)
NextOrRetire(w) ==
    /\ worker[w].at = "loop"
    /\ IF ~stop /\ queue # << >>
       THEN /\ queue' = Tail(queue)
            /\ \E n \in 0..Photos :
                 worker' = [worker EXCEPT ![w] =
                   [at |-> "process", key |-> Head(queue), photos |-> n, attempts |-> 0]]
            /\ UNCHANGED running
       ELSE /\ worker' = [worker EXCEPT ![w].at = "leaving"]
            /\ running' = (running /\ thread # w)
            /\ UNCHANGED queue
    /\ UNCHANGED <<known, thread, stop, phase, left>>

(* One call of generate_once: it was answered, whatever with, and the next *)
(* photo follows; or the gate was full.                                    *)
Answered(w) ==
    /\ worker[w].at = "process" /\ ~stop /\ worker[w].photos > 0
    /\ worker' = [worker EXCEPT ![w].photos = @ - 1, ![w].attempts = 0]
    /\ UNCHANGED <<queue, known, thread, running, stop, phase, left>>

(* Mutant of Saturated: the last attempt is the first again.               *)
SaturatedAgain(w) ==
    /\ worker[w].at = "process" /\ ~stop /\ worker[w].photos > 0
    /\ worker' = [worker EXCEPT ![w].attempts = (@ + 1) % MaxAttempts]
    /\ UNCHANGED <<queue, known, thread, running, stop, phase, left>>

(* Tried again after a while, at most MaxAttempts times.                   *)
Saturated(w) ==
    /\ worker[w].at = "process" /\ ~stop /\ worker[w].photos > 0
    /\ worker' = IF worker[w].attempts + 1 = MaxAttempts
                 THEN [worker EXCEPT ![w].photos = @ - 1, ![w].attempts = 0]
                 ELSE [worker EXCEPT ![w].attempts = @ + 1]
    /\ UNCHANGED <<queue, known, thread, running, stop, phase, left>>

(* The folder is done or the worker was stopped.  A folder that is not     *)
(* there, or whose listing raises, has no photos.                          *)
Done(w) ==
    /\ worker[w].at = "process"
    /\ worker[w].photos = 0 \/ stop
    /\ known' = known \ {worker[w].key}
    /\ worker' = [worker EXCEPT ![w] = [Off EXCEPT !.at = "loop"]]
    /\ UNCHANGED <<queue, thread, running, stop, phase, left>>

Leave(w) ==
    /\ worker[w].at = "leaving"
    /\ worker' = [worker EXCEPT ![w] = Off]
    /\ UNCHANGED <<queue, known, thread, running, stop, phase, left>>
-----------------------------------------------------------------------------
(* shutdown_warm_worker: the stop is set, the thread is waited for until   *)
(* it is gone or the time is up, the mark is cleared.                      *)
Shutdown ==
    /\ phase = "up"
    /\ phase' = "stopping"
    /\ stop' = (stop \/ Alive(thread))
    /\ UNCHANGED <<queue, known, thread, running, worker, left>>

ShutdownEnds ==
    /\ phase = "stopping"
    /\ phase' = "down"
    /\ running' = FALSE
    /\ left' = {w \in Worker : Alive(w)}
    /\ UNCHANGED <<queue, known, thread, stop, worker>>
-----------------------------------------------------------------------------
Work(w) ==
    \/ NextOrRetire(w) \/ Answered(w) \/ Saturated(w) \/ Done(w) \/ Leave(w)

Next ==
    \/ \E k \in Key : Enqueue(k)
    \/ \E w \in Worker : Work(w)
    \/ Shutdown \/ ShutdownEnds

Spec == Init /\ [][Next]_vars

(* The threads run.                                                        *)
FairSpec == Spec /\ \A w \in Worker : WF_vars(Work(w))
-----------------------------------------------------------------------------
Serving(w) == worker[w].at \in {"loop", "process"}
Making == {worker[w].key : w \in {v \in Worker : worker[v].at = "process"}}

TypeOK ==
    /\ queue \in Seq(Key) /\ Len(queue) <= QueueMax
    /\ known \subseteq Key
    /\ thread \in Worker \union {NoWorker}
    /\ running \in BOOLEAN /\ stop \in BOOLEAN
    /\ worker \in [Worker -> [at : {"off", "loop", "process", "leaving"}, key : Key,
                              photos : 0..Photos, attempts : 0..(MaxAttempts - 1)]]
    /\ phase \in {"up", "stopping", "down"} /\ left \subseteq Worker

(* A folder is known exactly while it is queued or being made: one that    *)
(* was evicted or finished can be asked for again, and none is queued      *)
(* twice or made by two threads.                                           *)
KnownMatches ==
    /\ TypeOK
    /\ known = Queued(queue) \union Making
    /\ \A i, j \in DOMAIN queue : queue[i] = queue[j] => i = j
    /\ Queued(queue) \intersect Making = {}
    /\ \A v, w \in Worker :
         v # w /\ worker[v].at = "process" /\ worker[w].at = "process" =>
           worker[v].key # worker[w].key

(* While the application is up, a folder in the queue has a worker that    *)
(* has yet to look at the queue: an enqueue never meets one that has made  *)
(* up its mind to retire and starts none.                                  *)
NotStranded ==
    phase = "up" /\ queue # << >> =>
      running /\ ~stop /\ thread # NoWorker /\ Serving(thread)

(* Two workers serve at a time only when a shutdown did not wait for one   *)
(* of them, however they retire.                                           *)
OneWorker == \A w \in Worker : Serving(w) => w = thread \/ w \in left

(* Every folder is made or makes room, unless the application ends.        *)
KnownEnds == \A k \in Key : k \in known ~> k \notin known \/ phase # "up"
=============================================================================
