--------------------------- MODULE FreshnessProofs ---------------------------
(***************************************************************************)
(* That what a page is shown is not stale.  UpdateChannel: a socket that   *)
(* stays registered gets every event once and in order, and the page never *)
(* stops trying, for any number of events, sockets and faults.             *)
(* PhotoFolders: no list of dates shows one that had gone before it was    *)
(* made, and once the directory was changed no file index of another is    *)
(* left, for any number of threads, directories and dates.  The two share  *)
(* no state: each half speaks of one specification.                        *)
(***************************************************************************)
EXTENDS UpdateChannel, PhotoFolders, FiniteSetTheorems, SequenceTheorems, TLAPS

(* The shape of the state.                                                 *)
Drain == [at : {"idle", "held", "sending"}, event : Nat,
          pending : SUBSET Socket, failed : SUBSET Socket]

Page == [status : {"Connecting", "Live", "Backoff"}, ws : Socket \union {NoSocket},
         watchdog : BOOLEAN, reconnect : BOOLEAN]

Shaped ==
    /\ published \in Nat /\ published <= MaxEvent
    /\ queue \in Seq(Nat) /\ Len(queue) <= QueueMax
    /\ drain \in Drain
    /\ srv \in [Socket -> {"none", "accepted", "registered", "closing", "gone"}]
    /\ cli \in [Socket -> {"none", "connecting", "open", "closing"}]
    /\ link \in [Socket -> BOOLEAN]
    /\ got \in [Socket -> Seq(Nat)]
    /\ due \in [Socket -> SUBSET Nat]
    /\ page \in Page
    /\ faults \in Nat

(* The events still queued, and the last one taken out.                    *)
Taken == published - Len(queue)

QueueRuns ==
    /\ Len(queue) <= published
    /\ \A i \in 1..Len(queue) : queue[i] = Taken + i
    /\ drain.at # "idle" => drain.event = Taken

(* A send is under way only for the event held, and to who was registered. *)
DrainRuns ==
    /\ drain.at # "sending" => drain.pending = {} /\ drain.failed = {}
    /\ drain.pending \intersect drain.failed = {}
    /\ \A s \in Socket :
         srv[s] \in {"none", "accepted"} =>
           due[s] = {} /\ s \notin drain.pending \union drain.failed

(* What a socket got is increasing, and is past the event it waits for.    *)
GotRuns(s) ==
    /\ \A i \in DOMAIN got[s] : got[s][i] <= Taken
    /\ drain.at = "held" \/ s \in drain.pending =>
          \A i \in DOMAIN got[s] : got[s][i] < drain.event
    /\ \A i, j \in DOMAIN got[s] : i < j => got[s][i] < got[s][j]

(* Of what was fanned out to a registered socket it lacks at most the event*)
(* whose send is under way.                                                *)
MissingOf(s) == due[s] \ Items(got[s])

Lacks(s) ==
    srv[s] = "registered" /\ s \notin drain.failed =>
        MissingOf(s) = IF s \in drain.pending THEN {drain.event} ELSE {}

ChannelInv ==
    /\ Shaped /\ QueueRuns /\ DrainRuns
    /\ \A s \in Socket : GotRuns(s) /\ Lacks(s)
    /\ Cardinality(Registered) <= MaxConnections
-----------------------------------------------------------------------------
(* A page has finitely many sockets.                                       *)
LEMMA SocketsFinite ==
    \A S \in SUBSET Socket : IsFiniteSet(S) /\ Cardinality(S) \in Nat
<1>1. 1 \in Int /\ Sockets \in Int
  BY ChannelAssumption
<1>2. IsFiniteSet(Socket)
  BY <1>1, FS_Interval DEF Socket
<1> QED
  BY <1>2, FS_Subset, FS_CardinalityType

(* The sockets are finitely many, so a set of them no larger than another  *)
(* keeps its bound.                                                        *)
LEMMA FewRegistered ==
    ASSUME NEW S \in SUBSET Socket, Cardinality(S) <= MaxConnections,
           NEW T \in SUBSET S
    PROVE  Cardinality(T) <= MaxConnections
<1>2. IsFiniteSet(S)
  BY SocketsFinite
<1>3. /\ Cardinality(T) \in Nat /\ Cardinality(S) \in Nat
      /\ Cardinality(T) <= Cardinality(S)
  BY <1>2, FS_Subset, FS_CardinalityType
<1> QED
  BY <1>3, ChannelAssumption

(* One more socket than were below the limit is within it.                 *)
LEMMA OneMoreRegistered ==
    ASSUME NEW S \in SUBSET Socket, Cardinality(S) < MaxConnections, NEW s \in Socket
    PROVE  Cardinality(S \union {s}) <= MaxConnections
<1>1. IsFiniteSet(S)
  BY SocketsFinite
<1>2. /\ Cardinality(S) \in Nat
      /\ \/ Cardinality(S \union {s}) = Cardinality(S)
         \/ Cardinality(S \union {s}) = Cardinality(S) + 1
  BY <1>1, FS_AddElement, FS_CardinalityType
<1> QED
  BY <1>2, ChannelAssumption

(* What a step that publishes, fans out and sends nothing keeps.           *)
LEMMA QuietSockets ==
    ASSUME ChannelInv, Shaped',
           UNCHANGED <<published, queue, drain, got, due>>,
           \A s \in Socket : srv'[s] = srv[s] \/ srv'[s] \in {"closing", "gone"}
    PROVE  ChannelInv'
<1>1. QueueRuns' /\ DrainRuns'
  BY DEF ChannelInv, QueueRuns, DrainRuns, Taken
<1>2. ASSUME NEW s \in Socket PROVE GotRuns(s)' /\ Lacks(s)'
  BY <1>2 DEF ChannelInv, GotRuns, Lacks, MissingOf, Taken, Items
<1>3. Cardinality(Registered') <= MaxConnections
  <2>1. Registered' \subseteq Registered /\ Registered \subseteq Socket
    BY DEF Registered
  <2> QED
    BY <2>1, FewRegistered DEF ChannelInv
<1> QED
  BY <1>1, <1>2, <1>3 DEF ChannelInv

(* The pages' own steps, and the ends of sockets.                          *)
LEMMA PageShaped ==
    ASSUME Shaped, NEW s \in Socket,
           \/ Watchdog \/ Open(s) \/ Heartbeat(s) \/ Closed(s) \/ Break(s)
           \/ Closes(s) \/ Leaves(s)
    PROVE  /\ Shaped'
           /\ UNCHANGED <<published, queue, drain, got, due>>
           /\ \A t \in Socket : srv'[t] = srv[t] \/ srv'[t] \in {"closing", "gone"}
<1> USE DEF Shaped
<1>1. page \in Page
  OBVIOUS
<1>2. Disconnected(page) \in Page /\ Watched(page) \in Page
  BY <1>1 DEF Disconnected, Watched, Page
<1>3. [page EXCEPT !.status = "Live"] \in Page
  BY <1>1 DEF Page
<1>4. CASE Watchdog
  <2>1. cli' \in [Socket -> {"none", "connecting", "open", "closing"}]
        /\ link' \in [Socket -> BOOLEAN]
    BY <1>4 DEF Watchdog
  <2>2. faults' \in Nat
    BY <1>4 DEF Watchdog
  <2> QED
    BY <1>2, <1>4, <2>1, <2>2 DEF Watchdog
<1>5. CASE Open(s)
  BY <1>3, <1>5 DEF Open
<1>6. CASE Heartbeat(s)
  BY <1>2, <1>6 DEF Heartbeat
<1>7. CASE Closed(s)
  BY <1>2, <1>7 DEF Closed
<1>8. CASE Break(s)
  BY <1>8 DEF Break
<1>9. CASE Closes(s)
  BY <1>9 DEF Closes
<1>10. CASE Leaves(s)
  BY <1>10 DEF Leaves
<1> QED
  BY <1>4, <1>5, <1>6, <1>7, <1>8, <1>9, <1>10

(* Publishing puts one event behind those in the queue.                    *)
LEMMA PublishKeeps ==
    ASSUME ChannelInv, Publish
    PROVE  ChannelInv'
<1>1. Shaped' /\ Len(queue') = Len(queue) + 1 /\ published' = published + 1
      /\ queue' = Append(queue, published + 1)
  <2>1. published + 1 \in Nat
    BY DEF ChannelInv, Shaped
  <2>2. queue' \in Seq(Nat) /\ Len(queue') = Len(queue) + 1
    BY <2>1, AppendProperties DEF ChannelInv, Shaped, Publish
  <2> QED
    BY <2>1, <2>2, ChannelAssumption, LenProperties DEF ChannelInv, Shaped, Publish
<1>2. Taken' = Taken /\ Taken \in Nat
  BY <1>1 DEF ChannelInv, Shaped, QueueRuns, Taken
<1>3. QueueRuns'
  <2>1. ASSUME NEW i \in 1..Len(queue') PROVE queue'[i] = Taken + i
    <3>1. CASE i = Len(queue) + 1
      <4>1. queue'[i] = published + 1
        BY <1>1, <3>1, AppendProperties DEF ChannelInv, Shaped
      <4> QED
        BY <1>1, <3>1, <4>1 DEF Taken, ChannelInv, Shaped
    <3>2. CASE i # Len(queue) + 1
      <4>1. i \in 1..Len(queue)
        BY <1>1, <2>1, <3>2 DEF ChannelInv, Shaped
      <4>2. queue'[i] = queue[i]
        BY <1>1, <4>1, AppendProperties DEF ChannelInv, Shaped
      <4> QED
        BY <4>1, <4>2 DEF ChannelInv, QueueRuns
    <3> QED
      BY <3>1, <3>2
  <2>2. drain' = drain
    BY DEF Publish
  <2>3. Len(queue') <= published'
    BY <1>1 DEF ChannelInv, Shaped, QueueRuns
  <2> QED
    BY <1>2, <2>1, <2>2, <2>3 DEF ChannelInv, QueueRuns
<1>4. UNCHANGED <<drain, srv, got, due>>
  BY DEF Publish
<1> QED
  BY <1>1, <1>2, <1>3, <1>4 DEF ChannelInv, DrainRuns, GotRuns, Lacks, MissingOf,
     Items, Registered

(* The task takes the oldest event out of the queue.                       *)
LEMMA FetchKeeps ==
    ASSUME ChannelInv, Fetch
    PROVE  ChannelInv'
<1>1. /\ Len(queue) \in Nat \ {0} /\ published \in Nat
      /\ queue' \in Seq(Nat) /\ Len(queue') = Len(queue) - 1
      /\ \A i \in 1..Len(queue') : queue'[i] = queue[i + 1]
      /\ published' = published
      /\ Head(queue) = queue[1] /\ Head(queue) \in Nat
  <2>1. queue \in Seq(Nat) /\ queue # << >> /\ queue' = Tail(queue)
    BY DEF ChannelInv, Shaped, Fetch
  <2>2. Len(queue) \in Nat \ {0}
    BY <2>1, EmptySeq, LenProperties
  <2> QED
    BY <2>1, <2>2, HeadTailProperties, ElementOfSeq DEF ChannelInv, Shaped, Fetch
<1>2. Taken' = Taken + 1 /\ Taken \in Nat /\ queue[1] = Taken + 1
  BY <1>1 DEF ChannelInv, QueueRuns, Taken
<1>3. /\ drain.at = "idle" /\ drain.pending = {} /\ drain.failed = {}
      /\ drain'.at = "held" /\ drain'.event = Taken'
      /\ drain'.pending = {} /\ drain'.failed = {}
      /\ drain' \in Drain
  <2>1. Resting = [at |-> "idle", event |-> 0, pending |-> {}, failed |-> {}]
    BY DEF Resting
  <2>2. drain' = [at |-> "held", event |-> Head(queue), pending |-> {}, failed |-> {}]
    BY <2>1 DEF Fetch
  <2>3. drain.at = "idle" /\ drain.pending = {} /\ drain.failed = {}
    BY DEF Fetch, ChannelInv, DrainRuns
  <2>4. Head(queue) = Taken'
    BY <1>1, <1>2
  <2>5. drain' \in Drain
    BY <1>1, <2>2 DEF Drain
  <2> QED
    BY <2>2, <2>3, <2>4, <2>5
<1>4. UNCHANGED <<srv, got, due, cli, link, page, faults>>
  BY DEF Fetch
<1>5. Shaped'
  <2>1. Len(queue') <= QueueMax
    BY <1>1, ChannelAssumption DEF ChannelInv, Shaped
  <2> QED
    BY <1>1, <1>3, <1>4, <2>1 DEF ChannelInv, Shaped
<1>6. QueueRuns'
  <2>1. ASSUME NEW i \in 1..Len(queue') PROVE queue'[i] = Taken' + i
    <3>1. i + 1 \in 1..Len(queue) /\ i \in Nat
      BY <1>1, <2>1
    <3>2. queue'[i] = Taken + (i + 1)
      BY <1>1, <2>1, <3>1 DEF ChannelInv, QueueRuns
    <3> QED
      BY <1>2, <3>1, <3>2
  <2>2. Len(queue') <= published'
    BY <1>1 DEF ChannelInv, QueueRuns
  <2> QED
    BY <1>3, <2>1, <2>2 DEF QueueRuns
<1>7. ASSUME NEW s \in Socket PROVE GotRuns(s)' /\ Lacks(s)'
  <2>1. \A i \in DOMAIN got[s] : got[s][i] \in Nat /\ got[s][i] <= Taken
    BY <1>7, ElementOfSeq DEF ChannelInv, GotRuns, Shaped
  <2>2. \A i \in DOMAIN got[s] : got[s][i] <= Taken' /\ got[s][i] < Taken'
    BY <1>2, <2>1
  <2>3. GotRuns(s)'
    BY <1>3, <1>4, <1>7, <2>2 DEF ChannelInv, GotRuns
  <2>4. Lacks(s)'
    BY <1>3, <1>4, <1>7 DEF ChannelInv, Lacks, MissingOf, Items
  <2> QED
    BY <2>3, <2>4
<1> QED
  BY <1>3, <1>4, <1>5, <1>6, <1>7 DEF ChannelInv, DrainRuns, Registered

(* Whoever is sent the event had everything fanned out before.             *)
LEMMA FanOutKeeps ==
    ASSUME ChannelInv, FanOut
    PROVE  ChannelInv'
<1> DEFINE to == IF drain.event \in Own THEN {} ELSE Registered
<1>1. /\ drain.at = "held" /\ drain.pending = {} /\ drain.failed = {}
      /\ drain \in Drain /\ to \subseteq Registered /\ Registered \subseteq Socket
      /\ UNCHANGED <<published, queue, srv, cli, link, got, page, faults>>
      /\ due' = [s \in Socket |-> IF s \in to THEN due[s] \union {drain.event}
                                  ELSE due[s]]
  BY DEF FanOut, ChannelInv, Shaped, DrainRuns, Registered
<1>2. /\ drain' \in Drain
      /\ drain'.pending = to /\ drain'.failed = {}
      /\ to # {} => drain'.at = "sending" /\ drain'.event = drain.event
      /\ to = {} => drain'.at = "idle"
  <2>1. CASE to = {}
    BY <2>1 DEF FanOut, Resting, Drain
  <2>2. CASE to # {}
    <3>1. drain' = [drain EXCEPT !.at = "sending", !.pending = to]
      BY <2>2 DEF FanOut
    <3> HIDE DEF to
    <3> QED
      BY <1>1, <2>2, <3>1 DEF Drain
  <2> QED
    BY <2>1, <2>2
<1>3. \A s \in to : srv[s] = "registered"
  BY DEF Registered
<1>4. drain.event \in Nat
  BY <1>1 DEF Drain
<1> HIDE DEF to
<1>5. Shaped'
  BY <1>1, <1>2, <1>4 DEF ChannelInv, Shaped
<1>6. QueueRuns' /\ Taken' = Taken
  BY <1>1, <1>2 DEF ChannelInv, QueueRuns, Taken, Drain
<1>7. DrainRuns'
  BY <1>1, <1>2, <1>3 DEF ChannelInv, DrainRuns, Drain
<1>8. ASSUME NEW s \in Socket PROVE GotRuns(s)' /\ Lacks(s)'
  <2>1. GotRuns(s)'
    BY <1>1, <1>2, <1>6, <1>8 DEF ChannelInv, GotRuns
  <2>2. CASE s \in to
    <3>1. \A i \in DOMAIN got[s] : got[s][i] # drain.event
      BY <1>1, <1>4, <1>8, ElementOfSeq DEF ChannelInv, GotRuns, Shaped
    <3>2. due[s] \ Items(got[s]) = {}
      BY <1>1, <1>3, <1>8, <2>2 DEF ChannelInv, Lacks, MissingOf
    <3>3. due'[s] = due[s] \union {drain.event} /\ drain'.event = drain.event
          /\ got'[s] = got[s]
      BY <1>1, <1>2, <1>8, <2>2
    <3>4. MissingOf(s)' = {drain'.event}
      BY <3>1, <3>2, <3>3 DEF MissingOf, Items
    <3> QED
      BY <1>2, <2>1, <2>2, <3>4 DEF Lacks
  <2>3. CASE s \notin to
    <3>1. due'[s] = due[s] /\ got'[s] = got[s] /\ srv'[s] = srv[s]
      BY <1>1, <1>8, <2>3
    <3> QED
      BY <1>1, <1>2, <1>8, <2>1, <2>3, <3>1 DEF ChannelInv, Lacks, MissingOf, Items
  <2> QED
    BY <2>2, <2>3
<1>9. Registered' = Registered
  BY <1>1 DEF Registered
<1> QED
  BY <1>5, <1>6, <1>7, <1>8, <1>9 DEF ChannelInv

(* A send writes the event the task holds.                                 *)
LEMMA SendKeeps ==
    ASSUME ChannelInv, NEW s \in Socket, Send(s)
    PROVE  ChannelInv'
<1> DEFINE e == drain.event
<1>1. /\ s \in drain.pending /\ drain.at = "sending" /\ s \notin drain.failed
      /\ drain \in Drain /\ e \in Nat /\ e = Taken
      /\ UNCHANGED <<published, queue, srv, cli, link, due, page, faults>>
      /\ srv[s] = "registered"
      /\ got[s] \in Seq(Nat)
  BY DEF Send, ChannelInv, Shaped, DrainRuns, QueueRuns, Drain
<1>2. /\ drain' \in Drain /\ drain'.at = "sending" /\ drain'.event = e
      /\ drain'.pending = drain.pending \ {s} /\ drain'.failed = drain.failed
  BY <1>1 DEF Send, Drain
<1>3. /\ got' \in [Socket -> Seq(Nat)]
      /\ \A t \in Socket : t # s => got'[t] = got[t]
      /\ got'[s] = Append(got[s], e)
      /\ DOMAIN got'[s] = DOMAIN got[s] \union {Len(got[s]) + 1}
      /\ DOMAIN got[s] = 1..Len(got[s]) /\ Len(got[s]) \in Nat
      /\ got'[s][Len(got[s]) + 1] = e
      /\ \A i \in DOMAIN got[s] : got'[s][i] = got[s][i]
  <2>1. Append(got[s], e) \in Seq(Nat)
    BY <1>1, AppendProperties
  <2>2. got' = [got EXCEPT ![s] = Append(got[s], e)]
    BY DEF Send
  <2>3. got \in [Socket -> Seq(Nat)]
    BY DEF ChannelInv, Shaped
  <2>4. Len(got[s]) \in Nat /\ DOMAIN got[s] = 1..Len(got[s])
    BY <1>1, LenProperties
  <2>5. DOMAIN Append(got[s], e) = 1..(Len(got[s]) + 1)
    BY <1>1, <2>1, AppendProperties, LenProperties
  <2>6. 1..(Len(got[s]) + 1) = 1..Len(got[s]) \union {Len(got[s]) + 1}
    BY <2>4
  <2>7. /\ Append(got[s], e)[Len(got[s]) + 1] = e
        /\ \A i \in 1..Len(got[s]) : Append(got[s], e)[i] = got[s][i]
    BY <1>1, AppendProperties
  <2> HIDE DEF e
  <2> QED
    BY <2>1, <2>2, <2>3, <2>4, <2>5, <2>6, <2>7
<1>4. \A i \in DOMAIN got[s] : got[s][i] < e
  BY <1>1 DEF ChannelInv, GotRuns
<1> HIDE DEF e
<1>5. Shaped'
  BY <1>1, <1>2, <1>3 DEF ChannelInv, Shaped
<1>6. QueueRuns' /\ Taken' = Taken
  BY <1>1, <1>2 DEF ChannelInv, QueueRuns, Taken, e
<1>7. DrainRuns'
  BY <1>1, <1>2 DEF ChannelInv, DrainRuns
<1>8. ASSUME NEW t \in Socket PROVE GotRuns(t)' /\ Lacks(t)'
  <2>1. CASE t = s
    <3>1. \A i \in DOMAIN got'[s] : got'[s][i] <= Taken'
      <4>1. \A i \in DOMAIN got[s] : got[s][i] <= Taken
        BY DEF ChannelInv, GotRuns
      <4> QED
        BY <1>1, <1>3, <1>6, <4>1
    <3>2. \A i, j \in DOMAIN got'[s] : i < j => got'[s][i] < got'[s][j]
      <4> SUFFICES ASSUME NEW i \in DOMAIN got'[s], NEW j \in DOMAIN got'[s], i < j
                   PROVE  got'[s][i] < got'[s][j]
        OBVIOUS
      <4>1. i \in 1..Len(got[s]) \union {Len(got[s]) + 1}
            /\ j \in 1..Len(got[s]) \union {Len(got[s]) + 1}
        BY <1>3
      <4>2. i \in DOMAIN got[s]
        BY <1>3, <4>1
      <4>3. CASE j = Len(got[s]) + 1
        BY <1>3, <1>4, <4>2, <4>3
      <4>4. CASE j \in DOMAIN got[s]
        BY <1>3, <4>2, <4>4 DEF ChannelInv, GotRuns
      <4> QED
        BY <1>3, <4>1, <4>3, <4>4
    <3>3. ~(drain'.at = "held" \/ s \in drain'.pending)
      BY <1>2
    <3>4. Items(got'[s]) = Items(got[s]) \union {e}
      BY <1>3 DEF Items
    <3>5. due[s] \ Items(got[s]) = {e}
      BY <1>1 DEF ChannelInv, Lacks, MissingOf, e
    <3>6. due'[s] \ Items(got'[s]) = {}
      BY <1>1, <3>4, <3>5
    <3>7. GotRuns(s)'
      BY <3>1, <3>2, <3>3 DEF GotRuns
    <3>8. Lacks(s)'
      BY <3>3, <3>6 DEF Lacks, MissingOf
    <3> QED
      BY <2>1, <3>7, <3>8
  <2>2. CASE t # s
    <3>1. /\ got'[t] = got[t] /\ due'[t] = due[t] /\ srv'[t] = srv[t]
          /\ t \in drain'.pending <=> t \in drain.pending
      BY <1>1, <1>2, <1>3, <2>2
    <3>2. GotRuns(t) /\ Lacks(t)
      BY DEF ChannelInv
    <3>3. GotRuns(t)'
      BY <1>1, <1>2, <1>6, <3>1, <3>2 DEF GotRuns, e
    <3>4. Lacks(t)'
      BY <1>1, <1>2, <3>1, <3>2 DEF Lacks, MissingOf, Items, e
    <3> QED
      BY <3>3, <3>4
  <2> QED
    BY <2>1, <2>2
<1>9. Registered' = Registered
  BY <1>1 DEF Registered
<1> QED
  BY <1>5, <1>6, <1>7, <1>8, <1>9 DEF ChannelInv

(* A failed send leaves the socket to be dropped.                          *)
LEMMA SendFailsKeeps ==
    ASSUME ChannelInv, NEW s \in Socket, SendFails(s)
    PROVE  ChannelInv'
<1>1. /\ s \in drain.pending /\ drain.at = "sending"
      /\ drain \in Drain /\ drain.event = Taken
      /\ UNCHANGED <<published, queue, srv, cli, link, got, due, page>>
      /\ faults' \in Nat
  BY DEF SendFails, ChannelInv, Shaped, DrainRuns, QueueRuns, Drain
<1>2. /\ drain' \in Drain /\ drain'.at = "sending" /\ drain'.event = drain.event
      /\ drain'.pending = drain.pending \ {s}
      /\ drain'.failed = drain.failed \union {s}
  BY <1>1 DEF SendFails, Drain
<1>3. Shaped'
  BY <1>1, <1>2 DEF ChannelInv, Shaped
<1>4. QueueRuns' /\ Taken' = Taken
  BY <1>1, <1>2 DEF ChannelInv, QueueRuns, Taken
<1>5. DrainRuns'
  BY <1>1, <1>2 DEF ChannelInv, DrainRuns
<1>6. ASSUME NEW t \in Socket PROVE GotRuns(t)' /\ Lacks(t)'
  <2>1. GotRuns(t) /\ Lacks(t)
    BY DEF ChannelInv
  <2>2. GotRuns(t)'
    BY <1>1, <1>2, <1>4, <2>1 DEF GotRuns
  <2>3. Lacks(t)'
    BY <1>1, <1>2, <2>1 DEF Lacks, MissingOf, Items
  <2> QED
    BY <2>2, <2>3
<1>7. Registered' = Registered
  BY <1>1 DEF Registered
<1> QED
  BY <1>3, <1>4, <1>5, <1>6, <1>7 DEF ChannelInv

(* Who missed the event is no longer registered when the next is fetched.  *)
LEMMA FanOutEndsKeeps ==
    ASSUME ChannelInv, FanOutEnds
    PROVE  ChannelInv'
<1>1. /\ drain.pending = {}
      /\ UNCHANGED <<published, queue, cli, link, got, due, page, faults>>
      /\ drain' = Resting
      /\ srv' \in [Socket -> {"none", "accepted", "registered", "closing", "gone"}]
      /\ \A s \in Socket : srv'[s] = IF s \in drain.failed /\ srv[s] = "registered"
                                     THEN "closing" ELSE srv[s]
  BY DEF FanOutEnds, ChannelInv, Shaped
<1>2. /\ drain' \in Drain /\ drain'.at = "idle"
      /\ drain'.pending = {} /\ drain'.failed = {}
  BY <1>1 DEF Resting, Drain
<1>3. Shaped'
  BY <1>1, <1>2 DEF ChannelInv, Shaped
<1>4. QueueRuns' /\ Taken' = Taken
  BY <1>1, <1>2 DEF ChannelInv, QueueRuns, Taken
<1>5. DrainRuns'
  BY <1>1, <1>2 DEF ChannelInv, DrainRuns
<1>6. ASSUME NEW t \in Socket PROVE GotRuns(t)' /\ Lacks(t)'
  <2>1. GotRuns(t) /\ Lacks(t)
    BY DEF ChannelInv
  <2>2. GotRuns(t)'
    BY <1>1, <1>2, <1>4, <2>1 DEF GotRuns
  <2>3. srv'[t] = "registered" => srv[t] = "registered" /\ t \notin drain.failed
    BY <1>1
  <2>4. Lacks(t)'
    BY <1>1, <1>2, <2>1, <2>3 DEF Lacks, MissingOf, Items
  <2> QED
    BY <2>2, <2>4
<1>7. Cardinality(Registered') <= MaxConnections
  <2>1. Registered' \subseteq Registered /\ Registered \subseteq Socket
    BY <1>1 DEF Registered
  <2> QED
    BY <2>1, FewRegistered DEF ChannelInv
<1> QED
  BY <1>3, <1>4, <1>5, <1>6, <1>7 DEF ChannelInv

(* A socket that is only accepted is owed nothing yet.                     *)
LEMMA AcceptKeeps ==
    ASSUME ChannelInv, NEW s \in Socket, Accept(s)
    PROVE  ChannelInv'
<1>1. /\ UNCHANGED <<published, queue, drain, cli, link, got, due, page, faults>>
      /\ srv[s] = "none" /\ srv' = [srv EXCEPT ![s] = "accepted"]
  BY DEF Accept
<1>2. Shaped'
  BY <1>1 DEF ChannelInv, Shaped
<1>3. QueueRuns' /\ Taken' = Taken /\ Registered' = Registered
  BY <1>1 DEF ChannelInv, Shaped, QueueRuns, Taken, Registered
<1>4. DrainRuns'
  BY <1>1 DEF ChannelInv, Shaped, DrainRuns
<1>5. ASSUME NEW t \in Socket PROVE GotRuns(t)' /\ Lacks(t)'
  <2>1. srv'[t] = "registered" => srv[t] = "registered"
    BY <1>1 DEF ChannelInv, Shaped
  <2> QED
    BY <1>1, <1>3, <2>1 DEF ChannelInv, GotRuns, Lacks, MissingOf, Items
<1> QED
  BY <1>2, <1>3, <1>4, <1>5 DEF ChannelInv

(* A socket starts to be owed events when it is registered.                *)
LEMMA RegisterKeeps ==
    ASSUME ChannelInv, NEW s \in Socket, Register(s)
    PROVE  ChannelInv'
<1>1. /\ srv[s] = "accepted" /\ due[s] = {} /\ s \notin drain.pending
      /\ UNCHANGED <<published, queue, drain, cli, link, got, due, page, faults>>
      /\ srv' \in [Socket -> {"none", "accepted", "registered", "closing", "gone"}]
      /\ \A t \in Socket \ {s} : srv'[t] = srv[t]
      /\ srv'[s] \in {"registered", "closing"}
      /\ srv'[s] = "registered" => ~(Cardinality(Registered) >= MaxConnections)
  BY DEF Register, ChannelInv, Shaped, DrainRuns
<1>2. Shaped'
  BY <1>1 DEF ChannelInv, Shaped
<1>3. QueueRuns' /\ DrainRuns' /\ Taken' = Taken
  BY <1>1 DEF ChannelInv, QueueRuns, DrainRuns, Taken
<1>4. ASSUME NEW t \in Socket PROVE GotRuns(t)' /\ Lacks(t)'
  <2>1. GotRuns(t) /\ Lacks(t)
    BY DEF ChannelInv
  <2>2. GotRuns(t)'
    BY <1>1, <1>3, <2>1 DEF GotRuns
  <2>3. Lacks(t)'
    BY <1>1, <2>1 DEF Lacks, MissingOf, Items
  <2> QED
    BY <2>2, <2>3
<1>5. Cardinality(Registered') <= MaxConnections
  <2>0. Registered \subseteq Socket
    BY DEF Registered
  <2>1. CASE srv'[s] = "registered"
    <3>1. Registered' = Registered \union {s}
      BY <1>1, <2>1 DEF Registered
    <3>2. Cardinality(Registered) < MaxConnections
      <4>1. Cardinality(Registered) \in Nat
        BY <2>0, SocketsFinite
      <4> QED
        BY <1>1, <2>1, <4>1, ChannelAssumption
    <3> QED
      BY <2>0, <3>1, <3>2, OneMoreRegistered
  <2>2. CASE srv'[s] # "registered"
    <3>1. Registered' \subseteq Registered
      BY <1>1, <2>2 DEF Registered
    <3> QED
      BY <2>0, <3>1, FewRegistered DEF ChannelInv
  <2> QED
    BY <2>1, <2>2
<1> QED
  BY <1>2, <1>3, <1>4, <1>5 DEF ChannelInv

(* The page connects on a socket number that is free.                      *)
LEMMA ConnectKeeps ==
    ASSUME ChannelInv, NEW s \in Socket, Connect(s)
    PROVE  ChannelInv'
<1>1. /\ s \notin drain.pending /\ s \notin drain.failed
      /\ UNCHANGED <<published, queue, drain, faults>>
      /\ srv' = [srv EXCEPT ![s] = "none"]
      /\ got' = [got EXCEPT ![s] = << >>]
      /\ due' = [due EXCEPT ![s] = {}]
      /\ cli' = [cli EXCEPT ![s] = "connecting"]
      /\ link' = [link EXCEPT ![s] = TRUE]
      /\ page' = [page EXCEPT !.status = "Connecting", !.ws = s,
                              !.watchdog = TRUE, !.reconnect = FALSE]
  BY DEF Connect
<1>2. Shaped'
  <2>1. << >> \in Seq(Nat)
    OBVIOUS
  <2>2. page' \in Page
    BY <1>1 DEF ChannelInv, Shaped, Page
  <2> QED
    BY <1>1, <2>1, <2>2 DEF ChannelInv, Shaped
<1>3. /\ \A t \in Socket \ {s} : srv'[t] = srv[t] /\ got'[t] = got[t] /\ due'[t] = due[t]
      /\ srv'[s] = "none" /\ got'[s] = << >> /\ due'[s] = {}
  BY <1>1 DEF ChannelInv, Shaped
<1>4. QueueRuns' /\ DrainRuns' /\ Taken' = Taken
  BY <1>1, <1>3 DEF ChannelInv, QueueRuns, DrainRuns, Taken
<1>5. ASSUME NEW t \in Socket PROVE GotRuns(t)' /\ Lacks(t)'
  <2>1. CASE t = s
    <3>1. DOMAIN got'[t] = {}
      BY <1>3, <2>1
    <3> QED
      BY <1>3, <2>1, <3>1 DEF GotRuns, Lacks
  <2>2. CASE t # s
    <3>1. GotRuns(t) /\ Lacks(t)
      BY DEF ChannelInv
    <3>2. GotRuns(t)'
      BY <1>1, <1>3, <1>4, <2>2, <3>1 DEF GotRuns
    <3>3. Lacks(t)'
      BY <1>1, <1>3, <2>2, <3>1 DEF Lacks, MissingOf, Items
    <3> QED
      BY <3>2, <3>3
  <2> QED
    BY <2>1, <2>2
<1>6. Cardinality(Registered') <= MaxConnections
  <2>1. Registered' \subseteq Registered /\ Registered \subseteq Socket
    BY <1>3 DEF Registered
  <2> QED
    BY <2>1, FewRegistered DEF ChannelInv
<1> QED
  BY <1>2, <1>4, <1>5, <1>6 DEF ChannelInv
-----------------------------------------------------------------------------
(* At the start nothing was published and the page is to connect.          *)
LEMMA InitChannel == Init => ChannelInv
<1> SUFFICES ASSUME Init PROVE ChannelInv
  OBVIOUS
<1>1. Shaped
  BY ChannelAssumption DEF Init, Shaped, Drain, Page, Resting, NewPage, NoSocket
<1>2. QueueRuns /\ DrainRuns
  BY DEF Init, QueueRuns, DrainRuns, Taken, Resting
<1>3. \A s \in Socket : GotRuns(s) /\ Lacks(s)
  BY DEF Init, GotRuns, Lacks, Resting
<1>4. Registered = {}
  BY DEF Init, Registered
<1>5. Cardinality(Registered) <= MaxConnections
  BY <1>4, FS_EmptySet, ChannelAssumption
<1> QED
  BY <1>1, <1>2, <1>3, <1>5 DEF ChannelInv

(* Every step keeps the invariant.                                         *)
LEMMA StepChannel == ChannelInv /\ [Next]_vars => ChannelInv'
<1> SUFFICES ASSUME ChannelInv, [Next]_vars PROVE ChannelInv'
  OBVIOUS
<1>1. CASE UNCHANGED vars
  <2>1. Shaped'
    BY <1>1 DEF vars, ChannelInv, Shaped
  <2> QED
    BY <1>1, <2>1, QuietSockets DEF vars
<1>2. ASSUME NEW s \in Socket,
             \/ Watchdog \/ Open(s) \/ Heartbeat(s) \/ Closed(s) \/ Break(s)
             \/ Closes(s) \/ Leaves(s)
      PROVE  ChannelInv'
  BY <1>2, PageShaped, QuietSockets DEF ChannelInv
<1>3. 1 \in Socket
  BY ChannelAssumption DEF Socket
<1>4. CASE Next
  BY <1>2, <1>3, <1>4, PublishKeeps, FetchKeeps, FanOutKeeps, SendKeeps,
     SendFailsKeeps, FanOutEndsKeeps, AcceptKeeps, RegisterKeeps, ConnectKeeps
     DEF Next, DrainStep, Reconnect, EndpointStep
<1> QED
  BY <1>1, <1>4

(* A socket that stays registered gets each event fanned out to it once,   *)
(* and in the order in which they were published: what it lacks is at most *)
(* the event whose send is under way.                                      *)
THEOREM MissesNothing == Spec => []GetsAllInOrder
<1>1. ChannelInv => GetsAllInOrder
  <2> SUFFICES ASSUME ChannelInv PROVE GetsAllInOrder
    OBVIOUS
  <2>1. TypeOK
    BY DEF ChannelInv, Shaped, TypeOK, Drain, Page
  <2>2. \A s \in Socket : GotRuns(s) /\ Lacks(s)
    BY DEF ChannelInv
  <2> QED
    BY <2>1, <2>2 DEF GetsAllInOrder, GotRuns, Lacks, MissingOf, Registered
<1> QED
  BY <1>1, InitChannel, StepChannel, PTL DEF Spec

(* Whatever sockets open, close late or die, and whoever closes them, the  *)
(* watchdog or the timer of the next attempt is running.                   *)
THEOREM AlwaysRetries == Spec => []TimerRuns
<1>1. Init => TimerRuns
  BY DEF Init, NewPage, TimerRuns
<1>2. ChannelInv /\ TimerRuns /\ [Next]_vars => TimerRuns'
  <2> SUFFICES ASSUME page \in Page, TimerRuns, [Next]_vars PROVE TimerRuns'
    BY DEF ChannelInv, Shaped
  <2> USE DEF Page, TimerRuns
  <2>1. ASSUME NEW s \in Socket, Connect(s) PROVE TimerRuns'
    BY <2>1 DEF Connect
  <2>2. ASSUME NEW s \in Socket, Open(s) \/ Heartbeat(s) \/ Closed(s)
        PROVE  TimerRuns'
    BY <2>2 DEF Open, Heartbeat, Closed, Watched, Disconnected
  <2>3. CASE Watchdog
    BY <2>3 DEF Watchdog, Disconnected
  <2>4. CASE UNCHANGED page
    BY <2>4
  <2>5. ASSUME NEW s \in Socket, EndpointStep(s) \/ Break(s) PROVE UNCHANGED page
    BY <2>5 DEF EndpointStep, Accept, Register, Closes, Leaves, Break
  <2>6. CASE Publish \/ DrainStep
    BY <2>4, <2>6 DEF Publish, DrainStep, Fetch, FanOut, FanOutEnds, Send, SendFails
  <2> QED
    BY <2>1, <2>2, <2>3, <2>4, <2>5, <2>6 DEF Next, Reconnect, vars
<1> QED
  BY <1>1, <1>2, InitChannel, StepChannel, PTL DEF Spec
-----------------------------------------------------------------------------
(* What each thread holds.                                                 *)
Thread == [pc    : {"idle", "asking", "listed", "found", "opening", "missing",
                    "evicting", "saved", "dropped", "synced"},
           dir   : Dir \union {NoDir},
           date  : Date \union {Idle.date},
           gen   : Generations \union {0},
           names : SUBSET Date]

(* An index of generation 0 is none; a date found on disk is one that the  *)
(* index it was missed in may show, if that is still the one cached.       *)
IndexInv ==
    /\ config \in Dir \union {NoDir}
    /\ disk \subseteq Dir \X Key
    /\ index \in [gen : Generations \union {0}, ok : BOOLEAN,
                  names : SUBSET Date, aged : BOOLEAN]
    /\ client \in [Client -> Thread]
    /\ index.names \subseteq since
    /\ index.gen # 0 => OnDisk(disk) \subseteq since
    /\ \A c \in Client :
         /\ client[c].pc = "asking" => client[c].gen = 0
         /\ client[c].pc = "found" =>
               /\ client[c].date \in Date
               /\ index.gen # 0 /\ index.gen = client[c].gen =>
                     client[c].date \in since

(* While a thread asks and holds no index, a generation is left for the    *)
(* next: there is one more than there are threads.                         *)
LEMMA GenerationIsNew ==
    ASSUME IndexInv, NEW x \in Client, client[x].gen = 0
    PROVE  /\ NewGeneration \in Generations
           /\ NewGeneration # 0
           /\ \A c \in Client : client[c].gen # NewGeneration
<1>1. \E g \in Generations :
         g # index.gen /\ \A c \in Client : client[c].gen # g
  <2> SUFFICES ASSUME \A g \in Generations \ {index.gen} :
                         \E c \in Client : client[c].gen = g
               PROVE  FALSE
    OBVIOUS
  <2> DEFINE h == [g \in Generations |->
                     IF g = index.gen THEN x
                     ELSE CHOOSE c \in Client : client[c].gen = g]
  <2>1. h \in [Generations -> Client]
    OBVIOUS
  <2>2. \A g \in Generations \ {index.gen} : client[h[g]].gen = g
    OBVIOUS
  <2>3. h[index.gen] = x \/ index.gen \notin Generations
    OBVIOUS
  <2>4. /\ IsFiniteSet(Generations) /\ IsFiniteSet(Client)
        /\ Cardinality(Client) < Cardinality(Generations)
    <3>1. Cardinality(Client) \in Nat /\ IsFiniteSet(Client)
      BY FoldersAssumption, FS_CardinalityType
    <3>2. 1 \in Int /\ Cardinality(Client) + 1 \in Int
      BY <3>1
    <3>3. /\ IsFiniteSet(1..(Cardinality(Client) + 1))
          /\ Cardinality(1..(Cardinality(Client) + 1)) =
               IF 1 > Cardinality(Client) + 1 THEN 0
               ELSE (Cardinality(Client) + 1) - 1 + 1
      BY <3>2, FS_Interval
    <3> QED
      BY <3>1, <3>3 DEF Generations
  <2> HIDE DEF h
  <2>5. PICK f, g \in Generations : f # g /\ h[f] = h[g]
    BY <2>1, <2>4, FS_PigeonHole
  <2>6. 0 \notin Generations
    BY DEF Generations
  <2> QED
    BY <2>2, <2>3, <2>5, <2>6
<1>2. 0 \notin Generations
  BY DEF Generations
<1> QED
  BY <1>1, <1>2 DEF NewGeneration

(* What a step on the lists of dates does to the thread that takes it.     *)
LEMMA SetThread ==
    ASSUME IndexInv, NEW c \in Client, NEW me, Set(c, me), me \in Thread,
           UNCHANGED <<index, since>>,
           config' \in Dir \union {NoDir}, disk' = disk,
           me.pc = "asking" => me.gen = 0,
           me.pc = "found" =>
               /\ me.date \in Date
               /\ index.gen # 0 /\ index.gen = me.gen => me.date \in since
    PROVE  IndexInv'
  BY DEF IndexInv, Set, OnDisk

(* What a thread is that has just begun something.                         *)
LEMMA IdleThread ==
    /\ Idle \in Thread
    /\ \A pc \in {"idle", "asking", "opening", "saved", "dropped", "synced"},
          d \in Dir \union {NoDir}, f \in Date :
          [Idle EXCEPT !.pc = pc, !.dir = d, !.date = f] \in Thread
    /\ \A pc \in {"idle", "asking", "opening", "saved", "dropped", "synced"} :
          /\ [Idle EXCEPT !.pc = pc] \in Thread
          /\ [Idle EXCEPT !.pc = pc].pc = pc
<1>1. Idle \in Thread
  <2>1. {} \in SUBSET Date /\ 0 \in Generations \union {0}
    OBVIOUS
  <2>2. Idle = [pc |-> "idle", dir |-> NoDir, date |-> Idle.date,
                     gen |-> 0, names |-> {}]
    BY DEF Idle
  <2> QED
    BY <2>1, <2>2 DEF Thread
<1>2. ASSUME NEW I \in Thread,
             NEW pc \in {"idle", "asking", "opening", "saved", "dropped", "synced"},
             NEW d \in Dir \union {NoDir}, NEW f \in Date
      PROVE  [I EXCEPT !.pc = pc, !.dir = d, !.date = f] \in Thread
  BY <1>2 DEF Thread
<1>3. ASSUME NEW I \in Thread,
             NEW pc \in {"idle", "asking", "opening", "saved", "dropped", "synced"}
      PROVE  [I EXCEPT !.pc = pc] \in Thread /\ [I EXCEPT !.pc = pc].pc = pc
  BY <1>3 DEF Thread
<1> QED
  BY <1>1, <1>2, <1>3

(* Steps of the directory itself.                                          *)
LEMMA DiskKeeps ==
    ASSUME IndexInv, NEW d \in Dir, NEW k \in Key,
           Appear(d, k) \/ Vanish(d, k)
    PROVE  IndexInv'
<1>1. k[1] \in Date
  BY DEF Key
<1>2. CASE Appear(d, k)
  <2>1. /\ UNCHANGED <<config, index, client>>
        /\ disk' = disk \union {<<d, k>>} /\ since' = since \union {k[1]}
    BY <1>2 DEF Appear
  <2>2. OnDisk(disk') \subseteq OnDisk(disk) \union {k[1]}
    <3> SUFFICES ASSUME NEW f \in Date, NEW e \in Dir, <<e, <<f, Root>>>> \in disk'
                 PROVE  f \in OnDisk(disk) \union {k[1]}
      BY DEF OnDisk
    <3>1. CASE <<e, <<f, Root>>>> \in disk
      BY <3>1 DEF OnDisk
    <3>2. CASE <<e, <<f, Root>>>> = <<d, k>>
      BY <3>2
    <3> QED
      BY <2>1, <3>1, <3>2
  <2>3. disk' \subseteq Dir \X Key
    BY <2>1 DEF IndexInv
  <2>4. \A c \in Client : client'[c] = client[c]
    BY <2>1
  <2> QED
    BY <2>1, <2>2, <2>3 DEF IndexInv
<1>3. CASE Vanish(d, k)
  <2>1. /\ UNCHANGED <<config, index, since, client>> /\ disk' \subseteq disk
    BY <1>3 DEF Vanish
  <2>2. OnDisk(disk') \subseteq OnDisk(disk)
    BY <2>1 DEF OnDisk
  <2> QED
    BY <2>1, <2>2 DEF IndexInv
<1> QED
  BY <1>2, <1>3

(* A scan shows what it finds, under a generation that no late answer has. *)
LEMMA ScanKeeps ==
    ASSUME IndexInv, NEW x \in Client, NEW readable \in BOOLEAN,
           ResolveByScan(x, readable)
    PROVE  IndexInv'
<1>1. /\ client[x].pc = "asking" /\ client[x].gen = 0
      /\ client[x] \in Thread /\ client[x].dir \in Dir
      /\ UNCHANGED <<config, disk>>
      /\ since' = OnDisk(disk)
      /\ index' = [gen |-> NewGeneration, ok |-> readable, aged |-> FALSE,
                   names |-> IF readable THEN DatesIn(client[x].dir) ELSE {}]
      /\ Listed(x, index')
  BY DEF ResolveByScan, IndexInv, Thread
<1>2. /\ NewGeneration \in Generations
      /\ \A c \in Client : client[c].gen # NewGeneration
  BY <1>1, GenerationIsNew
<1>3. /\ DatesIn(client[x].dir) \subseteq OnDisk(disk)
      /\ OnDisk(disk) \subseteq Date
  BY <1>1 DEF DatesIn, OnDisk
<1>4. /\ index' \in [gen : Generations \union {0}, ok : BOOLEAN,
                     names : SUBSET Date, aged : BOOLEAN]
      /\ index'.gen = NewGeneration /\ index'.names \subseteq since'
  BY <1>1, <1>2, <1>3
<1>5. \E me \in Thread : /\ client' = [client EXCEPT ![x] = me]
                         /\ me.pc \in {"listed", "idle"}
  <2>1. CASE index'.ok
    <3>1. client' = [client EXCEPT ![x] = [client[x] EXCEPT !.pc = "listed",
                       !.gen = index'.gen, !.names = index'.names]]
      BY <1>1, <2>1 DEF Listed, Set
    <3>2. [client[x] EXCEPT !.pc = "listed", !.gen = index'.gen,
                            !.names = index'.names] \in Thread
      BY <1>1, <1>4 DEF Thread
    <3>3. [client[x] EXCEPT !.pc = "listed", !.gen = index'.gen,
                            !.names = index'.names].pc = "listed"
      BY <1>1 DEF Thread
    <3> QED
      BY <3>1, <3>2, <3>3
  <2>2. CASE ~index'.ok
    BY <1>1, <2>2, IdleThread DEF Listed, Set, Idle
  <2> QED
    BY <2>1, <2>2
<1>6. /\ client' \in [Client -> Thread]
      /\ client'[x].pc \in {"listed", "idle"}
      /\ \A c \in Client \ {x} : client'[c] = client[c]
  BY <1>5 DEF IndexInv
<1> QED
  BY <1>1, <1>2, <1>4, <1>6 DEF IndexInv

(* Merge and Evict: what is merged was seen on disk since the scan.        *)
LEMMA UpdateKeeps ==
    ASSUME IndexInv, NEW c \in Client, Merge(c) \/ Evict(c)
    PROVE  IndexInv'
<1>1. /\ UNCHANGED <<config, disk, since>>
      /\ client' = [client EXCEPT ![c] = Idle]
  BY DEF Merge, Evict, Set
<1>2. \A d \in Client : /\ client'[d] \in Thread
                        /\ client'[d] = client[d] \/ client'[d].pc = "idle"
  BY <1>1, IdleThread DEF IndexInv, Idle
<1>3. PICK names \in SUBSET Date :
         /\ index' = Updated(client[c].gen, names)
         /\ index.gen # 0 /\ index.gen = client[c].gen => names \subseteq since
  <2>1. index.names \in SUBSET Date
    BY DEF IndexInv
  <2>2. CASE Merge(c)
    BY <2>1, <2>2 DEF Merge, IndexInv
  <2>3. CASE Evict(c)
    BY <2>1, <2>3 DEF Evict, IndexInv
  <2> QED
    BY <2>2, <2>3
<1>4. /\ index' \in [gen : Generations \union {0}, ok : BOOLEAN,
                     names : SUBSET Date, aged : BOOLEAN]
      /\ index'.gen = index.gen
      /\ index'.names \subseteq since
  <2>1. CASE index' = index
    BY <2>1 DEF IndexInv
  <2>2. CASE index' = [index EXCEPT !.names = names] /\ names \subseteq since
    BY <2>2 DEF IndexInv
  <2> QED
    BY <1>3, <2>1, <2>2 DEF Updated
<1>5. client' \in [Client -> Thread]
  BY <1>1, IdleThread DEF IndexInv
<1> QED
  BY <1>1, <1>2, <1>4, <1>5 DEF IndexInv, OnDisk

(* The other steps of the threads.                                         *)
LEMMA ThreadKeeps ==
    ASSUME IndexInv, NEW c \in Client,
           \/ \E f \in Date : \/ AskDates(c, f) \/ AskOpen(c, f)
                             \/ SyncEnds(c, f)
           \/ \E d \in Dir : SaveDir(c, d)
           \/ ResolveUnconfigured(c) \/ ResolveCached(c) \/ Probe(c)
           \/ LookFor(c) \/ ReadGeneration(c) \/ DropFiles(c)
    PROVE  IndexInv'
<1>0. client[c] \in Thread /\ config \in Dir \union {NoDir}
      /\ index.gen \in Generations \union {0} /\ index.names \in SUBSET Date
  BY DEF IndexInv
<1>1. ASSUME NEW f \in Date, AskDates(c, f) PROVE IndexInv'
  <2> DEFINE me == [Idle EXCEPT !.pc = "asking", !.dir = config, !.date = f]
  <2>1. me \in Thread /\ me.gen = 0 /\ me.pc = "asking"
    BY <1>0, IdleThread DEF Idle
  <2>2. Set(c, me) /\ UNCHANGED <<config, disk, index, since>>
    BY <1>1 DEF AskDates
  <2> HIDE DEF me
  <2> QED
    BY <1>0, <2>1, <2>2, SetThread
<1>2. ASSUME NEW f \in Date, AskOpen(c, f) PROVE IndexInv'
  <2> DEFINE me == [Idle EXCEPT !.pc = "opening", !.dir = config, !.date = f]
  <2>1. me \in Thread /\ me.pc = "opening"
    BY <1>0, IdleThread DEF Idle
  <2>2. Set(c, me) /\ UNCHANGED <<config, disk, index, since>>
    BY <1>2 DEF AskOpen
  <2> HIDE DEF me
  <2> QED
    BY <1>0, <2>1, <2>2, SetThread
<1>3. ASSUME NEW pc \in {"saved", "synced", "idle"},
             Set(c, [Idle EXCEPT !.pc = pc]),
             UNCHANGED <<disk, index, since>>,
             config' \in Dir \union {NoDir}
      PROVE  IndexInv'
  <2> DEFINE me == [Idle EXCEPT !.pc = pc]
  <2>1. me \in Thread /\ me.pc = pc
    BY <1>3, IdleThread
  <2> HIDE DEF me
  <2> QED
    BY <1>3, <2>1, SetThread DEF me
<1>4. Idle = [Idle EXCEPT !.pc = "idle"]
  BY DEF Idle
<1>5. ASSUME NEW d \in Dir, SaveDir(c, d) PROVE IndexInv'
  BY <1>3, <1>5 DEF SaveDir
<1>6. ASSUME NEW f \in Date, SyncEnds(c, f) PROVE IndexInv'
  BY <1>0, <1>3, <1>6 DEF SyncEnds
<1>7. CASE ResolveUnconfigured(c) \/ DropFiles(c)
  <2>1. /\ Set(c, [Idle EXCEPT !.pc = "idle"])
        /\ UNCHANGED <<config, disk, index, since>>
    BY <1>4, <1>7 DEF ResolveUnconfigured, DropFiles
  <2> QED
    BY <1>0, <1>3, <2>1
<1>8. CASE ResolveCached(c)
  <2> DEFINE me == [client[c] EXCEPT !.pc = "listed", !.gen = index.gen,
                                     !.names = index.names]
  <2>1. me \in Thread /\ me.pc = "listed"
    BY <1>0 DEF Thread
  <2>2. UNCHANGED <<config, disk, index, since>>
    BY <1>8 DEF ResolveCached
  <2>3. Set(c, me) \/ Set(c, [Idle EXCEPT !.pc = "idle"])
    BY <1>4, <1>8 DEF ResolveCached, Listed
  <2> HIDE DEF me
  <2>4. CASE Set(c, me)
    BY <1>0, <2>1, <2>2, <2>4, SetThread
  <2> QED
    BY <1>0, <1>3, <2>2, <2>3, <2>4
<1>9. CASE Probe(c)
  <2> DEFINE me == [client[c] EXCEPT !.pc = "found"]
  <2>1. me \in Thread /\ me.pc = "found" /\ me.date = client[c].date
        /\ me.gen = client[c].gen
    BY <1>0 DEF Thread
  <2>2. UNCHANGED <<config, disk, index, since>>
    BY <1>9 DEF Probe
  <2>3. CASE client[c].date \in DatesIn(config) /\ Set(c, me)
    <3>1. client[c].date \in OnDisk(disk) /\ client[c].date \in Date
      <4>1. \A e \in disk : e[1] \in Dir
        BY DEF IndexInv
      <4> QED
        BY <2>3, <4>1 DEF DatesIn, OnDisk
    <3>2. index.gen # 0 => me.date \in since
      BY <2>1, <3>1 DEF IndexInv
    <3> HIDE DEF me
    <3> QED
      BY <1>0, <2>1, <2>2, <2>3, <3>1, <3>2, SetThread
  <2>4. CASE Set(c, Idle)
    BY <1>0, <1>3, <1>4, <2>2, <2>4
  <2> QED
    BY <1>9, <2>3, <2>4 DEF Probe
<1>10. CASE LookFor(c)
  <2> DEFINE me == [client[c] EXCEPT !.pc = "missing"]
  <2>1. me \in Thread /\ me.pc = "missing"
    BY <1>0 DEF Thread
  <2>2. UNCHANGED <<config, disk, index, since>>
    BY <1>10 DEF LookFor
  <2>3. Set(c, me) \/ Set(c, Idle)
    BY <1>10 DEF LookFor
  <2> HIDE DEF me
  <2>4. CASE Set(c, me)
    BY <1>0, <2>1, <2>2, <2>4, SetThread
  <2> QED
    BY <1>0, <1>3, <1>4, <2>2, <2>3, <2>4
<1>11. CASE ReadGeneration(c)
  <2> DEFINE me == [client[c] EXCEPT !.pc = "evicting", !.gen = index.gen]
  <2>1. me \in Thread /\ me.pc = "evicting"
    BY <1>0 DEF Thread
  <2>2. Set(c, me) /\ UNCHANGED <<config, disk, index, since>>
    BY <1>11 DEF ReadGeneration
  <2> HIDE DEF me
  <2> QED
    BY <1>0, <2>1, <2>2, SetThread
<1> QED
  BY <1>1, <1>2, <1>5, <1>6, <1>7, <1>8, <1>9, <1>10, <1>11

(* Dropping the index drops its generation too.                            *)
LEMMA DropKeeps ==
    ASSUME IndexInv, NEW c \in Client, DropIndex(c)
    PROVE  IndexInv'
<1>1. /\ index' = NoIndex /\ since' = {} /\ UNCHANGED <<config, disk>>
      /\ \E me \in Thread : /\ client' = [client EXCEPT ![c] = me]
                            /\ me.pc \in {"dropped", "idle"}
  <2>1. [Idle EXCEPT !.pc = "dropped"] \in Thread /\ Idle \in Thread
        /\ [Idle EXCEPT !.pc = "dropped"].pc = "dropped"
    BY IdleThread
  <2>2. Idle.pc = "idle"
    BY DEF Idle
  <2> QED
    BY <2>1, <2>2 DEF DropIndex, Set
<1>2. /\ client' \in [Client -> Thread]
      /\ \A d \in Client : client'[d].pc \in {"dropped", "idle"} \/ client'[d] = client[d]
  BY <1>1 DEF IndexInv
<1>3. /\ NoIndex.gen = 0 /\ NoIndex.names = {}
      /\ NoIndex \in [gen : Generations \union {0}, ok : BOOLEAN,
                       names : SUBSET Date, aged : BOOLEAN]
  BY DEF NoIndex
<1> QED
  BY <1>1, <1>2, <1>3 DEF IndexInv

(* At the start there is no index and nothing to be seen.                  *)
LEMMA InitIndex == FoldersInit => IndexInv
<1> SUFFICES ASSUME FoldersInit PROVE IndexInv
  OBVIOUS
<1>1. /\ NoIndex.gen = 0 /\ NoIndex.names = {}
      /\ Idle.pc = "idle"
      /\ NoIndex \in [gen : Generations \union {0}, ok : BOOLEAN,
                       names : SUBSET Date, aged : BOOLEAN]
  BY DEF NoIndex, Idle
<1> QED
  BY <1>1, IdleThread DEF FoldersInit, IndexInv

(* Every step keeps what is known of the index of dates.                   *)
LEMMA StepIndex ==
    ASSUME IndexInv, [FoldersNext]_foldersVars
    PROVE  IndexInv'
<1>1. CASE UNCHANGED <<config, disk, index, since, client>>
  BY <1>1 DEF IndexInv, OnDisk
<1>2. CASE AgeIndex
  <2>1. /\ UNCHANGED <<config, disk, since, client>>
        /\ index' \in [gen : Generations \union {0}, ok : BOOLEAN,
                        names : SUBSET Date, aged : BOOLEAN]
        /\ index'.gen = index.gen /\ index'.names = index.names
    BY <1>2 DEF AgeIndex, IndexInv
  <2> QED
    BY <2>1 DEF IndexInv, OnDisk
<1>3. ASSUME NEW k \in Key,
             \/ DropKey(k)
             \/ \E fresh \in SUBSET {k, <<k[1], Root>>} : ListFiles(k, fresh)
      PROVE  IndexInv'
  BY <1>1, <1>3 DEF DropKey, ListFiles
<1>4. CASE FoldersNext
  BY <1>2, <1>3, <1>4, DiskKeeps, ScanKeeps, UpdateKeeps, ThreadKeeps, DropKeeps
     DEF FoldersNext, Continue
<1> QED
  BY <1>1, <1>4 DEF foldersVars

-----------------------------------------------------------------------------
(* A cache of file indexes: one for a folder, each of a directory in D.    *)
FileRecord == [key : Key, dir : Dir \union {NoDir}, subs : SUBSET Sub]

IsCache(q, D) ==
    /\ q \in Seq(FileRecord)
    /\ \A i \in DOMAIN q : q[i].dir \in D
    /\ \A i, j \in DOMAIN q : q[i].key = q[j].key => i = j

(* Entries of a cache, each taken once, are a cache.                       *)
LEMMA PartIsCache ==
    ASSUME NEW D, NEW q, IsCache(q, D), NEW r \in Seq(FileRecord),
           NEW p \in [DOMAIN r -> DOMAIN q],
           \A i \in DOMAIN r : r[i] = q[p[i]],
           \A i, j \in DOMAIN r : p[i] = p[j] => i = j
    PROVE  IsCache(r, D)
<1>1. \A i \in DOMAIN r : r[i].dir \in D
  BY DEF IsCache
<1>2. \A i, j \in DOMAIN r : r[i].key = r[j].key => i = j
  BY DEF IsCache
<1> QED
  BY <1>1, <1>2 DEF IsCache

(* Without one folder's entry the rest is a cache that lacks the folder.   *)
LEMMA OthersCache ==
    ASSUME NEW D, NEW q, IsCache(q, D), NEW k
    PROVE  /\ IsCache(Others(q, k), D)
           /\ \A i \in DOMAIN Others(q, k) : Others(q, k)[i].key # k
<1>0. /\ q \in Seq(FileRecord) /\ Len(q) \in Nat /\ DOMAIN q = 1..Len(q)
      /\ \A j \in 1..Len(q) : q[j] \in FileRecord
  BY LenProperties, ElementOfSeq DEF IsCache
<1>1. CASE \A i \in DOMAIN q : q[i].key # k
  BY <1>1 DEF Others
<1>2. CASE \E i \in DOMAIN q : q[i].key = k
  <2> DEFINE i == CHOOSE i \in DOMAIN q : q[i].key = k
             a == SubSeq(q, 1, i - 1)
             b == SubSeq(q, i + 1, Len(q))
             r == a \o b
  <2>1. i \in 1..Len(q) /\ q[i].key = k
    BY <1>0, <1>2
  <2>2. Others(q, k) = r
    BY <1>2 DEF Others
  <2> HIDE DEF i
  <2>3. /\ a \in Seq(FileRecord) /\ Len(a) = i - 1
        /\ \A j \in 1..(i - 1) : a[j] = q[j]
    <3>1. i - 1 \in Int /\ 1 \in Int /\ \A j \in 1..(i - 1) : q[j] \in FileRecord
      BY <1>0, <2>1
    <3> QED
      BY <1>0, <2>1, <3>1, SubSeqProperties
  <2>4. /\ b \in Seq(FileRecord) /\ Len(b) = Len(q) - i
        /\ \A j \in 1..Len(q) - i : b[j] = q[j + i]
    <3>1. \A j \in i + 1..Len(q) : q[j] \in FileRecord
      BY <1>0, <2>1
    <3>2. i + 1 \in Int /\ Len(q) \in Int /\ i \in Int
      BY <1>0, <2>1
    <3>3. \A j \in 1..Len(q) - (i + 1) + 1 : b[j] = q[i + 1 + j - 1]
      BY <3>1, <3>2, SubSeqProperties
    <3>4. Len(b) = Len(q) - i
      <4>1. Len(b) = IF i + 1 <= Len(q) THEN Len(q) - (i + 1) + 1 ELSE 0
        BY <3>1, <3>2, SubSeqProperties
      <4>2. i <= Len(q)
        BY <2>1, <3>2
      <4> QED
        BY <3>2, <4>1, <4>2
    <3>5. b \in Seq(FileRecord)
      BY <3>1, <3>2, SubSeqProperties
    <3>6. ASSUME NEW j \in 1..Len(q) - i
          PROVE  b[j] = q[j + i]
      <4>1. j \in 1..Len(q) - (i + 1) + 1 /\ i + 1 + j - 1 = j + i
        BY <3>2
      <4> QED
        BY <3>3, <4>1
    <3> QED
      BY <3>4, <3>5, <3>6
  <2> HIDE DEF a, b
  <2>5. /\ r \in Seq(FileRecord) /\ DOMAIN r = 1..(Len(q) - 1)
        /\ \A j \in 1..Len(q) - 1 : r[j] = q[IF j < i THEN j ELSE j + 1]
    <3>1. /\ r \in Seq(FileRecord) /\ Len(r) = Len(a) + Len(b)
          /\ \A j \in 1..Len(a) + Len(b) :
               r[j] = IF j <= Len(a) THEN a[j] ELSE b[j - Len(a)]
      BY <2>3, <2>4, ConcatProperties
    <3> HIDE DEF r
    <3>2. Len(a) + Len(b) = Len(q) - 1
      BY <1>0, <2>1, <2>3, <2>4
    <3>3. ASSUME NEW j \in 1..Len(q) - 1
          PROVE  r[j] = q[IF j < i THEN j ELSE j + 1]
      <4>1. CASE j < i
        BY <1>0, <2>1, <2>3, <3>1, <3>2, <4>1
      <4>2. CASE ~(j < i)
        <5>1. j - (i - 1) \in 1..Len(q) - i /\ j - (i - 1) + i = j + 1
          BY <1>0, <2>1, <4>2
        <5>2. r[j] = b[j - (i - 1)]
          BY <1>0, <2>1, <2>3, <3>1, <3>2, <4>2
        <5> QED
          BY <2>4, <4>2, <5>1, <5>2
      <4> QED
        BY <4>1, <4>2
    <3>4. DOMAIN r = 1..(Len(q) - 1)
      BY <3>1, <3>2, LenProperties
    <3> QED
      BY <3>1, <3>3, <3>4
  <2> DEFINE p == [j \in 1..(Len(q) - 1) |-> IF j < i THEN j ELSE j + 1]
  <2>6. /\ p \in [1..(Len(q) - 1) -> 1..Len(q)]
        /\ \A j \in 1..(Len(q) - 1) : p[j] # i
        /\ \A j, l \in 1..(Len(q) - 1) : p[j] = p[l] => j = l
    BY <1>0, <2>1
  <2>7. \A j \in 1..(Len(q) - 1) : r[j] = q[p[j]]
    BY <2>5
  <2> HIDE DEF p, r
  <2>8. IsCache(r, D)
    <3>1. p \in [DOMAIN r -> DOMAIN q]
      BY <1>0, <2>5, <2>6
    <3>2. \A j \in DOMAIN r : r[j] = q[p[j]]
      BY <2>5, <2>7
    <3>3. \A j, l \in DOMAIN r : p[j] = p[l] => j = l
      BY <2>5, <2>6
    <3>4. r \in Seq(FileRecord)
      BY <2>5
    <3>5. IsCache(q, D)
      OBVIOUS
    <3> QED
      BY <3>1, <3>2, <3>3, <3>4, <3>5, PartIsCache
  <2>9. \A j \in DOMAIN r : r[j].key # k
    BY <1>0, <2>1, <2>5, <2>6, <2>7 DEF IsCache
  <2> QED
    BY <2>2, <2>8, <2>9
<1> QED
  BY <1>1, <1>2

(* An entry of a folder takes the place of the one it had.                 *)
LEMMA KeepCache ==
    ASSUME NEW D, NEW q, IsCache(q, D), NEW e \in FileRecord, e.dir \in D
    PROVE  IsCache(Keep(q, e), D)
<1> DEFINE o == Others(q, e.key)
           r == Append(o, e)
<1>1. /\ o \in Seq(FileRecord) /\ Len(o) \in Nat /\ DOMAIN o = 1..Len(o)
      /\ IsCache(o, D) /\ \A i \in DOMAIN o : o[i].key # e.key
  BY OthersCache, LenProperties DEF IsCache
<1> HIDE DEF o
<1>2. /\ r \in Seq(FileRecord) /\ Len(r) = Len(o) + 1
      /\ r[Len(o) + 1] = e /\ \A i \in 1..Len(o) : r[i] = o[i]
  BY <1>1, AppendProperties
<1>3. DOMAIN r = DOMAIN o \union {Len(o) + 1} /\ Len(o) + 1 \notin DOMAIN o
  <2>1. DOMAIN r = 1..(Len(o) + 1)
    BY <1>2, LenProperties
  <2>2. 1..(Len(o) + 1) = 1..Len(o) \union {Len(o) + 1} /\ Len(o) + 1 \notin 1..Len(o)
    BY <1>1
  <2> QED
    BY <1>1, <2>1, <2>2
<1> HIDE DEF r
<1>4. \A i \in DOMAIN r : r[i].dir \in D
  BY <1>1, <1>2, <1>3 DEF IsCache
<1>5. \A i, j \in DOMAIN r : r[i].key = r[j].key => i = j
  BY <1>1, <1>2, <1>3 DEF IsCache
<1> QED
  BY <1>2, <1>4, <1>5 DEF IsCache, Keep, o, r

(* The least recently used goes.                                           *)
LEMMA KeepWithinCache ==
    ASSUME NEW D, NEW q, IsCache(q, D), NEW e \in FileRecord, e.dir \in D
    PROVE  IsCache(KeepWithin(q, e), D)
<1> DEFINE r == Keep(q, e)
<1>1. IsCache(r, D)
  BY KeepCache
<1> HIDE DEF r
<1>2. CASE Len(r) > MaxKeys
  <2>1. /\ r \in Seq(FileRecord) /\ Len(r) \in Nat \ {0} /\ DOMAIN r = 1..Len(r)
    BY <1>1, <1>2, FoldersAssumption, LenProperties DEF IsCache
  <2>2. r # << >>
    BY <2>1, EmptySeq
  <2>3. /\ Tail(r) \in Seq(FileRecord) /\ Len(Tail(r)) = Len(r) - 1
        /\ \A i \in 1..(Len(r) - 1) : Tail(r)[i] = r[i + 1]
    BY <2>1, <2>2, HeadTailProperties
  <2> DEFINE t == Tail(r)
             p == [i \in 1..(Len(r) - 1) |-> i + 1]
  <2>4. DOMAIN t = 1..(Len(r) - 1)
    BY <2>3, LenProperties
  <2>5. /\ p \in [1..(Len(r) - 1) -> 1..Len(r)]
        /\ \A i, j \in 1..(Len(r) - 1) : p[i] = p[j] => i = j
        /\ \A i \in 1..(Len(r) - 1) : p[i] = i + 1
    BY <2>1
  <2>6. t \in Seq(FileRecord) /\ \A i \in 1..(Len(r) - 1) : t[i] = r[p[i]]
    BY <2>3, <2>5
  <2> HIDE DEF t, p
  <2>7. IsCache(t, D)
    <3>1. p \in [DOMAIN t -> DOMAIN r]
      BY <2>1, <2>4, <2>5
    <3>2. \A i \in DOMAIN t : t[i] = r[p[i]]
      BY <2>4, <2>6
    <3>3. \A i, j \in DOMAIN t : p[i] = p[j] => i = j
      BY <2>4, <2>5
    <3> QED
      BY <1>1, <2>6, <3>1, <3>2, <3>3, PartIsCache
  <2> QED
    BY <1>2, <2>7 DEF KeepWithin, r, t
<1>3. CASE ~(Len(r) > MaxKeys)
  BY <1>1, <1>3 DEF KeepWithin, r
<1> QED
  BY <1>2, <1>3

(* A scan makes an entry of the configured directory.                      *)
LEMMA EntryTyped ==
    ASSUME config \in Dir \union {NoDir}, NEW k \in Key
    PROVE  Entry(k) \in FileRecord /\ Entry(k).dir = config
  BY DEF Entry, FileIndex, FileRecord

(* An entry that is used again is one of the cache.                        *)
LEMMA ReusedCache ==
    ASSUME NEW D, NEW q, IsCache(q, D), NEW k, NEW fresh,
           Cached(q, k, fresh) # {}
    PROVE  IsCache(Reused(q, k, fresh), D)
<1> DEFINE i == CHOOSE i \in Cached(q, k, fresh) : TRUE
<1>1. i \in DOMAIN q
  BY DEF Cached
<1> HIDE DEF i
<1>2. q[i] \in FileRecord /\ q[i].dir \in D
  BY <1>1, ElementOfSeq, LenProperties DEF IsCache
<1> QED
  BY <1>2, KeepCache DEF Reused, i

(* Resolving a folder leaves a cache, with entries of the configured       *)
(* directory added.                                                        *)
LEMMA ListedCache ==
    ASSUME NEW D, config \in D, config \in Dir \union {NoDir}, IsCache(files, D),
           NEW k \in Key, NEW fresh, ListFiles(k, fresh)
    PROVE  IsCache(files', D)
<1>1. ASSUME NEW f \in Date PROVE IsCache(AfterRoot(files, f, fresh), D)
  <2>1. <<f, Root>> \in Key
    BY DEF Key
  <2> QED
    BY <2>1, ReusedCache, KeepWithinCache, EntryTyped DEF AfterRoot
<1>2. k[1] \in Date
  BY DEF Key
<1>3. IsCache(AfterSub(files, k, fresh), D)
  <2> DEFINE root == AfterRoot(files, k[1], fresh)
  <2>1. IsCache(root, D)
    BY <1>1, <1>2
  <2>2. Entry(k) \in FileRecord /\ Entry(k).dir \in D
    BY EntryTyped
  <2> HIDE DEF root
  <2>3. /\ IsCache(KeepWithin(files, Entry(k)), D)
        /\ IsCache(KeepWithin(root, Entry(k)), D)
        /\ IsCache(Keep(root, Entry(k)), D)
        /\ Cached(files, k, fresh) # {} =>
              IsCache(Reused(files, k, fresh), D)
    BY <2>1, <2>2, KeepCache, KeepWithinCache, ReusedCache
  <2> QED
    BY <2>3 DEF AfterSub, root
<1> QED
  BY <1>1, <1>2, <1>3 DEF ListFiles

(* Dropping a date's entries leaves a cache.                               *)
LEMMA SyncedCache ==
    ASSUME NEW D, IsCache(files, D), NEW c \in Client, NEW f, SyncEnds(c, f)
    PROVE  IsCache(files', D)
<1> DEFINE places == {i \in DOMAIN files : files[i].key[1] # f}
           n      == Cardinality(places)
<1>1. PICK p \in InOrder(places) : files' = [i \in DOMAIN p |-> files[p[i]]]
  BY DEF SyncEnds
<1>2. files \in Seq(FileRecord) /\ DOMAIN files = 1..Len(files) /\ Len(files) \in Nat
      /\ \A i \in DOMAIN files : files[i] \in FileRecord
  BY LenProperties, ElementOfSeq DEF IsCache
<1>3. n \in Nat
  <2>1. 1 \in Int /\ Len(files) \in Int
    BY <1>2
  <2>2. IsFiniteSet(DOMAIN files)
    BY <1>2, <2>1, FS_Interval
  <2>3. places \in SUBSET DOMAIN files
    OBVIOUS
  <2> HIDE DEF places
  <2> QED
    BY <2>2, <2>3, FS_Subset, FS_CardinalityType
<1>4. p \in [1..n -> places] /\ \A i, j \in 1..n : i < j => p[i] < p[j]
  BY DEF InOrder
<1>5. places \subseteq DOMAIN files
  OBVIOUS
<1> HIDE DEF places, n
<1>6. /\ DOMAIN files' = 1..n
      /\ files' = [i \in 1..n |-> files[p[i]]]
      /\ \A i \in 1..n : p[i] \in DOMAIN files /\ files[p[i]] \in FileRecord
  BY <1>1, <1>2, <1>4, <1>5
<1>7. files' \in Seq(FileRecord)
  <2>1. [i \in 1..n |-> files[p[i]]] \in [1..n -> FileRecord]
    BY <1>6
  <2>2. [i \in 1..n |-> files[p[i]]] \in Seq(FileRecord)
    BY <1>3, <2>1
  <2> QED
    BY <1>6, <2>2
<1>8. \A i, j \in 1..n : p[i] = p[j] => i = j
  <2> SUFFICES ASSUME NEW i \in 1..n, NEW j \in 1..n, p[i] = p[j] PROVE i = j
    OBVIOUS
  <2>1. p[i] \in Nat /\ p[j] \in Nat
    BY <1>2, <1>6
  <2>2. ~(i < j) /\ ~(j < i)
    BY <1>4, <2>1
  <2> QED
    BY <1>3, <2>2
<1>9. p \in [DOMAIN files' -> DOMAIN files]
  BY <1>4, <1>5, <1>6
<1>10. \A i \in DOMAIN files' : files'[i] = files[p[i]]
  BY <1>6
<1> QED
  BY <1>6, <1>7, <1>8, <1>9, <1>10, PartIsCache

(* A change of the directory that has not been answered.                   *)
Changing == \E c \in Client : client[c].pc \in {"saved", "dropped"}

(* The file indexes are a cache, and of the configured directory unless a  *)
(* change is under way.                                                    *)
FilesInv ==
    /\ IndexInv
    /\ IsCache(files, Dir \union {NoDir})
    /\ ~Changing => IsCache(files, {config})

(* A step that does not end a change and leaves directory and files alone. *)
LEMMA FilesAlone ==
    ASSUME FilesInv, IndexInv', UNCHANGED <<config, files>>,
           \A c \in Client : client[c].pc \in {"saved", "dropped"} =>
                             client'[c].pc \in {"saved", "dropped"}
    PROVE  FilesInv'
BY DEF FilesInv, Changing

(* A step of a thread that is not changing the directory.                  *)
LEMMA ThreadAlone ==
    ASSUME FilesInv, IndexInv', NEW c \in Client, NEW me, Set(c, me),
           client[c].pc \notin {"saved", "dropped"}, UNCHANGED <<config, files>>
    PROVE  FilesInv'
<1>1. \A d \in Client : d # c => client'[d] = client[d]
  BY DEF FilesInv, IndexInv, Set
<1> QED
  BY <1>1, FilesAlone

(* A step on the files alone.                                              *)
LEMMA OnlyFiles ==
    ASSUME FilesInv, IndexInv', UNCHANGED config,
           \A D : IsCache(files, D) /\ config \in D => IsCache(files', D),
           \A c \in Client : client[c].pc \in {"saved", "dropped"} =>
                             client'[c].pc \in {"saved", "dropped"}
    PROVE  FilesInv'
<1>1. config \in Dir \union {NoDir} /\ config \in {config}
  BY DEF FilesInv, IndexInv
<1>2. IsCache(files', Dir \union {NoDir})
  BY <1>1 DEF FilesInv
<1>3. ~Changing => IsCache(files', {config})
  BY <1>1 DEF FilesInv
<1>4. Changing => Changing'
  BY DEF Changing
<1> QED
  BY <1>2, <1>3, <1>4 DEF FilesInv

(* Nothing is a cache of any directory.                                    *)
LEMMA EmptyCache == \A D : IsCache(<< >>, D)
BY DEF IsCache

(* At the start nothing is cached.                                         *)
LEMMA InitFiles == FoldersInit => FilesInv
BY InitIndex, EmptyCache DEF FoldersInit, FilesInv

(* Every step keeps what is known of the file indexes.                     *)
LEMMA StepFiles ==
    ASSUME FilesInv, [FoldersNext]_foldersVars
    PROVE  FilesInv'
<1>0. IndexInv /\ IndexInv'
  BY StepIndex DEF FilesInv
<1>1. CASE UNCHANGED foldersVars
  BY <1>0, <1>1, FilesAlone DEF foldersVars
<1>2. ASSUME NEW d \in Dir, NEW k \in Key, Appear(d, k) \/ Vanish(d, k)
      PROVE  FilesInv'
  BY <1>0, <1>2, FilesAlone DEF Appear, Vanish
<1>3. CASE AgeIndex
  BY <1>0, <1>3, FilesAlone DEF AgeIndex
<1>4. ASSUME NEW k \in Key, DropKey(k) PROVE FilesInv'
  <2>1. files' = Others(files, k) /\ UNCHANGED <<config, client>>
    BY <1>4 DEF DropKey
  <2>2. \A D : IsCache(files, D) => IsCache(files', D)
    BY <2>1, OthersCache
  <2> QED
    BY <1>0, <2>1, <2>2, OnlyFiles
<1>5. ASSUME NEW k \in Key, NEW fresh, ListFiles(k, fresh)
      PROVE  FilesInv'
  <2>1. UNCHANGED <<config, client>>
    BY <1>5 DEF ListFiles
  <2>2. \A D : IsCache(files, D) /\ config \in D => IsCache(files', D)
    BY <1>0, <1>5, ListedCache DEF IndexInv
  <2> QED
    BY <1>0, <2>1, <2>2, OnlyFiles
<1>6. ASSUME NEW c \in Client, NEW f \in Date, AskDates(c, f) \/ AskOpen(c, f)
      PROVE  FilesInv'
  BY <1>0, <1>6, ThreadAlone DEF AskDates, AskOpen
<1>7. ASSUME NEW c \in Client, NEW f \in Date, SyncEnds(c, f) PROVE FilesInv'
  <2>1. /\ UNCHANGED config /\ client[c].pc = "idle"
        /\ \A d \in Client : d # c => client'[d] = client[d]
    BY <1>0, <1>7 DEF SyncEnds, Set, IndexInv
  <2>2. \A D : IsCache(files, D) => IsCache(files', D)
    BY <1>7, SyncedCache
  <2> QED
    BY <1>0, <2>1, <2>2, OnlyFiles
<1>8. ASSUME NEW c \in Client, NEW d \in Dir, SaveDir(c, d) PROVE FilesInv'
  <2>1. /\ UNCHANGED files
        /\ client' = [client EXCEPT ![c] = [Idle EXCEPT !.pc = "saved"]]
    BY <1>8 DEF SaveDir, Set
  <2>2. client'[c].pc = "saved"
    BY <1>0, <2>1, IdleThread DEF IndexInv
  <2> QED
    BY <1>0, <2>1, <2>2 DEF FilesInv, Changing
<1>9. ASSUME NEW c \in Client, NEW readable \in BOOLEAN,
             \/ ResolveUnconfigured(c) \/ ResolveCached(c)
             \/ ResolveByScan(c, readable) \/ Probe(c) \/ Merge(c)
             \/ LookFor(c) \/ ReadGeneration(c) \/ Evict(c)
      PROVE  FilesInv'
  <2>1. client[c].pc \notin {"saved", "dropped"} /\ UNCHANGED <<config, files>>
    BY <1>9 DEF ResolveUnconfigured, ResolveCached,
                ResolveByScan, Probe, Merge, LookFor,
                ReadGeneration, Evict
  <2>2. \E me : Set(c, me)
    BY <1>9 DEF ResolveUnconfigured, ResolveCached,
                ResolveByScan, Probe, Merge, LookFor,
                ReadGeneration, Evict, Listed
  <2> QED
    BY <1>0, <2>1, <2>2, ThreadAlone
<1>10. ASSUME NEW c \in Client, DropIndex(c) PROVE FilesInv'
  <2>1. /\ UNCHANGED <<config, files>>
        /\ client' = [client EXCEPT ![c] =
             IF client[c].pc = "saved" THEN [Idle EXCEPT !.pc = "dropped"]
             ELSE Idle]
        /\ client[c].pc \in {"saved", "synced"}
    BY <1>10 DEF DropIndex, Set
  <2>2. /\ client[c].pc = "saved" => client'[c].pc = "dropped"
        /\ \A d \in Client : d # c => client'[d] = client[d]
    BY <1>0, <2>1, IdleThread DEF IndexInv
  <2> QED
    BY <1>0, <2>1, <2>2, FilesAlone
<1>11. ASSUME NEW c \in Client, DropFiles(c) PROVE FilesInv'
  BY <1>0, <1>11, EmptyCache DEF DropFiles, FilesInv
<1>12. CASE FoldersNext
  BY <1>2, <1>3, <1>4, <1>5, <1>6, <1>7, <1>8, <1>9, <1>10, <1>11, <1>12
     DEF FoldersNext, Continue
<1> QED
  BY <1>1, <1>12

(* No list of dates shows one that had gone before the list was made.      *)
THEOREM ListsAreFresh == FoldersSpec => []FreshNames
<1>1. FilesInv => FreshNames
  BY DEF FilesInv, IndexInv, IsCache, Thread, FreshNames, FoldersTypeOK
<1>2. FilesInv /\ [FoldersNext]_foldersVars => FilesInv'
  BY StepFiles
<1> QED
  BY <1>1, <1>2, InitFiles, PTL DEF FoldersSpec

(* Once a change of directory was answered, no file index is of another.   *)
THEOREM FilesFollow == FoldersSpec => []FileIndexFollowsDir
<1>1. FilesInv => FileIndexFollowsDir
  BY DEF FilesInv, Changing, IsCache, FileIndexFollowsDir
<1>2. FilesInv /\ [FoldersNext]_foldersVars => FilesInv'
  BY StepFiles
<1> QED
  BY <1>1, <1>2, InitFiles, PTL DEF FoldersSpec
=============================================================================
