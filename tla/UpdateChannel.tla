---------------------------- MODULE UpdateChannel ----------------------------
(***************************************************************************)
(* The live updates: requests publish events into a bounded queue, a task  *)
(* of the event loop takes them out one by one and sends each to every     *)
(* registered socket, and a page keeps a socket open, watches its          *)
(* heartbeat and reconnects.                                               *)
(*                                                                         *)
(* Events are numbered in the order they enter the queue.  All sockets are *)
(* those of one page, one after the other; it may come to have several     *)
(* open.  Faults are bounded: a link that breaks, a send that only times   *)
(* out, a watchdog that fires although the server is well.                 *)
(***************************************************************************)
EXTENDS Integers, FiniteSets, Sequences

CONSTANTS
    MaxEvent,          \* the events of the instance
    Own,               \* those whose origin is the page itself
    Sockets,           \* how many sockets exist at one time
    QueueMax,          \* ws_publish_queue_max
    MaxConnections,    \* ws_max_connections
    MaxFaults          \* the faults of the instance

Socket == 1..Sockets
NoSocket == 0

ASSUME ChannelAssumption ==
    /\ {MaxEvent, MaxFaults} \subseteq Nat /\ Own \subseteq 1..MaxEvent
    /\ {Sockets, QueueMax, MaxConnections} \subseteq Nat \ {0}

VARIABLES
    published,  \* the last event that entered the queue
    queue,      \* the publish queue
    drain,      \* the task: the event it holds and the sends under way
    srv,        \* the server's end of each socket
    cli,        \* the page's end of each socket
    link,       \* whether what one end sends reaches the other
    got,        \* what was written to each socket, in order
    due,        \* what was fanned out to others since it was registered
    page,       \* status, current socket and the two timers
    faults      \* faults so far

vars == <<published, queue, drain, srv, cli, link, got, due, page, faults>>
-----------------------------------------------------------------------------
Resting == [at |-> "idle", event |-> 0, pending |-> {}, failed |-> {}]

(* A page that is about to connect for the first time.                     *)
NewPage == [status |-> "Connecting", ws |-> NoSocket, watchdog |-> FALSE, reconnect |-> TRUE]

Registered == {s \in Socket : srv[s] = "registered"}

(* A socket on which the page hears, or is about to hear, the server.      *)
Reaches(s) == cli[s] = "open" /\ srv[s] = "registered" /\ link[s]
MayReach(s) == /\ link[s] /\ cli[s] \in {"connecting", "open"}
               /\ srv[s] \in {"none", "accepted", "registered"}

Free(s) == cli[s] = "none" /\ srv[s] \in {"none", "gone"}

Init ==
    /\ published = 0 /\ queue = << >> /\ drain = Resting
    /\ srv = [s \in Socket |-> "none"]
    /\ cli = [s \in Socket |-> "none"]
    /\ link = [s \in Socket |-> FALSE]
    /\ got = [s \in Socket |-> << >>]
    /\ due = [s \in Socket |-> {}]
    /\ page = NewPage
    /\ faults = 0
-----------------------------------------------------------------------------
(* publish: an event that finds the queue full is dropped, which changes   *)
(* nothing but a count for the log.                                        *)
Publish ==
    /\ published < MaxEvent /\ Len(queue) < QueueMax
    /\ published' = published + 1
    /\ queue' = Append(queue, published + 1)
    /\ UNCHANGED <<drain, srv, cli, link, got, due, page, faults>>

(* The thread that waits on the queue hands an event to the loop.          *)
Fetch ==
    /\ drain.at = "idle" /\ queue # << >>
    /\ drain' = [Resting EXCEPT !.at = "held", !.event = Head(queue)]
    /\ queue' = Tail(queue)
    /\ UNCHANGED <<published, srv, cli, link, got, due, page, faults>>

(* fan_out up to its await: a send to each registered socket, except those *)
(* of the page the event came from.                                        *)
FanOut ==
    /\ drain.at = "held"
    /\ LET to == IF drain.event \in Own THEN {} ELSE Registered IN
       /\ drain' = IF to = {} THEN Resting
                   ELSE [drain EXCEPT !.at = "sending", !.pending = to]
       /\ due' = [s \in Socket |-> IF s \in to THEN due[s] \union {drain.event} ELSE due[s]]
    /\ UNCHANGED <<published, queue, srv, cli, link, got, page, faults>>

Send(s) ==
    /\ s \in drain.pending
    /\ srv[s] = "registered"
    /\ got' = [got EXCEPT ![s] = Append(@, drain.event)]
    /\ drain' = [drain EXCEPT !.pending = @ \ {s}]
    /\ UNCHANGED <<published, queue, srv, cli, link, due, page, faults>>

(* The send raises, because the socket is closed or its link is dead, or   *)
(* it only takes too long.                                                 *)
SendFails(s) ==
    /\ s \in drain.pending
    /\ IF srv[s] # "registered" \/ ~link[s] THEN UNCHANGED faults
       ELSE faults < MaxFaults /\ faults' = faults + 1
    /\ drain' = [drain EXCEPT !.pending = @ \ {s}, !.failed = @ \union {s}]
    /\ UNCHANGED <<published, queue, srv, cli, link, got, due, page>>

(* Mutant of FanOutEnds: a failed send is only counted.                    *)
FanOutForgives ==
    /\ drain.at = "sending" /\ drain.pending = {}
    /\ drain' = Resting
    /\ UNCHANGED <<published, queue, srv, cli, link, got, due, page, faults>>

(* All sends are answered: those that failed are deregistered and will be  *)
(* closed.                                                                 *)
FanOutEnds ==
    /\ drain.at = "sending" /\ drain.pending = {}
    /\ srv' = [s \in Socket |-> IF s \in drain.failed /\ srv[s] = "registered"
                                THEN "closing" ELSE srv[s]]
    /\ drain' = Resting
    /\ UNCHANGED <<published, queue, cli, link, got, due, page, faults>>
-----------------------------------------------------------------------------

(* The endpoint accepts the socket, which is answered before it is known.  *)
Accept(s) ==
    /\ cli[s] = "connecting" /\ srv[s] = "none" /\ link[s]
    /\ srv' = [srv EXCEPT ![s] = "accepted"]
    /\ UNCHANGED <<published, queue, drain, cli, link, got, due, page, faults>>

(* It registers the socket, or closes what is above the limit.             *)
Register(s) ==
    /\ srv[s] = "accepted"
    /\ srv' = [srv EXCEPT ![s] =
         IF Cardinality(Registered) >= MaxConnections THEN "closing" ELSE "registered"]
    /\ UNCHANGED <<published, queue, drain, cli, link, got, due, page, faults>>

(* The close of an evicted or refused socket goes out.                     *)
Closes(s) ==
    /\ srv[s] = "closing"
    /\ srv' = [srv EXCEPT ![s] = "gone"]
    /\ UNCHANGED <<published, queue, drain, cli, link, got, due, page, faults>>

(* receive raises: the page closed the socket, or the keepalive of the     *)
(* server found the link dead.                                             *)
Leaves(s) ==
    /\ srv[s] = "registered" /\ (cli[s] = "closing" \/ ~link[s])
    /\ srv' = [srv EXCEPT ![s] = "gone"]
    /\ UNCHANGED <<published, queue, drain, cli, link, got, due, page, faults>>
-----------------------------------------------------------------------------
(* The page after handleDisconnect.                                        *)
Disconnected(p) ==
    [p EXCEPT !.status = "Backoff", !.watchdog = FALSE, !.reconnect = TRUE]

(* Mutant of Connect: only a heartbeat arms the watchdog.                  *)
ConnectUnwatched(s) ==
    /\ page.reconnect
    /\ Free(s) /\ \A t \in Socket : t < s => ~Free(t)
    /\ page' = [page EXCEPT !.status = "Connecting", !.ws = s, !.reconnect = FALSE]
    /\ cli' = [cli EXCEPT ![s] = "connecting"]
    /\ srv' = [srv EXCEPT ![s] = "none"]
    /\ link' = [link EXCEPT ![s] = TRUE]
    /\ got' = [got EXCEPT ![s] = << >>]
    /\ due' = [due EXCEPT ![s] = {}]
    /\ s \notin drain.pending \union drain.failed
    /\ UNCHANGED <<published, queue, drain, faults>>

(* connect, run by the reconnect timer.  A socket number is used again     *)
(* when neither end knows it any more.                                     *)
Connect(s) ==
    /\ page.reconnect
    /\ Free(s) /\ \A t \in Socket : t < s => ~Free(t)
    /\ page' = [page EXCEPT !.status = "Connecting", !.ws = s,
                            !.watchdog = TRUE, !.reconnect = FALSE]
    /\ cli' = [cli EXCEPT ![s] = "connecting"]
    /\ srv' = [srv EXCEPT ![s] = "none"]
    /\ link' = [link EXCEPT ![s] = TRUE]
    /\ got' = [got EXCEPT ![s] = << >>]
    /\ due' = [due EXCEPT ![s] = {}]
    /\ s \notin drain.pending \union drain.failed
    /\ UNCHANGED <<published, queue, drain, faults>>

(* onopen.                                                                 *)
Open(s) ==
    /\ cli[s] = "connecting" /\ srv[s] # "none" /\ link[s]
    /\ cli' = [cli EXCEPT ![s] = "open"]
    /\ page' = [page EXCEPT !.status = "Live"]
    /\ UNCHANGED <<published, queue, drain, srv, link, got, due, faults>>

(* onmessage: a heartbeat arms the watchdog, whichever socket it came on;  *)
(* an event goes to the stores.                                            *)
Watched(p) == [p EXCEPT !.watchdog = TRUE]

Heartbeat(s) ==
    /\ Reaches(s) /\ ~page.watchdog
    /\ page' = Watched(page)
    /\ UNCHANGED <<published, queue, drain, srv, cli, link, got, due, faults>>

(* onclose: the server's close arrives, the closing handshake is over or   *)
(* given up, or the browser finds the link dead.                           *)
Closed(s) ==
    /\ \/ cli[s] \in {"open", "closing"} /\ srv[s] = "gone" /\ link[s]
       \/ cli[s] \in {"connecting", "closing", "open"} /\ ~link[s]
    /\ cli' = [cli EXCEPT ![s] = "none"]
    /\ link' = [link EXCEPT ![s] = FALSE]
    /\ page' = Disconnected(page)
    /\ UNCHANGED <<published, queue, drain, srv, got, due, faults>>

(* Mutant of Watchdog: the rest is left to onclose.                        *)
WatchdogCloses ==
    /\ page.watchdog
    /\ IF \E s \in Socket : MayReach(s)
       THEN faults < MaxFaults /\ faults' = faults + 1
       ELSE UNCHANGED faults
    /\ cli' = IF page.ws # NoSocket /\ cli[page.ws] \in {"connecting", "open"}
              THEN [cli EXCEPT ![page.ws] = "closing"] ELSE cli
    /\ page' = [page EXCEPT !.watchdog = FALSE]
    /\ UNCHANGED <<published, queue, drain, srv, link, got, due>>

(* The watchdog fires: no heartbeat for long enough.  While the server     *)
(* can be heard that takes a fault.  The current socket is closed and the  *)
(* page does not wait for its onclose.                                     *)
Watchdog ==
    /\ page.watchdog
    /\ IF \E s \in Socket : MayReach(s)
       THEN faults < MaxFaults /\ faults' = faults + 1
       ELSE UNCHANGED faults
    /\ cli' = IF cli[page.ws] \in {"connecting", "open"}
              THEN [cli EXCEPT ![page.ws] = "closing"] ELSE cli
    /\ link' = IF cli[page.ws] = "connecting" /\ srv[page.ws] = "none"
               THEN [link EXCEPT ![page.ws] = FALSE] ELSE link
    /\ page' = Disconnected(page)
    /\ UNCHANGED <<published, queue, drain, srv, got, due>>

(* A link breaks; neither end is told.                                     *)
Break(s) ==
    /\ link[s] /\ faults < MaxFaults
    /\ faults' = faults + 1
    /\ link' = [link EXCEPT ![s] = FALSE]
    /\ UNCHANGED <<published, queue, drain, srv, cli, got, due, page>>
-----------------------------------------------------------------------------
DrainStep ==
    \/ Fetch \/ FanOut \/ FanOutEnds
    \/ \E s \in Socket : Send(s) \/ SendFails(s)

EndpointStep(s) == Accept(s) \/ Register(s) \/ Closes(s) \/ Leaves(s)

Reconnect == \E s \in Socket : Connect(s)

Next ==
    \/ Publish \/ DrainStep \/ Reconnect \/ Watchdog
    \/ \E s \in Socket : EndpointStep(s) \/ Open(s) \/ Heartbeat(s) \/ Closed(s) \/ Break(s)

Spec == Init /\ [][Next]_vars

(* The loop and the timers run; the server's keepalive finds dead links,   *)
(* and the browser ends a handshake it began.  That the browser notices a  *)
(* dead link by itself is not assumed: the watchdog is there for that.     *)
Fairness ==
    /\ WF_vars(DrainStep) /\ WF_vars(Reconnect)
    /\ WF_vars(Watchdog /\ UNCHANGED faults)
    /\ \A s \in Socket :
         /\ WF_vars(EndpointStep(s)) /\ WF_vars(Open(s))
         /\ WF_vars(Closed(s) /\ ~(cli[s] = "open" /\ ~link[s]))

FairSpec == Spec /\ Fairness
-----------------------------------------------------------------------------
Items(seq) == {seq[i] : i \in DOMAIN seq}

TypeOK ==
    /\ published \in 0..MaxEvent /\ Len(queue) <= QueueMax
    /\ drain.at \in {"idle", "held", "sending"}
    /\ drain.pending \subseteq Socket /\ drain.failed \subseteq Socket
    /\ srv \in [Socket -> {"none", "accepted", "registered", "closing", "gone"}]
    /\ cli \in [Socket -> {"none", "connecting", "open", "closing"}]
    /\ page.status \in {"Connecting", "Live", "Backoff"}
    /\ Cardinality(Registered) <= MaxConnections

(* A socket that stays registered misses nothing and gets the events once, *)
(* in the order they were published, also when sends are slow and new ones *)
(* pile up: what was fanned out since it was registered was written to it  *)
(* or is being written, and one that missed an event is taken out before   *)
(* the next is sent.                                                       *)
GetsAllInOrder ==
    /\ TypeOK
    /\ \A s \in Socket : \A i, j \in DOMAIN got[s] : i < j => got[s][i] < got[s][j]
    /\ \A s \in Registered :
         s \notin drain.failed =>
           due[s] \ Items(got[s]) = IF s \in drain.pending THEN {drain.event} ELSE {}

(* The page never stops trying: one of its timers is always running,       *)
(* whatever sockets open, close late or die behind its back.               *)
TimerRuns == page.watchdog \/ page.reconnect

(* Once links stay up, the page comes to hold a socket that is registered, *)
(* and keeps it.                                                           *)
ChannelRecovers == <>[](\E s \in Socket : Reaches(s))
=============================================================================
