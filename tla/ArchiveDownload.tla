--------------------------- MODULE ArchiveDownload ---------------------------
(***************************************************************************)
(* One-use tickets for photo archives and the sessions that redeem them.   *)
(*                                                                         *)
(* Three kinds of thread share the state.  The event loop runs the request *)
(* handlers, the response and the budget timer, one callback at a time:    *)
(* what it does between two awaits is one action here.  Each session has a *)
(* reader thread that plans the archive and publishes its items under a    *)
(* number of credits.  Tickets are issued by threads of the request pool.  *)
(*                                                                         *)
(* An item stands for what the reader publishes of one file (its begin,    *)
(* chunks and end), a frame for what the response sends of it; frame 0 is  *)
(* the header the response sends before it takes any item, the last frame  *)
(* is the central directory.                                               *)
(***************************************************************************)
EXTENDS Integers, FiniteSets, Sequences

CONSTANTS
    Token, Session, NoSession,
    Local,           \* the tokens minted by a caller on the loopback
    Caller,          \* who redeems: TRUE for a caller on the loopback
    MaxItems,        \* the most file members an archive has
    Capacity,        \* shipping_photos_archive_max_concurrent
    ReaderCeiling,   \* shipping_photos_archive_max_live_readers
    Credits,         \* readahead chunks + 2
    TicketMax,       \* shipping_photos_archive_token_max
    StatusMax,       \* shipping_photos_archive_status_max
    MayRaise         \* whether the reader may meet an unexpected exception

ASSUME ArchiveAssumption ==
    /\ NoSession \notin Session /\ Local \subseteq Token /\ Caller \subseteq BOOLEAN
    /\ MaxItems \in Nat
    /\ {Capacity, ReaderCeiling, Credits, TicketMax, StatusMax} \subseteq Nat \ {0}

VARIABLES
    tickets,   \* the ticket store: fields by token, and the order of issue
    issued,    \* the tokens that were ever issued: a token is never reused
    status,    \* the status store: a record by token, oldest first
    permits,   \* the two counters of ArchivePermits
    session,   \* what a session object holds
    handler,   \* where the request of a session is
    reader,    \* where the reader thread of a session is
    pipe       \* the transport of a session: items, credits, cancel mirror

vars == <<tickets, issued, status, permits, session, handler, reader, pipe>>
-----------------------------------------------------------------------------
Absent == [state |-> "none", outcome |-> "none", by |-> NoSession]
NoTicket == [live |-> FALSE, bound |-> NoSession, spent |-> FALSE, retry |-> FALSE]

(* move_to_end: t leaves its place.                                        *)
Without(order, t) ==
    IF \A i \in 1..Len(order) : order[i] # t THEN order
    ELSE LET i == CHOOSE i \in 1..Len(order) : order[i] = t
         IN  SubSeq(order, 1, i - 1) \o SubSeq(order, i + 1, Len(order))

(* The oldest ticket leaves the store.                                     *)
DropOldest(store) ==
    [of |-> [store.of EXCEPT ![Head(store.order)] = NoTicket],
     order |-> Tail(store.order)]

(* Mutant of SettleTicket: every session gives its ticket back.            *)
SettleAsRetry(store, t, s, bytes) ==
    IF ~store.of[t].live \/ store.of[t].bound # s THEN store
    ELSE [store EXCEPT !.of[t] = [@ EXCEPT !.bound = NoSession, !.retry = TRUE]]

(* The outcome of one redemption: a session that sent bytes has used its   *)
(* ticket up, one that sent none gives it back as a retry.                 *)
SettleTicket(store, t, s, bytes) ==
    IF ~store.of[t].live \/ store.of[t].bound # s THEN store
    ELSE [store EXCEPT !.of[t] =
            IF bytes > 0 THEN [@ EXCEPT !.spent = TRUE]
            ELSE [@ EXCEPT !.bound = NoSession, !.retry = TRUE]]

(* The store with a record at its end, and without its oldest if too long. *)
Enter(store, t, rec) ==
    LET order == Append(Without(store.order, t), t)
        of == [store.of EXCEPT ![t] = rec]
    IN  IF Len(order) > StatusMax
        THEN [of |-> [of EXCEPT ![Head(order)] = Absent], order |-> Tail(order)]
        ELSE [of |-> of, order |-> order]

(* Mutant of RecordStatus: a record after the terminal one is kept.        *)
RecordLate(store, t, rec) ==
    IF rec.outcome = "Refused" /\ store.of[t].state \in {"Preparing", "Streaming"}
    THEN store ELSE Enter(store, t, rec)

(* Mutant of RecordStatus: a refusal replaces a live record.               *)
RecordRefusal(store, t, rec) ==
    IF store.of[t].state = "Terminal" /\ rec.state # "Preparing"
    THEN store ELSE Enter(store, t, rec)

(* One transition of the status store.  Whichever entry the eviction picks *)
(* (the first stale one, else the first) is the oldest, since every write  *)
(* moves its entry to the end.                                             *)
RecordStatus(store, t, rec) ==
    LET old == store.of[t]
        dropped == \/ old.state = "Terminal" /\ rec.state # "Preparing"
                   \/ rec.outcome = "Refused" /\ old.state \in {"Preparing", "Streaming"}
    IN  IF dropped THEN store ELSE Enter(store, t, rec)

Terminal(s, why) == [state |-> "Terminal", outcome |-> why, by |-> s]

(* First writer wins.                                                      *)
Outcome(s, why) ==
    IF session[s].outcome = "none" THEN why ELSE session[s].outcome

(* Frames of a plan with n file members.                                   *)
Declared(n) == n + 2

(* What travels in the queue: the items of member k, or one ending.        *)
Data(k) == [kind |-> "Data", index |-> k]
Ending(kind) == [kind |-> kind, index |-> 0]

(* A transport nothing went through yet, and permits nobody holds.         *)
EmptyPipe ==
    [items |-> << >>, next |-> 1, credits |-> Credits, ended |-> FALSE, mirror |-> FALSE]

AllFree == [inUse |-> 0, readers |-> 0]
-----------------------------------------------------------------------------
Init ==
    /\ tickets = [of |-> [t \in Token |-> NoTicket], order |-> << >>]
    /\ issued = {}
    /\ status = [of |-> [t \in Token |-> Absent], order |-> << >>]
    /\ permits = AllFree
    /\ session = [s \in Session |->
         [token |-> "none", outcome |-> "none", released |-> FALSE, cancel |-> FALSE,
          plan |-> "none", size |-> 0, sent |-> 0, done |-> FALSE]]
    /\ handler = [s \in Session |-> "idle"]
    /\ reader = [s \in Session |-> "off"]
    /\ pipe = [s \in Session |-> EmptyPipe]

(* The store with a new ticket, without its oldest if there are too many.  *)
WithTicket(t) ==
    LET added == [of |-> [tickets.of EXCEPT ![t] = [NoTicket EXCEPT !.live = TRUE]],
                  order |-> Append(tickets.order, t)]
    IN  IF Len(added.order) > TicketMax THEN DropOldest(added) ELSE added

(* create_archive_token: the listing checks refuse or reach issue_ticket.  *)
Issue(t) ==
    /\ t \notin issued
    /\ issued' = issued \union {t}
    /\ tickets' = WithTicket(t)
    /\ UNCHANGED <<status, permits, session, handler, reader, pipe>>

(* The oldest ticket passes its time to live: every reader of the store    *)
(* purges before it looks.                                                 *)
Lapse ==
    /\ tickets.order # << >>
    /\ tickets' = DropOldest(tickets)
    /\ UNCHANGED <<issued, status, permits, session, handler, reader, pipe>>

(* What the download route needs before it may bind.                       *)
Admissible(t, local) ==
    /\ tickets.of[t].live /\ ~tickets.of[t].spent
    /\ t \in Local => local
    /\ permits.inUse < Capacity /\ permits.readers < ReaderCeiling

(* A redemption that is turned away.  One that lost the bind took a permit *)
(* and a reader slot, returned both and settled under an id that the       *)
(* ticket is not bound to, before the loop did anything else.              *)
Refuse(t, local) ==
    /\ t \in issued
    /\ \/ ~Admissible(t, local) /\ UNCHANGED tickets
       \/ /\ Admissible(t, local) /\ tickets.of[t].bound # NoSession
          /\ tickets' = SettleTicket(tickets, t, NoSession, 0)
    /\ status' = RecordStatus(status, t, Terminal(NoSession, "Refused"))
    /\ UNCHANGED <<issued, permits, session, handler, reader, pipe>>

(* Mutant of Redeem: the bind does not look for another holder.            *)
RedeemHeld(s, t, local) ==
    /\ handler[s] = "idle"
    /\ Admissible(t, local)
    /\ tickets' = [tickets EXCEPT !.of[t].bound = s]
    /\ session' = [session EXCEPT ![s].token = t]
    /\ permits' = [inUse |-> permits.inUse + 1, readers |-> permits.readers + 1]
    /\ status' = RecordStatus(status, t,
                   [state |-> "Preparing", outcome |-> "none", by |-> s])
    /\ handler' = [handler EXCEPT ![s] = "planning"]
    /\ reader' = [reader EXCEPT ![s] = "preflight"]
    /\ UNCHANGED <<issued, pipe>>

(* A redemption that admits, binds, starts its budget and its reader.      *)
Redeem(s, t, local) ==
    /\ handler[s] = "idle"
    /\ Admissible(t, local)
    /\ tickets.of[t].bound = NoSession
    /\ tickets' = [tickets EXCEPT !.of[t].bound = s]
    /\ session' = [session EXCEPT ![s].token = t]
    /\ permits' = [inUse |-> permits.inUse + 1, readers |-> permits.readers + 1]
    /\ status' = RecordStatus(status, t,
                   [state |-> "Preparing", outcome |-> "none", by |-> s])
    /\ handler' = [handler EXCEPT ![s] = "planning"]
    /\ reader' = [reader EXCEPT ![s] = "preflight"]
    /\ UNCHANGED <<issued, pipe>>

(* The same redemption when the thread cannot be started.                  *)
StartFails(s, t, local) ==
    /\ handler[s] = "idle"
    /\ Admissible(t, local)
    /\ tickets.of[t].bound = NoSession
    /\ tickets' = [tickets EXCEPT !.of[t].retry = TRUE]
    /\ session' = [session EXCEPT ![s].token = t, ![s].outcome = "FailedStart",
                                  ![s].released = TRUE, ![s].cancel = TRUE,
                                  ![s].done = TRUE]
    /\ status' = RecordStatus(
                   RecordStatus(status, t,
                     [state |-> "Preparing", outcome |-> "none", by |-> s]),
                   t, Terminal(s, "FailedStart"))
    /\ handler' = [handler EXCEPT ![s] = "over"]
    /\ UNCHANGED <<issued, permits, reader, pipe>>
-----------------------------------------------------------------------------
(* Mutant of Release: a session that was released is released again.       *)
ReleaseAgain(s, why, next) ==
    /\ handler' = [handler EXCEPT ![s] = next]
    /\ session' = [session EXCEPT ![s].outcome = Outcome(s, why),
                      ![s].released = TRUE, ![s].cancel = TRUE, ![s].done = TRUE]
    /\ permits' = [permits EXCEPT !.inUse = @ - 1]
    /\ tickets' = SettleTicket(tickets, session[s].token, s, session[s].sent)
    /\ status' = RecordStatus(status, session[s].token, Terminal(s, Outcome(s, why)))

(* release as the event loop runs it: nothing of a reader comes between    *)
(* its steps that could tell, so it is one step.  `next` is where the      *)
(* handler goes.                                                           *)
Release(s, why, next) ==
    /\ handler' = [handler EXCEPT ![s] = next]
    /\ IF session[s].released
       THEN UNCHANGED <<tickets, status, permits, session>>
       ELSE /\ session' = [session EXCEPT ![s].outcome = Outcome(s, why),
                             ![s].released = TRUE, ![s].cancel = TRUE, ![s].done = TRUE]
            /\ permits' = [permits EXCEPT !.inUse = @ - 1]
            /\ tickets' = SettleTicket(tickets, session[s].token, s, session[s].sent)
            /\ status' = RecordStatus(status, session[s].token,
                           Terminal(s, Outcome(s, why)))

(* Mutant of BudgetEnds: the timer is disarmed when the plan is there.     *)
BudgetWhilePlanning(s) ==
    /\ handler[s] = "planning" /\ ~session[s].released
    /\ ~tickets.of[session[s].token].live
    /\ Release(s, "AbandonedBudget", handler[s])
    /\ UNCHANGED <<issued, reader, pipe>>

(* The budget timer, armed from the redemption to the release.  It is      *)
(* longer than a ticket lives (1800 and 300 seconds).                      *)
BudgetEnds(s) ==
    /\ handler[s] # "idle" /\ ~session[s].released
    /\ ~tickets.of[session[s].token].live
    /\ Release(s, "AbandonedBudget", handler[s])
    /\ UNCHANGED <<issued, reader, pipe>>

(* The callback that signal_cancel scheduled, while a coroutine is left    *)
(* to see it.                                                              *)
MirrorSet(s) ==
    /\ session[s].cancel /\ ~pipe[s].mirror
    /\ handler[s] \notin {"over", "finished"}
    /\ pipe' = [pipe EXCEPT ![s].mirror = TRUE]
    /\ UNCHANGED <<tickets, issued, status, permits, session, handler, reader>>

(* await_plan: the plan, a refusal, no progress, the client gone, or the   *)
(* session released underneath.                                            *)
PlanReady(s) ==
    /\ handler[s] = "planning"
    /\ ~session[s].released /\ ~pipe[s].mirror
    /\ session[s].plan = "ready"
    /\ handler' = [handler EXCEPT ![s] = "planned"]
    /\ UNCHANGED <<tickets, issued, status, permits, session, reader, pipe>>

PlanMissing(s) ==
    /\ handler[s] = "planning"
    /\ ~session[s].released /\ ~pipe[s].mirror
    /\ CASE session[s].plan = "refused" -> Release(s, "FolderNotFound", "over")
         [] session[s].plan = "failed"  -> Release(s, "FailedFraming", "over")
         [] session[s].plan = "none"    -> Release(s, "PreflightStalled", "over")
         [] OTHER                       -> FALSE
    /\ UNCHANGED <<issued, reader, pipe>>

LeavesWhilePlanning(s) ==
    /\ handler[s] = "planning"
    /\ Release(s, "AbandonedDisconnect", "over")
    /\ UNCHANGED <<issued, reader, pipe>>

PlanCancelled(s) ==
    /\ handler[s] = "planning"
    /\ session[s].released \/ pipe[s].mirror
    /\ handler' = [handler EXCEPT ![s] = "over"]
    /\ UNCHANGED <<tickets, issued, status, permits, session, reader, pipe>>

(* The handler returns its response: Streaming.  The await that cancels    *)
(* the disconnect listener lies between the plan and this step.            *)
Respond(s) ==
    /\ handler[s] = "planned"
    /\ handler' = [handler EXCEPT ![s] = "responding"]
    /\ status' = RecordStatus(status, session[s].token,
                   [state |-> "Streaming", outcome |-> "none", by |-> s])
    /\ UNCHANGED <<tickets, issued, permits, session, reader, pipe>>

(* The response task is cancelled before it runs: only the budget is left. *)
NeverStarts(s) ==
    /\ handler[s] = "responding"
    /\ handler' = [handler EXCEPT ![s] = "over"]
    /\ UNCHANGED <<tickets, issued, status, permits, session, reader, pipe>>
-----------------------------------------------------------------------------
(* The response.  A frame is in flight from the hand-over to the transport *)
(* until send returns; bytes are counted then.                             *)
BeginFrame(s) ==
    /\ handler[s] \in {"responding", "frame"}
    /\ handler' = [handler EXCEPT ![s] = "sending"]
    /\ UNCHANGED <<tickets, issued, status, permits, session, reader, pipe>>

FrameSent(s) ==
    /\ handler[s] = "sending"
    /\ session' = [session EXCEPT ![s].sent = @ + 1]
    /\ handler' = [handler EXCEPT ![s] =
         CASE session[s].sent < session[s].size     -> "taking"
           [] session[s].sent = session[s].size     -> "frame"
           [] session[s].sent > session[s].size     -> "whole"]
    /\ UNCHANGED <<tickets, issued, status, permits, reader, pipe>>

(* A send that stalls, or a client that left: the response closes.         *)
FrameLost(s) ==
    /\ handler[s] \in {"sending", "taking"}
    /\ Release(s, "AbandonedDisconnect", "over")
    /\ UNCHANGED <<issued, reader, pipe>>

(* take and what emit_archive does with the item.                          *)
Take(s) ==
    /\ handler[s] = "taking" /\ ~pipe[s].mirror
    /\ pipe[s].items # << >>
    /\ Head(pipe[s].items) = Data(session[s].sent)
    /\ pipe' = [pipe EXCEPT ![s].items = Tail(@), ![s].credits = @ + 1]
    /\ handler' = [handler EXCEPT ![s] = "frame"]
    /\ UNCHANGED <<tickets, issued, status, permits, session, reader>>

(* Anything else ends the response: teardown, an abandoned or diverged     *)
(* source, and an item out of its place.                                   *)
TakeStops(s) ==
    /\ handler[s] = "taking"
    /\ \/ /\ pipe[s].mirror
          /\ Release(s, "AbandonedDisconnect", "over")
       \/ /\ ~pipe[s].mirror /\ pipe[s].items # << >>
          /\ Head(pipe[s].items) # Data(session[s].sent)
          /\ Release(s, CASE Head(pipe[s].items).kind = "Diverged"  -> "SourceChanged"
                          [] Head(pipe[s].items).kind = "Abandoned" -> "AbandonedDisconnect"
                          [] OTHER                                  -> "FailedFraming", "over")
    /\ UNCHANGED <<issued, reader, pipe>>

(* Mutant of FinishResponse: the terminal body goes out in any case.       *)
FinishAnyway(s) ==
    /\ handler[s] = "whole"
    /\ Release(s, "Completed", "finished")
    /\ UNCHANGED <<issued, reader, pipe>>

(* The last frame was sent: Completed is recorded, the terminal body goes  *)
(* out only if that is the outcome, and the session is released.           *)
FinishResponse(s) ==
    /\ handler[s] = "whole"
    /\ Release(s, IF session[s].sent = Declared(session[s].size)
                  THEN "Completed" ELSE "FailedFraming",
                  IF Outcome(s, "Completed") = "Completed" THEN "finished" ELSE "over")
    /\ UNCHANGED <<issued, reader, pipe>>
-----------------------------------------------------------------------------
(* The reader thread.  Leaving it returns the reader slot.                 *)
ReaderEnds(s) ==
    /\ reader' = [reader EXCEPT ![s] = "over"]
    /\ permits' = [permits EXCEPT !.readers = @ - 1]

(* publish_terminal: at most one terminal item reaches the queue.          *)
Publish(p, kind) ==
    IF p.ended THEN p ELSE [p EXCEPT !.items = Append(@, Ending(kind)), !.ended = TRUE]

(* run_preflight and _publish_plan, for an archive of n files.             *)
Preflight(s, result, n) ==
    /\ reader[s] = "preflight" /\ ~session[s].cancel
    /\ session' = [session EXCEPT ![s].plan = result, ![s].size = n]
    /\ IF result = "ready"
       THEN reader' = [reader EXCEPT ![s] = "streaming"] /\ UNCHANGED permits
       ELSE ReaderEnds(s)
    /\ UNCHANGED <<tickets, issued, status, handler, pipe>>

PreflightCancelled(s) ==
    /\ reader[s] = "preflight" /\ session[s].cancel
    /\ ReaderEnds(s)
    /\ UNCHANGED <<tickets, issued, status, session, handler, pipe>>

(* A member is read and published: each costs a credit.                    *)
ReadItem(s) ==
    /\ reader[s] = "streaming" /\ ~session[s].cancel
    /\ pipe[s].next <= session[s].size
    /\ pipe[s].credits > 0
    /\ pipe' = [pipe EXCEPT ![s].items = Append(@, Data(pipe[s].next)),
                            ![s].next = @ + 1, ![s].credits = @ - 1]
    /\ UNCHANGED <<tickets, issued, status, permits, session, handler, reader>>

(* The source moved, everything was read, or the session was cancelled.    *)
ReaderStops(s) ==
    /\ reader[s] = "streaming"
    /\ \E kind \in {"Diverged", "Finished", "Abandoned"} :
         /\ kind = "Diverged" => pipe[s].next <= session[s].size
         /\ kind = "Finished" => pipe[s].next > session[s].size
         /\ kind = "Abandoned" => session[s].cancel
         /\ pipe' = [pipe EXCEPT ![s] = Publish(@, kind)]
    /\ ReaderEnds(s)
    /\ UNCHANGED <<tickets, issued, status, session, handler>>

(* No credit came back for reader_stall_seconds (a ticket's life, and ten  *)
(* times what a send may take), or an exception: the reader itself         *)
(* releases, in three steps that the loop may come between.                *)
ReaderGivesUp(s) ==
    /\ reader[s] = "streaming" /\ ~session[s].cancel
    /\ pipe[s].next <= session[s].size
    /\ \/ MayRaise
       \/ /\ pipe[s].credits = 0 /\ handler[s] \notin {"frame", "sending", "taking"}
          /\ ~tickets.of[session[s].token].live
    /\ pipe' = [pipe EXCEPT ![s] = Publish(@, "Abandoned")]
    /\ reader' = [reader EXCEPT ![s] = "settling"]
    /\ session' = [session EXCEPT ![s].outcome = Outcome(s, "AbandonedStall"),
                                  ![s].released = TRUE, ![s].cancel = TRUE]
    /\ permits' = [permits EXCEPT !.inUse = @ - 1]
    /\ UNCHANGED <<tickets, issued, status, handler>>

ReaderSettles(s) ==
    /\ reader[s] = "settling"
    /\ tickets' = SettleTicket(tickets, session[s].token, s, session[s].sent)
    /\ reader' = [reader EXCEPT ![s] = "recording"]
    /\ UNCHANGED <<issued, status, permits, session, handler, pipe>>

ReaderRecords(s) ==
    /\ reader[s] = "recording"
    /\ status' = RecordStatus(status, session[s].token, Terminal(s, session[s].outcome))
    /\ session' = [session EXCEPT ![s].done = TRUE]
    /\ ReaderEnds(s)
    /\ UNCHANGED <<tickets, issued, handler, pipe>>
-----------------------------------------------------------------------------
Loop(s) ==
    \/ MirrorSet(s)
    \/ PlanReady(s) \/ PlanMissing(s) \/ PlanCancelled(s)
    \/ Respond(s) \/ BeginFrame(s) \/ FrameSent(s)
    \/ Take(s) \/ TakeStops(s) \/ FinishResponse(s)

Reader(s) ==
    \/ \E n \in 0..MaxItems : Preflight(s, "ready", n)
    \/ \E result \in {"refused", "failed"} : Preflight(s, result, 0)
    \/ PreflightCancelled(s)
    \/ ReadItem(s) \/ ReaderStops(s)
    \/ ReaderSettles(s) \/ ReaderRecords(s)

Next ==
    \/ \E t \in Token, local \in Caller :
         \/ Issue(t) \/ Refuse(t, local)
         \/ \E s \in Session : Redeem(s, t, local) \/ StartFails(s, t, local)
    \/ Lapse
    \/ \E s \in Session :
         \/ Loop(s) \/ Reader(s) \/ BudgetEnds(s) \/ ReaderGivesUp(s)
         \/ LeavesWhilePlanning(s) \/ NeverStarts(s) \/ FrameLost(s)

Spec == Init /\ [][Next]_vars

(* The loop and the reader keep running, a send returns or stalls within   *)
(* its bound, and the budget timer fires.                                  *)
Fairness ==
    /\ WF_vars(Lapse)
    /\ \A s \in Session :
      /\ WF_vars(Loop(s) \/ (handler[s] = "sending" /\ FrameLost(s)))
      /\ WF_vars(Reader(s))
      /\ WF_vars(BudgetEnds(s))

FairSpec == Spec /\ Fairness
-----------------------------------------------------------------------------
Arrived == {s \in Session : handler[s] # "idle"}

TypeOK ==
    /\ tickets.of \in [Token -> [live : BOOLEAN, bound : Session \union {NoSession},
                                 spent : BOOLEAN, retry : BOOLEAN]]
    /\ issued \subseteq Token
    /\ \A t \in Token :
         status.of[t].state \in {"none", "Preparing", "Streaming", "Terminal"}
    /\ permits \in [inUse : 0..Capacity, readers : 0..ReaderCeiling]
    /\ \A s \in Session :
         /\ session[s].size \in 0..MaxItems /\ session[s].sent \in 0..MaxItems + 2
         /\ pipe[s].credits \in 0..Credits /\ Len(pipe[s].items) <= Credits + 1
    /\ handler \in [Session -> {"idle", "planning", "planned", "responding", "frame",
                                "sending", "taking", "whole", "finished", "over"}]
    /\ reader \in [Session -> {"off", "preflight", "streaming", "settling",
                               "recording", "over"}]

(* The permits in use are the sessions not yet released, the reader slots  *)
(* in use the threads not yet gone, whoever released the session and       *)
(* however often: no exit leaks one, none is returned twice.               *)
PermitsMatch ==
    /\ TypeOK
    /\ permits.inUse = Cardinality({s \in Arrived : ~session[s].released})
    /\ permits.readers = Cardinality({s \in Session : reader[s] \notin {"off", "over"}})

(* A ticket pays for one download: two sessions of it never both send      *)
(* bytes, even when one was released while a frame of its own was on its   *)
(* way.                                                                    *)
OneSender ==
    \A s1, s2 \in Arrived :
      s1 # s2 /\ session[s1].token = session[s2].token =>
        session[s1].sent = 0 \/ session[s2].sent = 0

(* The terminal body goes out only after every declared frame of an        *)
(* archive whose source did not move, and the items of the reader always   *)
(* meet the emitter in their place: framing fails only for a plan that     *)
(* failed.                                                                 *)
OnlyWhole ==
    \A s \in Session :
      /\ handler[s] = "finished" =>
           /\ session[s].sent = Declared(session[s].size)
           /\ session[s].outcome = "Completed"
           /\ pipe[s].next > session[s].size
      /\ session[s].outcome = "FailedFraming" => session[s].plan = "failed"

(* A client that polls is never told Preparing or Streaming by a session   *)
(* that is over.                                                           *)
LiveStatus ==
    \A t \in Token :
      status.of[t].state \in {"Preparing", "Streaming"} =>
        ~session[status.of[t].by].done

(* record_status: a session's own outcome lands, whatever other requests   *)
(* on the token wrote in between.                                          *)
OutcomeLands ==
    [][\A s \in Session :
         ~session[s].done /\ session'[s].done =>
           status'.of[session'[s].token].by = s]_vars

(* Every redemption ends: its request returns, its session is released and *)
(* its reader gives its slot back, also when its response never starts.    *)
AllReturned ==
    \A s \in Session : handler[s] # "idle" ~>
       /\ session[s].done
       /\ reader[s] \in {"off", "over"} /\ handler[s] \in {"over", "finished"}

(* The tickets keep what TicketUse promises.                               *)
UseOf(t) ==
    LET k == tickets.of[t] IN
    [state |-> IF t \notin issued THEN "unissued" ELSE IF ~k.live THEN "gone"
               ELSE IF k.spent THEN "used" ELSE IF k.bound # NoSession THEN "held"
               ELSE "open",
     holder |-> k.bound]

Use == INSTANCE TicketUse WITH use <- [t \in Token |-> UseOf(t)]
ImplementsTicketUse == Use!Spec
=============================================================================
