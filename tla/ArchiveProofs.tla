---------------------------- MODULE ArchiveProofs ----------------------------
(***************************************************************************)
(* What ArchiveDownload promises for any number of tokens, sessions,       *)
(* members and credits.  Its tickets are used as TicketUse says, its       *)
(* permits match who holds them and a body that ends is whole, whatever    *)
(* the readers meet; one session of a ticket sends bytes, and the status   *)
(* store tells of live sessions only, as long as no reader raises.         *)
(***************************************************************************)
EXTENDS ArchiveDownload, FiniteSetTheorems, SequenceTheorems, TLAPS

Ticket == [live : BOOLEAN, bound : Session \union {NoSession},
           spent : BOOLEAN, retry : BOOLEAN]
Store == [of : [Token -> Ticket], order : Seq(Token)]

Outcomes == {"none", "Completed", "AbandonedBudget", "AbandonedStall", "AbandonedDisconnect",
             "FailedStart", "FailedFraming", "FolderNotFound", "PreflightStalled",
             "SourceChanged"}
SessionType == [token : Token \union {"none"}, outcome : Outcomes, released : BOOLEAN,
                cancel : BOOLEAN, plan : {"none", "ready", "refused", "failed"},
                size : Nat, sent : Nat, done : BOOLEAN]
Places == {"idle", "planning", "planned", "responding", "frame", "sending", "taking",
           "whole", "finished", "over"}
ReaderPlaces == {"off", "preflight", "streaming", "settling", "recording", "over"}

UseTypes ==
    /\ tickets \in Store /\ issued \subseteq Token
    /\ session \in [Session -> SessionType]
    /\ handler \in [Session -> Places]
    /\ reader \in [Session -> ReaderPlaces]

(* A token that is not in the store has the fields of no ticket; what is   *)
(* in the order of issue was issued.                                       *)
StoreInv ==
    /\ \A t \in Token : t \notin issued => tickets.of[t] = NoTicket
    /\ \A t \in Token : ~tickets.of[t].live =>
         tickets.of[t].bound = NoSession /\ ~tickets.of[t].spent
    /\ \A i \in 1..Len(tickets.order) : tickets.order[i] \in issued

(* A session has a token once it was admitted; only a released one is      *)
(* cancelled or settles late.                                              *)
SessionOK(s) ==
    /\ handler[s] = "idle" => ~session[s].released /\ reader[s] = "off"
    /\ handler[s] # "idle" => session[s].token \in Token
    /\ session[s].cancel = session[s].released
    /\ reader[s] = "settling" => session[s].released

SessionInv == \A s \in Session : SessionOK(s)

(* A ticket is used up by the settlement of its holder, and no second      *)
(* settlement of that session is to come.                                  *)
SpentOnce ==
    \A t \in Token : tickets.of[t].spent =>
      LET s == tickets.of[t].bound IN
      s \in Session /\ session[s].released /\ reader[s] # "settling"

UseInv == UseTypes /\ StoreInv /\ SessionInv /\ SpentOnce
-----------------------------------------------------------------------------
LEMMA NoTicketIsEmpty ==
    /\ NoTicket \in Ticket /\ ~NoTicket.live /\ NoTicket.bound = NoSession
    /\ ~NoTicket.spent
  BY DEF NoTicket, Ticket

(* What settling does to a store: one ticket that s holds is used up or    *)
(* given back, or nothing changes.                                         *)
LEMMA SettleTouchesOwn ==
    ASSUME NEW store \in Store, NEW t \in Token, NEW s \in Session \union {NoSession},
           NEW bytes \in Nat
    PROVE  LET new == SettleTicket(store, t, s, bytes) IN
           /\ new \in Store /\ new.order = store.order
           /\ \A u \in Token : u # t => new.of[u] = store.of[u]
           /\ \/ new = store
              \/ /\ store.of[t].live /\ store.of[t].bound = s
                 /\ new.of[t].live
                 /\ \/ /\ new.of[t].bound = s /\ new.of[t].spent
                    \/ /\ new.of[t].bound = NoSession
                       /\ new.of[t].spent = store.of[t].spent
  <1> DEFINE old == store.of[t]
             used == [old EXCEPT !.spent = TRUE]
             back == [old EXCEPT !.bound = NoSession, !.retry = TRUE]
  <1>1. old \in Ticket
    BY DEF Store
  <1>2. used \in Ticket /\ used.live = old.live /\ used.bound = old.bound /\ used.spent
    BY <1>1 DEF Ticket
  <1>3. back \in Ticket /\ back.live = old.live /\ back.bound = NoSession /\ back.spent = old.spent
    BY <1>1 DEF Ticket
  <1>4. CASE ~old.live \/ old.bound # s
    BY <1>4 DEF SettleTicket
  <1>5. CASE old.live /\ old.bound = s
    <2> DEFINE k == IF bytes > 0 THEN used ELSE back
    <2>1. SettleTicket(store, t, s, bytes) = [store EXCEPT !.of[t] = k]
      BY <1>5 DEF SettleTicket
    <2>2. k \in Ticket /\ k.live
      BY <1>2, <1>3, <1>5
    <2>3. (k.bound = s /\ k.spent) \/ (k.bound = NoSession /\ k.spent = old.spent)
      BY <1>2, <1>3, <1>5
    <2> HIDE DEF k
    <2>4. /\ [store EXCEPT !.of[t] = k] \in Store
          /\ [store EXCEPT !.of[t] = k].order = store.order
          /\ \A u \in Token : u # t => [store EXCEPT !.of[t] = k].of[u] = store.of[u]
          /\ [store EXCEPT !.of[t] = k].of[t] = k
      BY <2>2 DEF Store
    <2> QED
      BY <1>5, <2>1, <2>2, <2>3, <2>4
  <1> QED
    BY <1>4, <1>5

LEMMA DropTouchesHead ==
    ASSUME NEW store \in Store, store.order # << >>
    PROVE  LET new == DropOldest(store) IN
           /\ new \in Store
           /\ Head(store.order) \in Token
           /\ new.of[Head(store.order)] = NoTicket
           /\ \A u \in Token : u # Head(store.order) => new.of[u] = store.of[u]
           /\ new.order = Tail(store.order)
  <1>1. NoTicket \in Ticket
    BY DEF NoTicket, Ticket
  <1>2. store.order \in Seq(Token) /\ Head(store.order) \in Token
        /\ Tail(store.order) \in Seq(Token)
    BY DEF Store
  <1> QED
    BY <1>1, <1>2 DEF DropOldest, Store
-----------------------------------------------------------------------------
(* A step that moves each ticket as TicketUse allows, or leaves it.        *)
UseSteps == \A t \in Token : UseOf(t)' = UseOf(t) \/ Use!Moves(UseOf(t), UseOf(t)')

LEMMA UseStepsRefine ==
    ASSUME UseSteps
    PROVE  Use!Next
  BY DEF UseSteps, Use!Next

(* A step of session s that leaves the tickets.                            *)
LEMMA Bystander ==
    ASSUME UseInv, UNCHANGED <<tickets, issued>>, UseTypes', SessionInv',
           \A s \in Session : session[s].released /\ reader[s] # "settling" =>
             session'[s].released /\ reader'[s] # "settling"
    PROVE  UseInv' /\ UseSteps
  <1>1. UseSteps
    BY DEF UseSteps, UseOf
  <1>2. StoreInv'
    BY DEF UseInv, StoreInv
  <1>3. SpentOnce'
    BY DEF UseInv, SpentOnce
  <1> QED
    BY <1>1, <1>2, <1>3 DEF UseInv

(* A step in which s settles, and has not done so before.                  *)
LEMMA Settling ==
    ASSUME UseInv, UNCHANGED issued, NEW s \in Session, UseTypes', SessionInv',
           NEW t \in Token, NEW bytes \in Nat,
           tickets' = SettleTicket(tickets, t, s, bytes),
           ~session[s].released \/ reader[s] = "settling",
           \A r \in Session : session[r].released /\ reader[r] # "settling" =>
             session'[r].released /\ reader'[r] # "settling",
           session'[s].released /\ reader'[s] # "settling"
    PROVE  UseInv' /\ UseSteps
  <1>0. tickets \in Store /\ s # NoSession
    BY ArchiveAssumption DEF UseInv, UseTypes
  <1>1. /\ tickets'.order = tickets.order
        /\ \A u \in Token : u # t => tickets'.of[u] = tickets.of[u]
        /\ \/ tickets' = tickets
           \/ /\ tickets.of[t].live /\ tickets.of[t].bound = s /\ tickets'.of[t].live
              /\ \/ tickets'.of[t].bound = s /\ tickets'.of[t].spent
                 \/ /\ tickets'.of[t].bound = NoSession
                    /\ tickets'.of[t].spent = tickets.of[t].spent
    BY <1>0, SettleTouchesOwn
  <1>2. CASE tickets' = tickets
    BY <1>2, Bystander DEF UseInv
  <1>3. CASE tickets' # tickets
    <2>1. /\ tickets.of[t].live /\ tickets.of[t].bound = s /\ tickets'.of[t].live
          /\ \/ tickets'.of[t].bound = s /\ tickets'.of[t].spent
             \/ /\ tickets'.of[t].bound = NoSession
                /\ tickets'.of[t].spent = tickets.of[t].spent
      BY <1>1, <1>3
    <2>2. ~tickets.of[t].spent
      BY <2>1 DEF UseInv, SpentOnce
    <2>3. t \in issued
      BY <2>1 DEF UseInv, StoreInv, NoTicket
    <2>4. StoreInv'
      BY <1>1, <2>1, <2>3 DEF UseInv, StoreInv
    <2>5. SpentOnce'
      BY <1>1, <2>1, <2>2 DEF UseInv, SpentOnce
    <2>6. UseOf(t) = Use!Held(s)
      BY <1>0, <2>1, <2>2, <2>3 DEF UseOf, Use!Held, Use!State
    <2>7. UseOf(t)' \in {Use!Open, Use!Used(s)}
      BY <1>0, <2>1, <2>2, <2>3 DEF UseOf, Use!Open, Use!Used, Use!State
    <2>8. UseSteps
      BY <1>1, <2>6, <2>7 DEF UseSteps, UseOf, Use!Moves
    <2> QED
      BY <2>4, <2>5, <2>8 DEF UseInv
  <1> QED
    BY <1>2, <1>3
-----------------------------------------------------------------------------
LEMMA InitUse ==
    ASSUME Init
    PROVE  UseInv /\ Use!Init
  <1>1. /\ tickets = [of |-> [t \in Token |-> NoTicket], order |-> << >>]
        /\ NoTicket \in Ticket
    BY DEF Init, Ticket, NoTicket
  <1>2. tickets \in Store /\ issued \subseteq Token
    BY <1>1 DEF Init, Store
  <1>3. UseTypes
    <2>1. session \in [Session -> SessionType]
      BY DEF Init, SessionType, Outcomes
    <2>2. handler \in [Session -> Places] /\ reader \in [Session -> ReaderPlaces]
      BY DEF Init, Places, ReaderPlaces
    <2> QED
      BY <1>2, <2>1, <2>2 DEF UseTypes
  <1>4. \A t \in Token : tickets.of[t] = NoTicket /\ t \notin issued
    BY <1>1 DEF Init
  <1>5. StoreInv /\ SpentOnce
    BY <1>1, <1>4, NoTicketIsEmpty DEF StoreInv, SpentOnce
  <1>6. SessionInv
    BY DEF Init, SessionInv, SessionOK
  <1>7. \A t \in Token : UseOf(t) = Use!Unissued
    BY <1>4, NoTicketIsEmpty DEF UseOf, Use!Unissued, Use!State
  <1> QED
    BY <1>3, <1>5, <1>6, <1>7 DEF UseInv, Use!Init

(* Issuing a ticket forgets another one, never itself.                     *)
LEMMA IssueUse ==
    ASSUME UseInv, NEW t \in Token, Issue(t)
    PROVE  UseInv' /\ UseSteps
  <1> DEFINE added == [of |-> [tickets.of EXCEPT ![t] = [NoTicket EXCEPT !.live = TRUE]],
                       order |-> Append(tickets.order, t)]
             fresh == [NoTicket EXCEPT !.live = TRUE]
  <1>1. /\ fresh \in Ticket /\ fresh.live /\ fresh.bound = NoSession /\ ~fresh.spent
    BY DEF NoTicket, Ticket
  <1>2. /\ tickets \in Store /\ issued \subseteq Token /\ t \notin issued
        /\ issued' = issued \union {t} /\ TicketMax \in Nat \ {0}
    BY ArchiveAssumption DEF UseInv, UseTypes, Issue
  <1>3. /\ added \in Store /\ added.of[t] = fresh
        /\ \A u \in Token : u # t => added.of[u] = tickets.of[u]
        /\ added.order \in Seq(Token) /\ Len(added.order) = Len(tickets.order) + 1
        /\ \A i \in 1..Len(tickets.order) : added.order[i] = tickets.order[i]
        /\ added.order[Len(added.order)] = t
    BY <1>1, <1>2 DEF Store
  <1>4. UNCHANGED <<session, handler, reader>>
    BY DEF Issue
  <1>5. SessionInv'
    BY <1>4 DEF UseInv, SessionInv, SessionOK
  <1>6. \A i \in 1..Len(added.order) : added.order[i] \in issued'
    BY <1>2, <1>3 DEF UseInv, StoreInv, Store
  <1>7. CASE tickets' = added
    <2>1. UseTypes'
      BY <1>2, <1>3, <1>4, <1>7 DEF UseInv, UseTypes
    <2>2. StoreInv'
      BY <1>1, <1>2, <1>3, <1>6, <1>7 DEF UseInv, StoreInv
    <2>3. SpentOnce'
      BY <1>1, <1>3, <1>4, <1>7 DEF UseInv, SpentOnce
    <2>4. \A u \in Token : u # t => UseOf(u)' = UseOf(u)
      BY <1>2, <1>3, <1>7 DEF UseOf
    <2>5. UseOf(t) = Use!Unissued /\ UseOf(t)' = Use!Open
      BY <1>1, <1>2, <1>3, <1>7
      DEF UseInv, StoreInv, UseOf, NoTicket, Use!Unissued, Use!Open, Use!State
    <2> QED
      BY <1>5, <2>1, <2>2, <2>3, <2>4, <2>5 DEF UseInv, UseSteps, Use!Moves
  <1>8. CASE Len(added.order) > TicketMax /\ tickets' = DropOldest(added)
    <2> DEFINE h == Head(tickets.order)
    <2>1. /\ Len(tickets.order) \in Nat \ {0} /\ tickets.order[1] = h
          /\ h \in issued /\ h \in Token /\ h # t /\ Head(added.order) = h
      BY <1>2, <1>3, <1>8 DEF UseInv, StoreInv, Store
    <2>2. PICK d \in Token : d = h
      BY <2>1
    <2> HIDE DEF h, added, fresh
    <2>3. /\ tickets' \in Store /\ tickets'.of[d] = NoTicket
          /\ \A u \in Token : u # d => tickets'.of[u] = added.of[u]
          /\ tickets'.order = Tail(added.order)
      BY <1>3, <1>8, <2>1, <2>2, DropTouchesHead
    <2>4. UseTypes'
      BY <1>2, <1>4, <2>3 DEF UseInv, UseTypes
    <2>5. \A i \in 1..Len(tickets'.order) : tickets'.order[i] \in issued'
      <3>1. /\ added.order \in Seq(Token) /\ added.order # << >>
            /\ tickets'.order = Tail(added.order)
        BY <1>2, <1>3, <2>1, <2>3
      <3> QED
        BY <1>6, <3>1
    <2>6. StoreInv'
      <3>1. \A u \in Token : u \notin issued' => tickets'.of[u] = NoTicket
        BY <1>2, <1>3, <2>2, <2>3 DEF UseInv, StoreInv
      <3>2. \A u \in Token : ~tickets'.of[u].live =>
              tickets'.of[u].bound = NoSession /\ ~tickets'.of[u].spent
        BY <1>1, <1>3, <2>3, NoTicketIsEmpty DEF UseInv, StoreInv
      <3> QED
        BY <2>5, <3>1, <3>2 DEF StoreInv
    <2>7. SpentOnce'
      BY <1>1, <1>3, <1>4, <2>3 DEF UseInv, SpentOnce, NoTicket
    <2>8. \A u \in Token : u \notin {t, d} => UseOf(u)' = UseOf(u)
      BY <1>2, <1>3, <2>3 DEF UseOf
    <2>9. UseOf(d) # Use!Unissued /\ UseOf(d)' = Use!Gone
      BY <1>2, <2>1, <2>2, <2>3
      DEF UseOf, NoTicket, Use!Unissued, Use!Gone, Use!State
    <2>10. UseOf(t) = Use!Unissued /\ UseOf(t)' = Use!Open
      BY <1>1, <1>2, <1>3, <2>1, <2>2, <2>3
      DEF UseInv, StoreInv, UseOf, NoTicket, Use!Unissued, Use!Open, Use!State
    <2> QED
      BY <1>5, <2>4, <2>6, <2>7, <2>8, <2>9, <2>10 DEF UseInv, UseSteps, Use!Moves
  <1> QED
    BY <1>7, <1>8 DEF Issue, WithTicket

LEMMA LapseUse ==
    ASSUME UseInv, Lapse
    PROVE  UseInv' /\ UseSteps
  <1>1. /\ tickets \in Store /\ tickets.order # << >> /\ tickets' = DropOldest(tickets)
        /\ UNCHANGED <<issued, session, handler, reader>>
    BY DEF UseInv, UseTypes, Lapse
  <1>2. PICK d \in Token : d = Head(tickets.order)
    BY <1>1, DropTouchesHead
  <1>3. /\ tickets' \in Store /\ tickets'.of[d] = NoTicket
        /\ \A u \in Token : u # d => tickets'.of[u] = tickets.of[u]
        /\ tickets'.order = Tail(tickets.order)
    BY <1>1, <1>2, DropTouchesHead
  <1>4. d \in issued
    BY <1>1, <1>2 DEF UseInv, StoreInv, Store
  <1>5. UseTypes' /\ SessionInv'
    BY <1>1, <1>3 DEF UseInv, UseTypes, SessionInv, SessionOK
  <1>6. \A i \in 1..Len(tickets'.order) : tickets'.order[i] \in issued'
    <2>1. tickets.order \in Seq(Token) /\ tickets'.order = Tail(tickets.order)
      BY <1>1, <1>3 DEF Store
    <2>2. \A i \in 1..Len(tickets.order) : tickets.order[i] \in issued'
      BY <1>1 DEF UseInv, StoreInv
    <2> QED
      BY <1>1, <2>1, <2>2
  <1>7. StoreInv'
    <2>1. \A u \in Token : u \notin issued' => tickets'.of[u] = NoTicket
      BY <1>1, <1>3 DEF UseInv, StoreInv
    <2>2. \A u \in Token : ~tickets'.of[u].live =>
            tickets'.of[u].bound = NoSession /\ ~tickets'.of[u].spent
      BY <1>3, NoTicketIsEmpty DEF UseInv, StoreInv
    <2> QED
      BY <1>6, <2>1, <2>2 DEF StoreInv
  <1>8. SpentOnce'
    BY <1>1, <1>3 DEF UseInv, SpentOnce, NoTicket
  <1>9. UseOf(d) # Use!Unissued /\ UseOf(d)' = Use!Gone
    BY <1>1, <1>3, <1>4 DEF UseOf, NoTicket, Use!Unissued, Use!Gone, Use!State
  <1>10. \A u \in Token : u # d => UseOf(u)' = UseOf(u)
    BY <1>1, <1>3 DEF UseOf
  <1> QED
    BY <1>5, <1>7, <1>8, <1>9, <1>10 DEF UseInv, UseSteps, Use!Moves

(* Who lost the bind settles under an id that holds no ticket.             *)
LEMMA RefuseUse ==
    ASSUME UseInv, NEW t \in Token, NEW local, Refuse(t, local)
    PROVE  UseInv' /\ UseSteps
  <1>1. tickets' = tickets
    BY DEF Refuse, SettleTicket
  <1>2. UNCHANGED <<issued, session, handler, reader>>
    BY DEF Refuse
  <1>3. UseTypes' /\ SessionInv'
    BY <1>1, <1>2 DEF UseInv, UseTypes, SessionInv, SessionOK
  <1> QED
    BY <1>1, <1>2, <1>3, Bystander
-----------------------------------------------------------------------------
LEMMA RedeemUse ==
    ASSUME UseInv, NEW s \in Session, NEW t \in Token, NEW local, Redeem(s, t, local)
    PROVE  UseInv' /\ UseSteps
  <1> DEFINE k == [tickets.of[t] EXCEPT !.bound = s]
  <1>1. /\ tickets \in Store /\ s # NoSession /\ t \in issued
        /\ tickets.of[t].live /\ ~tickets.of[t].spent /\ tickets.of[t].bound = NoSession
    BY ArchiveAssumption, NoTicketIsEmpty
    DEF UseInv, UseTypes, StoreInv, Redeem, Admissible
  <1>2. tickets.of[t] \in Ticket
    BY <1>1 DEF Store
  <1>3. k \in Ticket /\ k.live /\ ~k.spent /\ k.bound = s
    BY <1>1, <1>2 DEF Ticket
  <1>4. tickets' = [tickets EXCEPT !.of[t] = k]
    BY DEF Redeem
  <1> HIDE DEF k
  <1>5. /\ tickets' \in Store /\ tickets'.of[t] = k /\ tickets'.order = tickets.order
        /\ \A u \in Token : u # t => tickets'.of[u] = tickets.of[u]
    BY <1>1, <1>3, <1>4 DEF Store
  <1>6. /\ issued' = issued /\ session' = [session EXCEPT ![s].token = t]
        /\ handler[s] = "idle" /\ handler' = [handler EXCEPT ![s] = "planning"]
        /\ reader' = [reader EXCEPT ![s] = "preflight"]
    BY DEF Redeem
  <1>7. session' \in [Session -> SessionType]
    BY <1>6 DEF UseInv, UseTypes, SessionType
  <1>8. UseTypes'
    BY <1>5, <1>6, <1>7 DEF UseInv, UseTypes, Places, ReaderPlaces
  <1>9. StoreInv'
    BY <1>1, <1>3, <1>5, <1>6 DEF UseInv, StoreInv
  <1>10. /\ \A r \in Session \ {s} : /\ session'[r] = session[r]
                                     /\ handler'[r] = handler[r] /\ reader'[r] = reader[r]
         /\ session'[s].released = session[s].released
         /\ session'[s].cancel = session[s].cancel /\ session'[s].token = t
         /\ handler'[s] = "planning" /\ reader'[s] = "preflight"
    BY <1>6 DEF UseInv, UseTypes, SessionType
  <1>11. SessionInv'
    BY <1>6, <1>10 DEF UseInv, SessionInv, SessionOK
  <1>12. SpentOnce'
    BY <1>3, <1>5, <1>10 DEF UseInv, SpentOnce
  <1>13. UseOf(t) = Use!Open /\ UseOf(t)' = Use!Held(s)
    BY <1>1, <1>3, <1>5, <1>6 DEF UseOf, Use!Open, Use!Held, Use!State
  <1>14. \A u \in Token : u # t => UseOf(u)' = UseOf(u)
    BY <1>5, <1>6 DEF UseOf
  <1> QED
    BY <1>8, <1>9, <1>11, <1>12, <1>13, <1>14 DEF UseInv, UseSteps, Use!Moves

(* The bind is taken back before anybody sees it.                          *)
LEMMA StartFailsUse ==
    ASSUME UseInv, NEW s \in Session, NEW t \in Token, NEW local, StartFails(s, t, local)
    PROVE  UseInv' /\ UseSteps
  <1> DEFINE k == [tickets.of[t] EXCEPT !.retry = TRUE]
  <1>1. /\ tickets \in Store /\ tickets.of[t].live
    BY DEF UseInv, UseTypes, StartFails, Admissible
  <1>2. tickets.of[t] \in Ticket
    BY <1>1 DEF Store
  <1>3. /\ k \in Ticket /\ k.live = tickets.of[t].live /\ k.bound = tickets.of[t].bound
        /\ k.spent = tickets.of[t].spent
    BY <1>2 DEF Ticket
  <1>4. tickets' = [tickets EXCEPT !.of[t] = k]
    BY DEF StartFails
  <1> HIDE DEF k
  <1>5. /\ tickets' \in Store /\ tickets'.of[t] = k /\ tickets'.order = tickets.order
        /\ \A u \in Token : u # t => tickets'.of[u] = tickets.of[u]
    BY <1>1, <1>3, <1>4 DEF Store
  <1>6. /\ UNCHANGED <<issued, reader>> /\ handler[s] = "idle"
        /\ session' = [session EXCEPT ![s].token = t, ![s].outcome = "FailedStart",
                          ![s].released = TRUE, ![s].cancel = TRUE, ![s].done = TRUE]
        /\ handler' = [handler EXCEPT ![s] = "over"]
    BY DEF StartFails
  <1>7. session' \in [Session -> SessionType]
    <2> DEFINE n == [session[s] EXCEPT !.token = t, !.outcome = "FailedStart",
                       !.released = TRUE, !.cancel = TRUE, !.done = TRUE]
    <2>1. session \in [Session -> SessionType] /\ session[s] \in SessionType
      BY DEF UseInv, UseTypes
    <2>2. n \in SessionType
      BY <2>1 DEF SessionType, Outcomes
    <2>3. session' = [session EXCEPT ![s] = n]
      BY <1>6, <2>1
    <2> HIDE DEF n
    <2> QED
      BY <2>1, <2>2, <2>3
  <1>8. UseTypes'
    BY <1>5, <1>6, <1>7 DEF UseInv, UseTypes, Places
  <1>9. StoreInv'
    BY <1>1, <1>3, <1>5, <1>6, NoTicketIsEmpty DEF UseInv, StoreInv
  <1>10. /\ \A r \in Session \ {s} : /\ session'[r] = session[r]
                                     /\ handler'[r] = handler[r]
         /\ session'[s].released /\ session'[s].cancel /\ session'[s].token = t
         /\ handler'[s] = "over"
    BY <1>6 DEF UseInv, UseTypes, SessionType
  <1>11. SessionInv'
    BY <1>6, <1>7, <1>10 DEF UseInv, SessionInv, SessionOK, SessionType
  <1>12. SpentOnce'
    <2>1. \A u \in Token : /\ tickets'.of[u].spent = tickets.of[u].spent
                           /\ tickets'.of[u].bound = tickets.of[u].bound
      BY <1>3, <1>5
    <2>2. \A r \in Session : session[r].released => session'[r].released
      BY <1>10
    <2> QED
      BY <1>6, <2>1, <2>2 DEF UseInv, SpentOnce
  <1>13. \A u \in Token : UseOf(u)' = UseOf(u)
    BY <1>3, <1>5, <1>6 DEF UseOf
  <1> QED
    BY <1>8, <1>9, <1>11, <1>12, <1>13 DEF UseInv, UseSteps

LEMMA ReleaseUse ==
    ASSUME UseInv, NEW s \in Session, NEW why \in Outcomes, NEW next \in Places,
           handler[s] # "idle", next # "idle",
           Release(s, why, next), UNCHANGED <<issued, reader>>
    PROVE  UseInv' /\ UseSteps
  <1>1. handler' = [handler EXCEPT ![s] = next]
    BY DEF Release
  <1>2. CASE session[s].released
    <2>1. UNCHANGED <<tickets, session>>
      BY <1>2 DEF Release
    <2>2. UseTypes'
      BY <1>1, <2>1 DEF UseInv, UseTypes
    <2>3. SessionInv'
      BY <1>1, <2>1 DEF UseInv, UseTypes, SessionInv, SessionOK
    <2> QED
      BY <2>1, <2>2, <2>3, Bystander
  <1>3. CASE ~session[s].released
    <2> DEFINE o == Outcome(s, why)
    <2>1. o \in Outcomes
      BY DEF Outcome, UseInv, UseTypes, SessionType
    <2>2. /\ session' = [session EXCEPT ![s].outcome = o, ![s].released = TRUE,
                           ![s].cancel = TRUE, ![s].done = TRUE]
          /\ tickets' = SettleTicket(tickets, session[s].token, s, session[s].sent)
      BY <1>3 DEF Release
    <2> HIDE DEF o
    <2>3. PICK t \in Token : t = session[s].token
      BY DEF UseInv, SessionInv, SessionOK
    <2>4. session[s].sent \in Nat /\ tickets \in Store
      BY DEF UseInv, UseTypes, SessionType
    <2>5. tickets' \in Store
      BY <2>2, <2>3, <2>4, SettleTouchesOwn
    <2>6. session' \in [Session -> SessionType]
      <3> DEFINE n == [session[s] EXCEPT !.outcome = o, !.released = TRUE,
                         !.cancel = TRUE, !.done = TRUE]
      <3>1. session \in [Session -> SessionType] /\ session[s] \in SessionType
        BY DEF UseInv, UseTypes
      <3>2. n \in SessionType
        BY <2>1, <3>1 DEF SessionType
      <3>3. session' = [session EXCEPT ![s] = n]
        BY <2>2, <3>1
      <3> HIDE DEF n
      <3> QED
        BY <3>1, <3>2, <3>3
    <2>7. /\ \A r \in Session \ {s} : /\ session'[r] = session[r]
                                      /\ handler'[r] = handler[r]
          /\ session'[s].released /\ session'[s].cancel
          /\ session'[s].token = session[s].token /\ handler'[s] = next
      BY <1>1, <2>2 DEF UseInv, UseTypes, SessionType
    <2>8. UseTypes'
      BY <1>1, <2>5, <2>6 DEF UseInv, UseTypes
    <2>9. SessionInv'
      BY <2>3, <2>6, <2>7 DEF UseInv, SessionInv, SessionOK, SessionType
    <2>10. reader[s] # "settling"
      BY <1>3 DEF UseInv, SessionInv, SessionOK
    <2> QED
      BY <1>3, <2>2, <2>3, <2>4, <2>7, <2>8, <2>9, <2>10, Settling
  <1> QED
    BY <1>2, <1>3
-----------------------------------------------------------------------------
(* A step of a handler that changes nothing but where it is.               *)
LEMMA HandlerMoves ==
    ASSUME UseInv, NEW s \in Session, NEW next \in Places \ {"idle"}, handler[s] # "idle",
           handler' = [handler EXCEPT ![s] = next],
           UNCHANGED <<tickets, issued, session, reader>>
    PROVE  UseInv' /\ UseSteps
  <1>1. UseTypes'
    BY DEF UseInv, UseTypes
  <1>2. SessionInv'
    BY DEF UseInv, UseTypes, SessionInv, SessionOK
  <1> QED
    BY <1>1, <1>2, Bystander

LEMMA FrameSentUse ==
    ASSUME UseInv, NEW s \in Session, FrameSent(s)
    PROVE  UseInv' /\ UseSteps
  <1>1. /\ UNCHANGED <<tickets, issued, reader>> /\ handler[s] # "idle"
        /\ session' = [session EXCEPT ![s].sent = @ + 1]
    BY DEF FrameSent
  <1>2. PICK next \in Places \ {"idle"} : handler' = [handler EXCEPT ![s] = next]
    <2>1. session[s].sent \in Nat /\ session[s].size \in Nat
      BY DEF UseInv, UseTypes, SessionType
    <2>2. \/ session[s].sent < session[s].size \/ session[s].sent = session[s].size
          \/ session[s].sent > session[s].size
      BY <2>1
    <2> QED
      BY <2>1, <2>2 DEF FrameSent, Places
  <1>3. session' \in [Session -> SessionType]
    BY <1>1 DEF UseInv, UseTypes, SessionType
  <1>4. /\ \A r \in Session : /\ session'[r].released = session[r].released
                               /\ session'[r].cancel = session[r].cancel
                               /\ session'[r].token = session[r].token
        /\ \A r \in Session : handler'[r] = "idle" <=> handler[r] = "idle"
    BY <1>1, <1>2 DEF UseInv, UseTypes, SessionType
  <1>5. UseTypes'
    BY <1>1, <1>2, <1>3 DEF UseInv, UseTypes
  <1>6. SessionInv'
    BY <1>1, <1>4 DEF UseInv, SessionInv, SessionOK
  <1> QED
    BY <1>1, <1>4, <1>5, <1>6, Bystander

(* A step of a reader that only moves it, or tells of a plan.              *)
LEMMA ReaderMoves ==
    ASSUME UseInv, NEW s \in Session, NEW next \in ReaderPlaces \ {"settling"},
           reader[s] # "off", reader' = [reader EXCEPT ![s] = next],
           session' \in [Session -> SessionType],
           \A r \in Session : /\ session'[r].released = session[r].released
                              /\ session'[r].cancel = session[r].cancel
                              /\ session'[r].token = session[r].token,
           UNCHANGED <<tickets, issued, handler>>
    PROVE  UseInv' /\ UseSteps
  <1>1. UseTypes'
    BY DEF UseInv, UseTypes
  <1>2. \A r \in Session : reader'[r] = IF r = s THEN next ELSE reader[r]
    BY DEF UseInv, UseTypes
  <1>3. SessionInv'
    BY <1>2 DEF UseInv, SessionInv, SessionOK
  <1> QED
    BY <1>1, <1>2, <1>3, Bystander

LEMMA PreflightUse ==
    ASSUME UseInv, NEW s \in Session, NEW n \in 0..MaxItems,
           NEW result \in {"ready", "refused", "failed"}, Preflight(s, result, n)
    PROVE  UseInv' /\ UseSteps
  <1> DEFINE k == [session[s] EXCEPT !.plan = result, !.size = n]
  <1>1. session \in [Session -> SessionType] /\ session[s] \in SessionType /\ n \in Nat
    BY ArchiveAssumption DEF UseInv, UseTypes
  <1>2. /\ k \in SessionType /\ k.released = session[s].released
        /\ k.cancel = session[s].cancel /\ k.token = session[s].token
    BY <1>1 DEF SessionType
  <1>3. session' = [session EXCEPT ![s] = k]
    BY <1>1 DEF Preflight
  <1>4. /\ reader[s] # "off" /\ UNCHANGED <<tickets, issued, handler>>
        /\ \E next \in {"streaming", "over"} : reader' = [reader EXCEPT ![s] = next]
    BY DEF Preflight, ReaderEnds
  <1> HIDE DEF k
  <1>5. /\ session' \in [Session -> SessionType]
        /\ \A r \in Session : /\ session'[r].released = session[r].released
                               /\ session'[r].cancel = session[r].cancel
                               /\ session'[r].token = session[r].token
    BY <1>1, <1>2, <1>3
  <1>6. PICK next \in ReaderPlaces \ {"settling"} : reader' = [reader EXCEPT ![s] = next]
    BY <1>4 DEF ReaderPlaces
  <1> QED
    BY <1>4, <1>5, <1>6, ReaderMoves

LEMMA ReaderGivesUpUse ==
    ASSUME UseInv, NEW s \in Session, ReaderGivesUp(s)
    PROVE  UseInv' /\ UseSteps
  <1> DEFINE o == Outcome(s, "AbandonedStall")
             k == [session[s] EXCEPT !.outcome = o, !.released = TRUE, !.cancel = TRUE]
  <1>1. session \in [Session -> SessionType] /\ session[s] \in SessionType
    BY DEF UseInv, UseTypes
  <1>2. o \in Outcomes
    BY <1>1 DEF Outcome, SessionType, Outcomes
  <1>3. k \in SessionType /\ k.released /\ k.cancel /\ k.token = session[s].token
    BY <1>1, <1>2 DEF SessionType
  <1>4. session' = [session EXCEPT ![s] = k]
    BY <1>1 DEF ReaderGivesUp
  <1>5. /\ reader[s] = "streaming" /\ reader' = [reader EXCEPT ![s] = "settling"]
        /\ ~session[s].cancel /\ UNCHANGED <<tickets, issued, handler>>
    BY DEF ReaderGivesUp
  <1> HIDE DEF k
  <1>6. /\ \A r \in Session \ {s} : session'[r] = session[r] /\ reader'[r] = reader[r]
        /\ session'[s] = k /\ reader'[s] = "settling"
    BY <1>1, <1>4, <1>5 DEF UseInv, UseTypes
  <1>7. UseTypes'
    BY <1>1, <1>3, <1>4, <1>5 DEF UseInv, UseTypes, ReaderPlaces
  <1>8. session'[s].cancel = session'[s].released
    BY <1>3, <1>6, <1>7 DEF SessionType
  <1>9. SessionInv'
    BY <1>3, <1>5, <1>6, <1>8 DEF UseInv, SessionInv, SessionOK
  <1>10. ~session[s].released
    BY <1>5 DEF UseInv, SessionInv, SessionOK
  <1> QED
    BY <1>5, <1>6, <1>7, <1>9, <1>10, Bystander

LEMMA ReaderSettlesUse ==
    ASSUME UseInv, NEW s \in Session, ReaderSettles(s)
    PROVE  UseInv' /\ UseSteps
  <1>1. /\ reader[s] = "settling" /\ reader' = [reader EXCEPT ![s] = "recording"]
        /\ tickets' = SettleTicket(tickets, session[s].token, s, session[s].sent)
        /\ UNCHANGED <<issued, session, handler>>
    BY DEF ReaderSettles
  <1>2. PICK t \in Token : t = session[s].token
    BY <1>1 DEF UseInv, SessionInv, SessionOK
  <1>3. session[s].sent \in Nat /\ tickets \in Store /\ session[s].released
    BY <1>1 DEF UseInv, UseTypes, SessionType, SessionInv, SessionOK
  <1>4. tickets' \in Store
    BY <1>1, <1>2, <1>3, SettleTouchesOwn
  <1>5. \A r \in Session : reader'[r] = IF r = s THEN "recording" ELSE reader[r]
    BY <1>1 DEF UseInv, UseTypes
  <1>6. UseTypes'
    BY <1>1, <1>4 DEF UseInv, UseTypes, ReaderPlaces
  <1>7. SessionInv'
    BY <1>1, <1>5 DEF UseInv, SessionInv, SessionOK
  <1> QED
    BY <1>1, <1>2, <1>3, <1>5, <1>6, <1>7, Settling

LEMMA ReaderRecordsUse ==
    ASSUME UseInv, NEW s \in Session, ReaderRecords(s)
    PROVE  UseInv' /\ UseSteps
  <1>1. /\ reader[s] = "recording" /\ reader' = [reader EXCEPT ![s] = "over"]
        /\ session' = [session EXCEPT ![s].done = TRUE]
        /\ UNCHANGED <<tickets, issued, handler>>
    BY DEF ReaderRecords, ReaderEnds
  <1>2. /\ session' \in [Session -> SessionType]
        /\ \A r \in Session : /\ session'[r].released = session[r].released
                               /\ session'[r].cancel = session[r].cancel
                               /\ session'[r].token = session[r].token
    BY <1>1 DEF UseInv, UseTypes, SessionType
  <1> QED
    BY <1>1, <1>2, ReaderMoves DEF ReaderPlaces
-----------------------------------------------------------------------------
LEMMA LoopUse ==
    ASSUME UseInv, NEW s \in Session,
           Loop(s) \/ BudgetEnds(s) \/ LeavesWhilePlanning(s) \/ NeverStarts(s) \/ FrameLost(s)
    PROVE  UseInv' /\ UseSteps
  <1>1. CASE \/ PlanReady(s) \/ PlanCancelled(s) \/ Respond(s) \/ BeginFrame(s) \/ Take(s)
             \/ NeverStarts(s)
    <2>1. /\ handler[s] # "idle" /\ UNCHANGED <<tickets, issued, session, reader>>
          /\ \E next \in Places \ {"idle"} : handler' = [handler EXCEPT ![s] = next]
      BY <1>1 DEF PlanReady, PlanCancelled, Respond, BeginFrame, Take, NeverStarts, Places
    <2> QED
      BY <2>1, HandlerMoves
  <1>2. CASE MirrorSet(s)
    <2>1. UNCHANGED <<tickets, issued, session, handler, reader>>
      BY <1>2 DEF MirrorSet
    <2>2. UseTypes' /\ SessionInv'
      BY <2>1 DEF UseInv, UseTypes, SessionInv, SessionOK
    <2> QED
      BY <2>1, <2>2, Bystander
  <1>3. CASE FrameSent(s)
    BY <1>3, FrameSentUse
  <1>4. CASE \/ PlanMissing(s) \/ LeavesWhilePlanning(s) \/ FrameLost(s) \/ TakeStops(s)
             \/ FinishResponse(s) \/ BudgetEnds(s)
    <2>1. /\ handler[s] # "idle" /\ UNCHANGED <<issued, reader>>
          /\ \E why \in Outcomes, next \in Places \ {"idle"} : Release(s, why, next)
      <3>1. CASE PlanMissing(s)
        BY <1>4, <3>1 DEF PlanMissing, Outcomes, Places
      <3>2. CASE LeavesWhilePlanning(s) \/ FrameLost(s)
        BY <3>2 DEF LeavesWhilePlanning, FrameLost, Outcomes, Places
      <3>3. CASE TakeStops(s)
        BY <3>3 DEF TakeStops, Outcomes, Places
      <3>4. CASE FinishResponse(s)
        BY <3>4 DEF FinishResponse, Outcomes, Places
      <3>5. CASE BudgetEnds(s)
        <4>1. handler[s] \in Places
          BY DEF UseInv, UseTypes
        <4> QED
          BY <3>5, <4>1 DEF BudgetEnds, Outcomes
      <3> QED
        BY <1>4, <3>1, <3>2, <3>3, <3>4, <3>5
    <2> QED
      BY <2>1, ReleaseUse
  <1> QED
    BY <1>1, <1>2, <1>3, <1>4 DEF Loop

LEMMA ReaderUse ==
    ASSUME UseInv, NEW s \in Session, Reader(s) \/ ReaderGivesUp(s)
    PROVE  UseInv' /\ UseSteps
  <1>1. CASE \/ \E n \in 0..MaxItems : Preflight(s, "ready", n)
             \/ \E result \in {"refused", "failed"} : Preflight(s, result, 0)
    <2>1. 0 \in 0..MaxItems
      BY ArchiveAssumption
    <2> QED
      BY <1>1, <2>1, PreflightUse
  <1>2. CASE PreflightCancelled(s) \/ ReaderStops(s)
    <2>1. /\ reader[s] # "off" /\ UNCHANGED <<tickets, issued, session, handler>>
          /\ reader' = [reader EXCEPT ![s] = "over"]
      BY <1>2 DEF PreflightCancelled, ReaderStops, ReaderEnds
    <2>2. session' \in [Session -> SessionType]
      BY <2>1 DEF UseInv, UseTypes
    <2> QED
      BY <2>1, <2>2, ReaderMoves DEF ReaderPlaces
  <1>3. CASE ReadItem(s)
    <2>1. UNCHANGED <<tickets, issued, session, handler, reader>>
      BY <1>3 DEF ReadItem
    <2>2. UseTypes' /\ SessionInv'
      BY <2>1 DEF UseInv, UseTypes, SessionInv, SessionOK
    <2> QED
      BY <2>1, <2>2, Bystander
  <1> QED
    BY <1>1, <1>2, <1>3, ReaderGivesUpUse, ReaderSettlesUse, ReaderRecordsUse DEF Reader

LEMMA NextUse ==
    ASSUME UseInv, [Next]_vars
    PROVE  UseInv' /\ UseSteps
  <1>1. CASE UNCHANGED vars
    <2>1. UNCHANGED <<tickets, issued, session, handler, reader>>
      BY <1>1 DEF vars
    <2>2. UseTypes' /\ SessionInv'
      BY <2>1 DEF UseInv, UseTypes, SessionInv, SessionOK
    <2> QED
      BY <2>1, <2>2, Bystander
  <1>2. CASE Next
    BY <1>2, IssueUse, RefuseUse, RedeemUse, StartFailsUse, LapseUse, LoopUse, ReaderUse
    DEF Next
  <1> QED
    BY <1>1, <1>2

(* A ticket is held by one session at a time and used up once, for any     *)
(* number of tokens, sessions and places in the stores, also when a        *)
(* ticket is evicted, a thread does not start, a bind is lost, the budget  *)
(* timer strikes or the reader meets an unexpected exception.              *)
THEOREM TicketsUsedOnce == Spec => ImplementsTicketUse
  <1>1. Init => UseInv /\ Use!Init
    BY InitUse
  <1>2. UseInv /\ [Next]_vars => UseInv' /\ Use!Next
    BY NextUse, UseStepsRefine
  <1> QED
    BY <1>1, <1>2, PTL DEF Spec, ImplementsTicketUse, Use!Spec
-----------------------------------------------------------------------------
Unreleased == {s \in Session : handler[s] # "idle" /\ ~session[s].released}
Reading == {s \in Session : reader[s] \notin {"off", "over"}}

Kinds == {"Diverged", "Finished", "Abandoned"}
Item == [kind : {"Data"}, index : Nat] \union [kind : Kinds, index : {0}]
Pipe == [items : Seq(Item), next : Nat \ {0}, credits : Nat,
         ended : BOOLEAN, mirror : BOOLEAN]

(* The members in the queue, and how many were taken out of it.            *)
Members(p) == Len(p.items) - (IF p.ended THEN 1 ELSE 0)
Taken(p) == p.next - 1 - Members(p)

(* What session x, its handler at h, its reader at r and its transport p   *)
(* have to do with each other.                                             *)
PlanOK(x, h, r) ==
    /\ x.size \in 0..MaxItems
    /\ h = "idle" => x.plan = "none"
    /\ r \in {"off", "preflight"} => x.plan = "none"
    /\ r \in {"streaming", "settling", "recording"} => x.plan = "ready"
    /\ h \in {"planned", "responding", "frame", "sending", "taking", "whole", "finished"} =>
         x.plan = "ready"
    /\ x.plan # "ready" => x.sent = 0

FramesOK(x, h) ==
    /\ x.sent \in 0..x.size + 2
    /\ h \in {"idle", "planning", "planned", "responding"} => x.sent = 0
    /\ h = "frame" => x.sent \in 1..x.size + 1
    /\ h = "sending" => x.sent \in 0..x.size + 1
    /\ h = "taking" => x.sent \in 1..x.size
    /\ h \in {"whole", "finished"} => x.sent = x.size + 2

(* The queue holds the members after those taken, in order, then at most   *)
(* one ending; every member in it costs a credit.                          *)
PipeOK(x, r, p) ==
    /\ Members(p) \in Nat /\ Taken(p) \in Nat
    /\ Members(p) + p.credits = Credits
    /\ p.next <= x.size + 1
    /\ x.plan # "ready" => p = [EmptyPipe EXCEPT !.mirror = p.mirror]
    /\ p.ended => r \in {"settling", "recording", "over"}
    /\ \A i \in 1..Members(p) : p.items[i] = Data(Taken(p) + i)
    /\ p.ended => /\ p.items[Len(p.items)].kind \in Kinds
                  /\ p.items[Len(p.items)].kind = "Finished" => p.next > x.size

(* The response has taken the members it has sent, and the one it sends.   *)
TakenOK(x, h, p) ==
    /\ h \in {"idle", "planning", "planned", "responding"} => Taken(p) = 0
    /\ h = "taking" => Taken(p) = x.sent - 1
    /\ h \in {"frame", "sending"} => Taken(p) = IF x.sent > x.size THEN x.size ELSE x.sent
    /\ h \in {"whole", "finished"} => Taken(p) = x.size

EndOK(x, h) ==
    /\ x.released => x.outcome # "none"
    /\ h = "finished" => x.outcome = "Completed" /\ x.released
    /\ x.outcome = "FailedFraming" => x.plan = "failed"

Flow(x, h, r, p) ==
    PlanOK(x, h, r) /\ FramesOK(x, h) /\ PipeOK(x, r, p) /\ TakenOK(x, h, p) /\ EndOK(x, h)

FlowInv ==
    /\ pipe \in [Session -> Pipe]
    /\ \A s \in Session : Flow(session[s], handler[s], reader[s], pipe[s])
-----------------------------------------------------------------------------
LEMMA MembersIn ==
    ASSUME NEW p \in Pipe
    PROVE  /\ Len(p.items) \in Nat /\ p.ended \in BOOLEAN
           /\ p.ended => Members(p) = Len(p.items) - 1
           /\ ~p.ended => Members(p) = Len(p.items)
           /\ Members(p) \in Int
  <1>1. p.items \in Seq(Item) /\ p.ended \in BOOLEAN
    BY DEF Pipe
  <1>2. Len(p.items) \in Nat
    BY <1>1
  <1>3. CASE p.ended
    BY <1>1, <1>2, <1>3 DEF Members
  <1>4. CASE ~p.ended
    BY <1>1, <1>2, <1>4 DEF Members
  <1> QED
    BY <1>1, <1>2, <1>3, <1>4

(* Where a handler goes, the session and the pipe unchanged.               *)
LEMMA HandlerFlow ==
    ASSUME NEW x \in SessionType, NEW h \in Places, NEW r \in ReaderPlaces, NEW p \in Pipe,
           NEW g \in Places, Flow(x, h, r, p),
           \/ g \in {h, "over"}
           \/ h = "planning" /\ g = "planned" /\ x.plan = "ready"
           \/ h = "planned" /\ g = "responding"
           \/ h \in {"responding", "frame"} /\ g = "sending"
           \/ h = "whole" /\ g = "finished" /\ x.outcome = "Completed" /\ x.released
    PROVE  Flow(x, g, r, p)
  <1>1. x.size \in Nat /\ x.sent \in Nat /\ p.next \in Nat \ {0}
    BY DEF SessionType, Pipe
  <1>2. PlanOK(x, g, r) /\ EndOK(x, g)
    BY DEF Flow, PlanOK, EndOK
  <1>3. FramesOK(x, g)
    BY <1>1 DEF Flow, FramesOK
  <1>4. TakenOK(x, g, p)
    BY <1>1, <1>3 DEF Flow, TakenOK, FramesOK
  <1> QED
    BY <1>2, <1>3, <1>4 DEF Flow

(* How a session is released or done, whoever does it.                     *)
LEMMA OutcomeFlow ==
    ASSUME NEW x \in SessionType, NEW h \in Places, NEW r \in ReaderPlaces, NEW p \in Pipe,
           NEW y \in SessionType, Flow(x, h, r, p),
           y.plan = x.plan, y.size = x.size, y.sent = x.sent,
           x.outcome = y.outcome \/ x.outcome = "none",
           x.released => y.released,
           y.released => y.outcome # "none",
           y.outcome = "FailedFraming" => x.plan = "failed"
    PROVE  Flow(y, h, r, p)
  <1>1. PlanOK(y, h, r) /\ FramesOK(y, h) /\ PipeOK(y, r, p) /\ TakenOK(y, h, p)
    BY DEF Flow, PlanOK, FramesOK, PipeOK, TakenOK
  <1>2. EndOK(y, h)
    BY DEF Flow, EndOK
  <1> QED
    BY <1>1, <1>2 DEF Flow

(* A frame is counted.                                                     *)
LEMMA SentFlow ==
    ASSUME NEW x \in SessionType, NEW r \in ReaderPlaces, NEW p \in Pipe,
           NEW y \in SessionType, NEW g \in Places, Flow(x, "sending", r, p),
           y.plan = x.plan, y.size = x.size, y.sent = x.sent + 1,
           y.outcome = x.outcome, y.released = x.released,
           g = CASE x.sent < x.size -> "taking"
                 [] x.sent = x.size -> "frame"
                 [] x.sent > x.size -> "whole"
    PROVE  Flow(y, g, r, p)
  <1>1. x.size \in Nat /\ x.sent \in Nat /\ x.sent <= x.size + 1 /\ x.plan = "ready"
    BY DEF SessionType, Flow, FramesOK, PlanOK
  <1>2. \/ x.sent < x.size /\ g = "taking"
        \/ x.sent = x.size /\ g = "frame"
        \/ x.sent = x.size + 1 /\ g = "whole"
    BY <1>1
  <1>3. PlanOK(y, g, r) /\ PipeOK(y, r, p)
    BY <1>1, <1>2 DEF Flow, PlanOK, PipeOK
  <1>4. FramesOK(y, g)
    BY <1>1, <1>2 DEF FramesOK
  <1>5. TakenOK(y, g, p)
    BY <1>1, <1>2 DEF Flow, TakenOK
  <1>6. EndOK(y, g)
    BY <1>2 DEF Flow, EndOK
  <1> QED
    BY <1>3, <1>4, <1>5, <1>6 DEF Flow

(* The head of the queue is the next member, or the ending of a source     *)
(* that moved or was abandoned: never Finished, never another member.      *)
LEMMA HeadInPlace ==
    ASSUME NEW x \in SessionType, NEW r \in ReaderPlaces, NEW p \in Pipe,
           Flow(x, "taking", r, p), p.items # << >>
    PROVE  \/ Head(p.items) = Data(x.sent) /\ Members(p) > 0
           \/ Head(p.items).kind \in {"Diverged", "Abandoned"} /\ Members(p) = 0
  <1>1. /\ x.size \in Nat /\ x.sent \in Nat /\ x.sent <= x.size /\ p.next \in Nat \ {0}
        /\ p.items \in Seq(Item) /\ Len(p.items) \in Nat \ {0}
        /\ Head(p.items) = p.items[1] /\ p.ended \in BOOLEAN
    BY DEF SessionType, Flow, FramesOK, Pipe
  <1>2. CASE Members(p) > 0
    <2>1. p.items[1] = Data(Taken(p) + 1) /\ Taken(p) = x.sent - 1
      BY <1>1, <1>2 DEF Flow, PipeOK, TakenOK
    <2> QED
      BY <1>1, <1>2, <2>1
  <1>3. CASE Members(p) = 0
    <2>1. p.ended /\ Len(p.items) = 1
      <3>1. CASE ~p.ended
        BY <1>1, <1>3, <3>1, MembersIn
      <3>2. CASE p.ended
        <4>1. Members(p) = Len(p.items) - 1
          BY <3>2, MembersIn
        <4>2. Len(p.items) \in Nat
          BY MembersIn
        <4>3. Len(p.items) = 1
          BY <4>1, <4>2, <1>3
        <4> QED
          BY <3>2, <4>3
      <3> QED
        BY <3>1, <3>2
    <2>2. p.next <= x.size
      BY <1>1, <1>3 DEF Flow, TakenOK, Taken
    <2>3. Head(p.items).kind \in Kinds /\ Head(p.items).kind # "Finished"
      BY <1>1, <2>1, <2>2 DEF Flow, PipeOK
    <2> QED
      BY <1>3, <2>3 DEF Kinds
  <1>4. Members(p) \in Nat
    BY DEF Flow, PipeOK
  <1> QED
    BY <1>2, <1>3, <1>4

LEMMA TakeFlow ==
    ASSUME NEW x \in SessionType, NEW r \in ReaderPlaces, NEW p \in Pipe,
           Flow(x, "taking", r, p), p.items # << >>, Head(p.items) = Data(x.sent)
    PROVE  LET q == [p EXCEPT !.items = Tail(@), !.credits = @ + 1] IN
           q \in Pipe /\ Flow(x, "frame", r, q)
  <1> DEFINE q == [p EXCEPT !.items = Tail(@), !.credits = @ + 1]
  <1>1. /\ x.size \in Nat /\ x.sent \in Nat /\ x.sent \in 1..x.size /\ p.next \in Nat \ {0}
        /\ p.items \in Seq(Item) /\ Len(p.items) \in Nat \ {0} /\ p.credits \in Nat
        /\ p.ended \in BOOLEAN /\ p.mirror \in BOOLEAN /\ x.plan = "ready"
    BY DEF SessionType, Flow, FramesOK, PlanOK, Pipe
  <1>2. Members(p) \in Nat \ {0} /\ (p.ended => Len(p.items) > 1)
    <2>1. Members(p) > 0
      BY HeadInPlace DEF Data, Kinds
    <2> QED
      BY <1>1, <2>1, MembersIn
  <1>3. /\ q \in Pipe /\ q.items = Tail(p.items) /\ q.credits = p.credits + 1
        /\ q.next = p.next /\ q.ended = p.ended /\ q.mirror = p.mirror
    <2>1. Tail(p.items) \in Seq(Item)
      BY <1>1
    <2>2. p.credits + 1 \in Nat
      BY <1>1
    <2>3. q = [p EXCEPT !.items = Tail(p.items), !.credits = p.credits + 1]
      OBVIOUS
    <2> QED
      BY <1>1, <2>1, <2>2, <2>3 DEF Pipe
  <1> HIDE DEF q
  <1>4. /\ Len(q.items) = Len(p.items) - 1
        /\ \A i \in 1..Len(q.items) : q.items[i] = p.items[i + 1]
    BY <1>1, <1>3
  <1>5. Members(q) = Members(p) - 1 /\ Taken(q) = Taken(p) + 1
    <2>1. Members(q) = Members(p) - 1
      <3>1. CASE p.ended
        BY <1>1, <1>3, <1>4, <3>1, MembersIn
      <3>2. CASE ~p.ended
        BY <1>1, <1>3, <1>4, <3>2, MembersIn
      <3> QED
        BY <3>1, <3>2
    <2> QED
      BY <1>1, <1>2, <1>3, <2>1 DEF Taken
  <1>6. \A i \in 1..Members(q) : q.items[i] = Data(Taken(q) + i)
    <2> SUFFICES ASSUME NEW i \in 1..Members(q)
                 PROVE  q.items[i] = Data(Taken(q) + i)
      OBVIOUS
    <2>1. i + 1 \in 1..Members(p) /\ i \in 1..Len(q.items)
      BY <1>1, <1>2, <1>3, <1>4, <1>5 DEF Members
    <2>2. q.items[i] = Data(Taken(p) + (i + 1))
      BY <1>4, <2>1 DEF Flow, PipeOK
    <2>3. Taken(p) \in Nat
      BY DEF Flow, PipeOK
    <2>4. Taken(p) + (i + 1) = Taken(q) + i
      BY <1>5, <2>1, <2>3
    <2> QED
      BY <2>2, <2>4
  <1>7. q.ended => q.items[Len(q.items)] = p.items[Len(p.items)]
    BY <1>1, <1>2, <1>3, <1>4
  <1>8. PipeOK(x, r, q)
    <2>1. /\ Taken(p) \in Nat /\ Members(p) + p.credits = Credits /\ p.next <= x.size + 1
          /\ p.ended => /\ r \in {"settling", "recording", "over"}
                        /\ p.items[Len(p.items)].kind \in Kinds
                        /\ p.items[Len(p.items)].kind = "Finished" => p.next > x.size
      BY DEF Flow, PipeOK
    <2>2. Members(q) \in Nat /\ Taken(q) \in Nat /\ Members(q) + q.credits = Credits
      <3>1. Members(p) \in Nat \ {0} /\ p.credits \in Nat
        BY <1>1, <1>2
      <3>2. Members(q) \in Nat /\ Taken(q) \in Nat
        BY <1>5, <2>1, <3>1
      <3>3. Members(p) - 1 + (p.credits + 1) = Members(p) + p.credits
        BY <3>1
      <3> QED
        BY <1>3, <1>5, <2>1, <3>2, <3>3
    <2> QED
      BY <1>1, <1>3, <1>6, <1>7, <2>1, <2>2 DEF PipeOK
  <1>9. TakenOK(x, "frame", q)
    BY <1>1, <1>5 DEF Flow, TakenOK
  <1>10. PlanOK(x, "frame", r) /\ FramesOK(x, "frame") /\ EndOK(x, "frame")
    BY <1>1 DEF Flow, PlanOK, FramesOK, EndOK
  <1> QED
    BY <1>3, <1>8, <1>9, <1>10 DEF Flow, q

LEMMA MirrorFlow ==
    ASSUME NEW x \in SessionType, NEW h \in Places, NEW r \in ReaderPlaces, NEW p \in Pipe,
           Flow(x, h, r, p)
    PROVE  LET q == [p EXCEPT !.mirror = TRUE] IN q \in Pipe /\ Flow(x, h, r, q)
  <1> DEFINE q == [p EXCEPT !.mirror = TRUE]
  <1>1. /\ q \in Pipe /\ q.items = p.items /\ q.credits = p.credits
        /\ q.next = p.next /\ q.ended = p.ended /\ q.mirror
    BY DEF Pipe
  <1>2. x.plan # "ready" => q = [EmptyPipe EXCEPT !.mirror = q.mirror]
    BY <1>1 DEF Flow, PipeOK, EmptyPipe
  <1> HIDE DEF q
  <1>3. Members(q) = Members(p) /\ Taken(q) = Taken(p)
    BY <1>1 DEF Members, Taken
  <1>4. PipeOK(x, r, q)
    BY <1>1, <1>2, <1>3 DEF Flow, PipeOK
  <1>5. TakenOK(x, h, q)
    BY <1>3 DEF Flow, TakenOK
  <1> QED
    BY <1>1, <1>4, <1>5 DEF Flow, q

LEMMA ReadFlow ==
    ASSUME NEW x \in SessionType, NEW h \in Places, NEW p \in Pipe,
           Flow(x, h, "streaming", p), p.next <= x.size, p.credits > 0
    PROVE  LET q == [p EXCEPT !.items = Append(@, Data(p.next)),
                              !.next = @ + 1, !.credits = @ - 1] IN
           q \in Pipe /\ Flow(x, h, "streaming", q)
  <1> DEFINE q == [p EXCEPT !.items = Append(@, Data(p.next)),
                            !.next = @ + 1, !.credits = @ - 1]
  <1>1. /\ x.size \in Nat /\ p.next \in Nat \ {0} /\ p.items \in Seq(Item)
        /\ Len(p.items) \in Nat /\ p.credits \in Nat \ {0} /\ p.ended \in BOOLEAN
        /\ p.mirror \in BOOLEAN
    BY DEF SessionType, Pipe
  <1>2. x.plan = "ready" /\ ~p.ended /\ Members(p) = Len(p.items)
    BY <1>1, MembersIn DEF Flow, PlanOK, PipeOK
  <1>3. /\ q \in Pipe /\ q.items = Append(p.items, Data(p.next)) /\ q.credits = p.credits - 1
        /\ q.next = p.next + 1 /\ q.ended = p.ended
    <2>1. Data(p.next) \in Item
      BY <1>1 DEF Data, Item
    <2>2. Append(p.items, Data(p.next)) \in Seq(Item)
      BY <1>1, <2>1
    <2>3. p.credits - 1 \in Nat /\ p.next + 1 \in Nat \ {0}
      BY <1>1
    <2>4. q = [p EXCEPT !.items = Append(p.items, Data(p.next)),
                        !.next = p.next + 1, !.credits = p.credits - 1]
      OBVIOUS
    <2> QED
      BY <1>1, <2>2, <2>3, <2>4 DEF Pipe
  <1> HIDE DEF q
  <1>4. /\ Len(q.items) = Len(p.items) + 1
        /\ \A i \in 1..Len(p.items) : q.items[i] = p.items[i]
        /\ q.items[Len(q.items)] = Data(p.next)
    BY <1>1, <1>3
  <1>5. /\ Members(q) = Len(q.items) /\ Members(q) = Members(p) + 1
        /\ Taken(q) = Taken(p)
    <2>1. Members(q) = Len(q.items)
      BY <1>2, <1>3, MembersIn
    <2> QED
      BY <1>1, <1>2, <1>3, <1>4, <2>1 DEF Taken
  <1>6. /\ Taken(p) \in Nat /\ Members(p) + p.credits = Credits
        /\ \A i \in 1..Members(p) : p.items[i] = Data(Taken(p) + i)
    BY DEF Flow, PipeOK
  <1>7. \A i \in 1..Members(q) : q.items[i] = Data(Taken(q) + i)
    <2> SUFFICES ASSUME NEW i \in 1..Members(q)
                 PROVE  q.items[i] = Data(Taken(q) + i)
      OBVIOUS
    <2>1. CASE i = Members(q)
      <3>1. Taken(q) + i = p.next
        BY <1>1, <1>2, <1>5, <2>1 DEF Taken
      <3> QED
        BY <1>4, <1>5, <2>1, <3>1
    <2>2. CASE i # Members(q)
      <3>1. i \in 1..Members(p)
        BY <1>1, <1>2, <1>5, <2>2
      <3> QED
        BY <1>2, <1>4, <1>5, <1>6, <3>1
    <2> QED
      BY <2>1, <2>2
  <1>8. PipeOK(x, "streaming", q)
    <2>1. Members(q) \in Nat /\ Taken(q) \in Nat
      BY <1>1, <1>2, <1>5, <1>6
    <2>2. Members(q) + q.credits = Credits
      BY <1>1, <1>2, <1>3, <1>5, <1>6
    <2>3. q.next <= x.size + 1
      BY <1>1, <1>3
    <2> QED
      BY <1>2, <1>3, <1>7, <2>1, <2>2, <2>3 DEF PipeOK
  <1>9. TakenOK(x, h, q)
    BY <1>5 DEF Flow, TakenOK
  <1> QED
    BY <1>3, <1>8, <1>9 DEF Flow, q

(* The reader leaves its loop with an ending, and moves on.                *)
LEMMA PublishFlow ==
    ASSUME NEW x \in SessionType, NEW h \in Places, NEW p \in Pipe, NEW kind \in Kinds,
           NEW r \in {"over", "settling"}, Flow(x, h, "streaming", p),
           kind = "Finished" => p.next > x.size
    PROVE  Publish(p, kind) \in Pipe /\ Flow(x, h, r, Publish(p, kind))
  <1> DEFINE q == [p EXCEPT !.items = Append(@, Ending(kind)), !.ended = TRUE]
  <1>1. /\ x.size \in Nat /\ p.next \in Nat \ {0} /\ p.items \in Seq(Item)
        /\ Len(p.items) \in Nat /\ p.credits \in Nat /\ p.ended \in BOOLEAN
        /\ p.mirror \in BOOLEAN
    BY DEF SessionType, Pipe
  <1>2. x.plan = "ready" /\ ~p.ended /\ Members(p) = Len(p.items)
    BY <1>1, MembersIn DEF Flow, PlanOK, PipeOK
  <1>3. Publish(p, kind) = q
    BY <1>2 DEF Publish
  <1>4. /\ q \in Pipe /\ q.items = Append(p.items, Ending(kind)) /\ q.credits = p.credits
        /\ q.next = p.next /\ q.ended
    <2>1. Ending(kind) \in Item
      BY <1>1 DEF Ending, Item
    <2>2. Append(p.items, Ending(kind)) \in Seq(Item)
      BY <1>1, <2>1
    <2>3. q = [p EXCEPT !.items = Append(p.items, Ending(kind)), !.ended = TRUE]
      OBVIOUS
    <2> QED
      BY <1>1, <2>2, <2>3 DEF Pipe
  <1> HIDE DEF q
  <1>5. /\ Len(q.items) = Len(p.items) + 1
        /\ \A i \in 1..Len(p.items) : q.items[i] = p.items[i]
        /\ q.items[Len(q.items)] = Ending(kind)
    BY <1>1, <1>4
  <1>6. Members(q) = Members(p) /\ Taken(q) = Taken(p)
    <2>1. Members(q) = Len(q.items) - 1
      BY <1>4, MembersIn
    <2> QED
      BY <1>1, <1>2, <1>4, <1>5, <2>1 DEF Taken
  <1>7. PipeOK(x, r, q)
    <2>1. \A i \in 1..Members(q) : q.items[i] = Data(Taken(q) + i)
      BY <1>2, <1>5, <1>6 DEF Flow, PipeOK
    <2>2. /\ Members(q) \in Nat /\ Taken(q) \in Nat /\ Members(q) + q.credits = Credits
          /\ q.next <= x.size + 1
      BY <1>4, <1>6 DEF Flow, PipeOK
    <2>3. /\ q.items[Len(q.items)].kind = kind
      BY <1>5 DEF Ending
    <2> QED
      BY <1>2, <1>4, <2>1, <2>2, <2>3 DEF PipeOK
  <1>8. PlanOK(x, h, r) /\ FramesOK(x, h) /\ EndOK(x, h) /\ TakenOK(x, h, q)
    BY <1>2, <1>6 DEF Flow, PlanOK, TakenOK
  <1> QED
    BY <1>3, <1>4, <1>7, <1>8 DEF Flow

(* The reader moves on after its loop, or leaves before it.                *)
LEMMA ReaderFlow ==
    ASSUME NEW x \in SessionType, NEW h \in Places, NEW r \in ReaderPlaces, NEW p \in Pipe,
           NEW g \in ReaderPlaces, Flow(x, h, r, p),
           \/ r = "off" /\ g = "preflight"
           \/ r = "preflight" /\ g = "over"
           \/ r = "settling" /\ g = "recording"
           \/ r = "recording" /\ g = "over"
    PROVE  Flow(x, h, g, p)
  <1>1. PlanOK(x, h, g)
    BY DEF Flow, PlanOK
  <1>2. p.ended \in BOOLEAN
    BY DEF Pipe
  <1>3. PipeOK(x, g, p)
    <2>1. CASE x.plan # "ready"
      <3>1. p = [EmptyPipe EXCEPT !.mirror = p.mirror]
        BY <2>1 DEF Flow, PipeOK
      <3>2. ~p.ended
        BY <3>1 DEF EmptyPipe
      <3> QED
        BY <3>2 DEF Flow, PipeOK
    <2>2. CASE x.plan = "ready"
      BY <2>2 DEF Flow, PipeOK, PlanOK
    <2> QED
      BY <2>1, <2>2
  <1> QED
    BY <1>1, <1>3 DEF Flow

(* A plan for n files, or none.                                            *)
LEMMA PreflightFlow ==
    ASSUME NEW x \in SessionType, NEW h \in Places, NEW p \in Pipe, NEW y \in SessionType,
           NEW n \in 0..MaxItems, NEW g \in {"streaming", "over"},
           Flow(x, h, "preflight", p), h # "idle",
           y.plan \in {"ready", "refused", "failed"}, g = "streaming" => y.plan = "ready",
           y.size = n, y.sent = x.sent, y.outcome = x.outcome, y.released = x.released
    PROVE  Flow(y, h, g, p)
  <1>1. x.plan = "none" /\ x.sent = 0 /\ n \in Nat /\ Credits \in Nat
    BY ArchiveAssumption DEF Flow, PlanOK
  <1>2. PlanOK(y, h, g) /\ EndOK(y, h)
    BY <1>1 DEF Flow, PlanOK, EndOK
  <1>3. FramesOK(y, h)
    BY <1>1 DEF Flow, FramesOK, PlanOK
  <1>4. p = [EmptyPipe EXCEPT !.mirror = p.mirror]
    BY <1>1 DEF Flow, PipeOK
  <1>5. /\ p.items = << >> /\ p.next = 1 /\ p.credits = Credits /\ ~p.ended
    BY <1>4 DEF EmptyPipe
  <1>6. Members(p) = 0 /\ Taken(p) = 0
    <2>1. Len(p.items) = 0
      BY <1>5
    <2>2. Members(p) = 0
      BY <1>5, <2>1, MembersIn
    <2> QED
      BY <1>5, <2>2 DEF Taken
  <1>7. PipeOK(y, g, p)
    BY <1>1, <1>4, <1>5, <1>6 DEF PipeOK
  <1>8. TakenOK(y, h, p)
    BY <1>1, <1>6 DEF Flow, TakenOK, PlanOK
  <1> QED
    BY <1>2, <1>3, <1>7, <1>8 DEF Flow
-----------------------------------------------------------------------------
(* A step that leaves every session but s alone.                           *)
Elsewhere(s) ==
    \A r \in Session \ {s} :
      /\ session'[r] = session[r] /\ handler'[r] = handler[r]
      /\ reader'[r] = reader[r] /\ pipe'[r] = pipe[r]

(* A session with what a release, a start or a plan writes left as it was. *)
SamePlan(x, y) == y.plan = x.plan /\ y.size = x.size /\ y.sent = x.sent
SameEnd(x, y) ==
    y.outcome = x.outcome /\ y.released = x.released /\ y.cancel = x.cancel /\ y.done = x.done

LEMMA RedeemShape ==
    ASSUME UseTypes, NEW s \in Session, NEW t \in Token, NEW local, Redeem(s, t, local)
    PROVE  /\ Elsewhere(s) /\ session'[s] \in SessionType /\ session'[s].token = t
           /\ SamePlan(session[s], session'[s]) /\ SameEnd(session[s], session'[s])
           /\ handler[s] = "idle" /\ handler'[s] = "planning" /\ reader'[s] = "preflight"
           /\ pipe' = pipe
  <1> DEFINE y == [session[s] EXCEPT !.token = t]
  <1>1. /\ session \in [Session -> SessionType] /\ session[s] \in SessionType
        /\ handler \in [Session -> Places] /\ reader \in [Session -> ReaderPlaces]
    BY DEF UseTypes
  <1>2. y \in SessionType /\ y.token = t /\ SamePlan(session[s], y) /\ SameEnd(session[s], y)
    BY <1>1 DEF SessionType, SamePlan, SameEnd
  <1>3. session' = [session EXCEPT ![s] = y]
    BY <1>1 DEF Redeem
  <1>4. /\ handler[s] = "idle" /\ handler' = [handler EXCEPT ![s] = "planning"]
        /\ reader' = [reader EXCEPT ![s] = "preflight"] /\ pipe' = pipe
    BY DEF Redeem
  <1> HIDE DEF y
  <1> QED
    BY <1>1, <1>2, <1>3, <1>4 DEF Elsewhere

LEMMA StartFailsShape ==
    ASSUME UseTypes, NEW s \in Session, NEW t \in Token, NEW local, StartFails(s, t, local)
    PROVE  /\ Elsewhere(s) /\ session'[s] \in SessionType /\ session'[s].token = t
           /\ SamePlan(session[s], session'[s]) /\ session'[s].outcome = "FailedStart"
           /\ session'[s].released /\ session'[s].done
           /\ handler[s] = "idle" /\ handler'[s] = "over"
           /\ reader' = reader /\ pipe' = pipe
  <1> DEFINE y == [session[s] EXCEPT !.token = t, !.outcome = "FailedStart",
                     !.released = TRUE, !.cancel = TRUE, !.done = TRUE]
  <1>1. /\ session \in [Session -> SessionType] /\ session[s] \in SessionType
        /\ handler \in [Session -> Places]
    BY DEF UseTypes
  <1>2. /\ y \in SessionType /\ y.token = t /\ SamePlan(session[s], y)
        /\ y.outcome = "FailedStart" /\ y.released /\ y.done
    BY <1>1 DEF SessionType, SamePlan, Outcomes
  <1>3. session' = [session EXCEPT ![s] = y]
    BY <1>1 DEF StartFails
  <1>4. /\ handler[s] = "idle" /\ handler' = [handler EXCEPT ![s] = "over"]
        /\ reader' = reader /\ pipe' = pipe
    BY DEF StartFails
  <1> HIDE DEF y
  <1> QED
    BY <1>1, <1>2, <1>3, <1>4 DEF Elsewhere

LEMMA ReleaseShape ==
    ASSUME UseTypes, NEW s \in Session, NEW why \in Outcomes, NEW next \in Places,
           Release(s, why, next), UNCHANGED <<issued, reader, pipe>>
    PROVE  /\ Elsewhere(s) /\ session'[s] \in SessionType /\ handler'[s] = next
           /\ session'[s].token = session[s].token /\ SamePlan(session[s], session'[s])
           /\ session[s].released => session' = session /\ UNCHANGED <<tickets, status, permits>>
           /\ ~session[s].released =>
                /\ session'[s].outcome = Outcome(s, why) /\ session'[s].released
                /\ session'[s].cancel /\ session'[s].done
                /\ permits' = [permits EXCEPT !.inUse = @ - 1]
                /\ tickets' = SettleTicket(tickets, session[s].token, s, session[s].sent)
                /\ status' = RecordStatus(status, session[s].token,
                               Terminal(s, Outcome(s, why)))
  <1>1. /\ session \in [Session -> SessionType] /\ session[s] \in SessionType
        /\ handler \in [Session -> Places] /\ handler' = [handler EXCEPT ![s] = next]
        /\ session[s].released \in BOOLEAN
    BY DEF UseTypes, Release, SessionType
  <1>2. CASE session[s].released
    <2>1. session' = session /\ UNCHANGED <<tickets, status, permits>>
      BY <1>2 DEF Release
    <2> QED
      BY <1>1, <1>2, <2>1 DEF Elsewhere, SamePlan
  <1>3. CASE ~session[s].released
    <2> DEFINE o == Outcome(s, why)
               y == [session[s] EXCEPT !.outcome = o, !.released = TRUE,
                       !.cancel = TRUE, !.done = TRUE]
    <2>1. o \in Outcomes
      BY <1>1 DEF Outcome, SessionType
    <2> HIDE DEF o
    <2>2. /\ y \in SessionType /\ y.token = session[s].token /\ SamePlan(session[s], y)
          /\ y.outcome = o /\ y.released /\ y.cancel /\ y.done
      BY <1>1, <2>1 DEF SessionType, SamePlan
    <2>3. /\ session' = [session EXCEPT ![s].outcome = o, ![s].released = TRUE,
                           ![s].cancel = TRUE, ![s].done = TRUE]
          /\ permits' = [permits EXCEPT !.inUse = @ - 1]
          /\ tickets' = SettleTicket(tickets, session[s].token, s, session[s].sent)
          /\ status' = RecordStatus(status, session[s].token, Terminal(s, o))
      BY <1>3 DEF Release, o
    <2>4. session' = [session EXCEPT ![s] = y]
      BY <1>1, <2>3
    <2> HIDE DEF y
    <2>5. session'[s] = y /\ \A r \in Session \ {s} : session'[r] = session[r]
      BY <1>1, <2>4
    <2>6. Elsewhere(s) /\ handler'[s] = next
      BY <1>1, <2>5 DEF Elsewhere
    <2> QED
      BY <1>3, <2>2, <2>3, <2>5, <2>6 DEF o
  <1> QED
    BY <1>2, <1>3

LEMMA FrameSentShape ==
    ASSUME UseTypes, NEW s \in Session, FrameSent(s)
    PROVE  /\ Elsewhere(s) /\ session'[s] \in SessionType
           /\ session'[s].token = session[s].token /\ SameEnd(session[s], session'[s])
           /\ session'[s].plan = session[s].plan /\ session'[s].size = session[s].size
           /\ session'[s].sent = session[s].sent + 1
           /\ handler[s] = "sending" /\ handler'[s] \in {"taking", "frame", "whole"}
           /\ handler'[s] = CASE session[s].sent < session[s].size -> "taking"
                              [] session[s].sent = session[s].size -> "frame"
                              [] session[s].sent > session[s].size -> "whole"
           /\ UNCHANGED <<tickets, issued, status, permits, reader, pipe>>
  <1> DEFINE y == [session[s] EXCEPT !.sent = @ + 1]
             g == CASE session[s].sent < session[s].size -> "taking"
                    [] session[s].sent = session[s].size -> "frame"
                    [] session[s].sent > session[s].size -> "whole"
  <1>1. /\ session \in [Session -> SessionType] /\ session[s] \in SessionType
        /\ handler \in [Session -> Places]
        /\ session[s].sent \in Nat /\ session[s].size \in Nat
    BY DEF UseTypes, SessionType
  <1>2. /\ y \in SessionType /\ y.token = session[s].token /\ SameEnd(session[s], y)
        /\ y.plan = session[s].plan /\ y.size = session[s].size
        /\ y.sent = session[s].sent + 1
    BY <1>1 DEF SessionType, SameEnd
  <1>3. g \in {"taking", "frame", "whole"}
    BY <1>1
  <1>4. /\ session' = [session EXCEPT ![s] = y] /\ handler' = [handler EXCEPT ![s] = g]
        /\ handler[s] = "sending"
        /\ UNCHANGED <<tickets, issued, status, permits, reader, pipe>>
    BY <1>1 DEF FrameSent
  <1> HIDE DEF y, g
  <1>5. session'[s] = y /\ handler'[s] = g /\ Elsewhere(s)
    BY <1>1, <1>4 DEF Elsewhere
  <1> QED
    BY <1>2, <1>3, <1>4, <1>5 DEF g

LEMMA PreflightShape ==
    ASSUME UseTypes, NEW s \in Session, NEW n \in 0..MaxItems,
           NEW result \in {"ready", "refused", "failed"}, Preflight(s, result, n)
    PROVE  /\ Elsewhere(s) /\ session'[s] \in SessionType
           /\ session'[s].token = session[s].token /\ SameEnd(session[s], session'[s])
           /\ session'[s].plan = result /\ session'[s].size = n
           /\ session'[s].sent = session[s].sent
           /\ reader[s] = "preflight" /\ ~session[s].cancel
           /\ IF result = "ready"
              THEN reader'[s] = "streaming" /\ permits' = permits
              ELSE /\ reader'[s] = "over"
                   /\ permits' = [permits EXCEPT !.readers = @ - 1]
           /\ UNCHANGED <<tickets, issued, status, handler, pipe>>
  <1> DEFINE y == [session[s] EXCEPT !.plan = result, !.size = n]
  <1>1. /\ session \in [Session -> SessionType] /\ session[s] \in SessionType
        /\ reader \in [Session -> ReaderPlaces] /\ n \in Nat
    BY ArchiveAssumption DEF UseTypes
  <1>2. /\ y \in SessionType /\ y.token = session[s].token /\ SameEnd(session[s], y)
        /\ y.plan = result /\ y.size = n /\ y.sent = session[s].sent
    BY <1>1 DEF SessionType, SameEnd
  <1>3. /\ session' = [session EXCEPT ![s] = y]
        /\ UNCHANGED <<tickets, issued, status, handler, pipe>>
        /\ reader[s] = "preflight" /\ ~session[s].cancel
    BY <1>1 DEF Preflight
  <1>4. IF result = "ready"
        THEN reader' = [reader EXCEPT ![s] = "streaming"] /\ permits' = permits
        ELSE /\ reader' = [reader EXCEPT ![s] = "over"]
             /\ permits' = [permits EXCEPT !.readers = @ - 1]
    BY DEF Preflight, ReaderEnds
  <1> HIDE DEF y
  <1>5. session'[s] = y /\ Elsewhere(s)
    BY <1>1, <1>3, <1>4 DEF Elsewhere
  <1> QED
    BY <1>1, <1>2, <1>3, <1>4, <1>5

LEMMA GivesUpShape ==
    ASSUME UseTypes, pipe \in [Session -> Pipe], NEW s \in Session, ReaderGivesUp(s)
    PROVE  /\ Elsewhere(s) /\ session'[s] \in SessionType
           /\ session'[s].token = session[s].token /\ SamePlan(session[s], session'[s])
           /\ session'[s].outcome = Outcome(s, "AbandonedStall")
           /\ session'[s].outcome \in Outcomes \ {"none"}
           /\ session'[s].released /\ session'[s].done = session[s].done
           /\ reader[s] = "streaming" /\ ~session[s].cancel /\ reader'[s] = "settling"
           /\ permits' = [permits EXCEPT !.inUse = @ - 1]
           /\ UNCHANGED <<tickets, issued, status, handler>>
  <1> DEFINE o == Outcome(s, "AbandonedStall")
             y == [session[s] EXCEPT !.outcome = o, !.released = TRUE, !.cancel = TRUE]
             p == Publish(pipe[s], "Abandoned")
  <1>1. /\ session \in [Session -> SessionType] /\ session[s] \in SessionType
        /\ reader \in [Session -> ReaderPlaces]
    BY DEF UseTypes
  <1>2. o \in Outcomes \ {"none"}
    BY <1>1 DEF Outcome, SessionType, Outcomes
  <1>3. /\ y \in SessionType /\ y.token = session[s].token /\ SamePlan(session[s], y)
        /\ y.outcome = o /\ y.released /\ y.done = session[s].done
    BY <1>1, <1>2 DEF SessionType, SamePlan
  <1>4. /\ session' = [session EXCEPT ![s] = y]
        /\ reader' = [reader EXCEPT ![s] = "settling"]
        /\ pipe' = [pipe EXCEPT ![s] = p]
        /\ reader[s] = "streaming" /\ ~session[s].cancel
        /\ permits' = [permits EXCEPT !.inUse = @ - 1]
        /\ UNCHANGED <<tickets, issued, status, handler>>
    BY <1>1 DEF ReaderGivesUp
  <1> HIDE DEF y, o, p
  <1>5. session'[s] = y /\ reader'[s] = "settling"
    BY <1>1, <1>4
  <1>6. Elsewhere(s)
    BY <1>1, <1>4 DEF Elsewhere
  <1> QED
    BY <1>2, <1>3, <1>4, <1>5, <1>6 DEF o

LEMMA RecordsShape ==
    ASSUME UseTypes, NEW s \in Session, ReaderRecords(s)
    PROVE  /\ Elsewhere(s) /\ session'[s] \in SessionType
           /\ session'[s].token = session[s].token /\ SamePlan(session[s], session'[s])
           /\ session'[s].outcome = session[s].outcome
           /\ session'[s].released = session[s].released /\ session'[s].done
           /\ reader[s] = "recording" /\ reader'[s] = "over"
           /\ permits' = [permits EXCEPT !.readers = @ - 1]
           /\ UNCHANGED <<tickets, issued, handler, pipe>>
  <1> DEFINE y == [session[s] EXCEPT !.done = TRUE]
  <1>1. /\ session \in [Session -> SessionType] /\ session[s] \in SessionType
        /\ reader \in [Session -> ReaderPlaces]
    BY DEF UseTypes
  <1>2. /\ y \in SessionType /\ y.token = session[s].token /\ SamePlan(session[s], y)
        /\ y.outcome = session[s].outcome /\ y.released = session[s].released /\ y.done
    BY <1>1 DEF SessionType, SamePlan
  <1>3. /\ session' = [session EXCEPT ![s] = y] /\ reader' = [reader EXCEPT ![s] = "over"]
        /\ reader[s] = "recording" /\ permits' = [permits EXCEPT !.readers = @ - 1]
        /\ UNCHANGED <<tickets, issued, handler, pipe>>
    BY <1>1 DEF ReaderRecords, ReaderEnds
  <1> HIDE DEF y
  <1> QED
    BY <1>1, <1>2, <1>3 DEF Elsewhere
-----------------------------------------------------------------------------
LEMMA FlowStep ==
    ASSUME FlowInv, NEW s \in Session, Elsewhere(s), pipe' \in [Session -> Pipe],
           Flow(session'[s], handler'[s], reader'[s], pipe'[s])
    PROVE  FlowInv'
  <1>1. \A r \in Session : Flow(session'[r], handler'[r], reader'[r], pipe'[r])
    BY DEF FlowInv, Elsewhere
  <1> QED
    BY <1>1 DEF FlowInv

LEMMA InitFlow ==
    ASSUME Init
    PROVE  FlowInv
  <1>1. EmptyPipe \in Pipe
    BY ArchiveAssumption DEF EmptyPipe, Pipe
  <1>2. pipe \in [Session -> Pipe]
    BY <1>1 DEF Init
  <1> SUFFICES ASSUME NEW s \in Session
               PROVE  Flow(session[s], handler[s], reader[s], pipe[s])
    BY <1>2 DEF FlowInv
  <1>3. /\ session[s].size = 0 /\ session[s].sent = 0 /\ session[s].plan = "none"
        /\ session[s].outcome = "none" /\ ~session[s].released
        /\ handler[s] = "idle" /\ reader[s] = "off" /\ pipe[s] = EmptyPipe
    BY DEF Init
  <1>4. /\ EmptyPipe.items = << >> /\ Len(EmptyPipe.items) = 0 /\ ~EmptyPipe.ended
        /\ EmptyPipe.next = 1 /\ EmptyPipe.credits = Credits
        /\ EmptyPipe = [EmptyPipe EXCEPT !.mirror = EmptyPipe.mirror]
    BY DEF EmptyPipe
  <1>5. Members(EmptyPipe) = 0
    BY <1>1, <1>4, MembersIn
  <1>6. Taken(EmptyPipe) = 0
    BY <1>4, <1>5 DEF Taken
  <1>7. Credits \in Nat /\ MaxItems \in Nat
    BY ArchiveAssumption
  <1>8. PlanOK(session[s], handler[s], reader[s]) /\ FramesOK(session[s], handler[s])
    BY <1>3, <1>7 DEF PlanOK, FramesOK
  <1>9. PipeOK(session[s], reader[s], pipe[s])
    BY <1>3, <1>4, <1>5, <1>6, <1>7 DEF PipeOK
  <1>10. TakenOK(session[s], handler[s], pipe[s]) /\ EndOK(session[s], handler[s])
    BY <1>3, <1>6 DEF TakenOK, EndOK
  <1> QED
    BY <1>8, <1>9, <1>10 DEF Flow

LEMMA FlowOf ==
    ASSUME UseTypes, FlowInv, NEW s \in Session
    PROVE  /\ session[s] \in SessionType /\ handler[s] \in Places
           /\ reader[s] \in ReaderPlaces /\ pipe[s] \in Pipe
           /\ Flow(session[s], handler[s], reader[s], pipe[s])
  BY DEF UseTypes, FlowInv

(* An admitted session has no plan yet.                                    *)
LEMMA AdmitFlow ==
    ASSUME UseInv, FlowInv, NEW s \in Session, NEW t \in Token, NEW local,
           Redeem(s, t, local) \/ StartFails(s, t, local)
    PROVE  FlowInv'
  <1>1. /\ session[s] \in SessionType /\ pipe[s] \in Pipe /\ reader[s] \in ReaderPlaces
        /\ Flow(session[s], handler[s], reader[s], pipe[s])
    BY FlowOf DEF UseInv
  <1>2. handler[s] = "idle" /\ reader[s] = "off" /\ ~session[s].released
    BY DEF Redeem, StartFails, UseInv, SessionInv, SessionOK
  <1>3. CASE Redeem(s, t, local)
    <2>1. /\ Elsewhere(s) /\ session'[s] \in SessionType
          /\ SamePlan(session[s], session'[s]) /\ SameEnd(session[s], session'[s])
          /\ handler'[s] = "planning" /\ reader'[s] = "preflight" /\ pipe' = pipe
      BY <1>3, RedeemShape DEF UseInv
    <2>2. Flow(session'[s], handler'[s], reader'[s], pipe'[s])
      BY <1>1, <1>2, <2>1
      DEF Flow, PlanOK, FramesOK, PipeOK, TakenOK, EndOK, SamePlan, SameEnd
    <2> QED
      BY <2>1, <2>2, FlowStep DEF FlowInv
  <1>4. CASE StartFails(s, t, local)
    <2>1. /\ Elsewhere(s) /\ session'[s] \in SessionType
          /\ SamePlan(session[s], session'[s]) /\ session'[s].outcome = "FailedStart"
          /\ handler'[s] = "over" /\ reader' = reader /\ pipe' = pipe
      BY <1>4, StartFailsShape DEF UseInv
    <2>2. Flow(session'[s], handler'[s], reader'[s], pipe'[s])
      BY <1>1, <1>2, <2>1
      DEF Flow, PlanOK, FramesOK, PipeOK, TakenOK, EndOK, SamePlan
    <2> QED
      BY <2>1, <2>2, FlowStep DEF FlowInv
  <1> QED
    BY <1>3, <1>4

LEMMA ReleaseFlow ==
    ASSUME UseInv, FlowInv, NEW s \in Session, NEW why \in Outcomes \ {"none"},
           NEW next \in Places, Release(s, why, next), UNCHANGED <<issued, reader, pipe>>,
           why = "FailedFraming" => session[s].plan = "failed",
           \/ next \in {handler[s], "over"}
           \/ next = "finished" /\ handler[s] = "whole" /\ Outcome(s, why) = "Completed"
    PROVE  FlowInv'
  <1> DEFINE x == session[s]
             y == session'[s]
  <1>1. /\ x \in SessionType /\ pipe[s] \in Pipe /\ reader[s] \in ReaderPlaces
        /\ handler[s] \in Places /\ Flow(x, handler[s], reader[s], pipe[s])
    BY FlowOf DEF UseInv
  <1>2. /\ Elsewhere(s) /\ y \in SessionType /\ handler'[s] = next
        /\ SamePlan(x, y) /\ (x.released => y = x)
        /\ ~x.released => y.outcome = Outcome(s, why) /\ y.released
    BY ReleaseShape DEF UseInv
  <1>3. /\ x.released \in BOOLEAN /\ (x.released => x.outcome # "none")
        /\ (x.outcome = "FailedFraming" => x.plan = "failed")
    BY <1>1 DEF SessionType, Flow, EndOK
  <1>4. /\ y.released /\ y.outcome = Outcome(s, why)
    BY <1>2, <1>3 DEF Outcome
  <1>5. /\ x.outcome = y.outcome \/ x.outcome = "none"
        /\ y.outcome # "none"
        /\ y.outcome = "FailedFraming" => x.plan = "failed"
    BY <1>3, <1>4 DEF Outcome
  <1>6. UNCHANGED <<reader, pipe>>
    OBVIOUS
  <1> HIDE DEF x, y
  <1>7. Flow(y, handler[s], reader[s], pipe[s])
    BY <1>1, <1>2, <1>3, <1>4, <1>5, OutcomeFlow DEF SamePlan
  <1>8. Flow(y, next, reader[s], pipe[s])
    BY <1>1, <1>2, <1>4, <1>7, HandlerFlow
  <1> QED
    BY <1>2, <1>6, <1>8, FlowStep DEF FlowInv, y

(* A handler that moves on, and nothing else of the session.               *)
LEMMA MoveFlow ==
    ASSUME UseInv, FlowInv, NEW s \in Session, NEW g \in Places,
           handler' = [handler EXCEPT ![s] = g], UNCHANGED <<session, reader, pipe>>,
           \/ g \in {handler[s], "over"}
           \/ handler[s] = "planning" /\ g = "planned" /\ session[s].plan = "ready"
           \/ handler[s] = "planned" /\ g = "responding"
           \/ handler[s] \in {"responding", "frame"} /\ g = "sending"
    PROVE  FlowInv'
  <1>1. /\ session[s] \in SessionType /\ pipe[s] \in Pipe /\ reader[s] \in ReaderPlaces
        /\ handler[s] \in Places /\ Flow(session[s], handler[s], reader[s], pipe[s])
    BY FlowOf DEF UseInv
  <1>2. Flow(session[s], g, reader[s], pipe[s])
    BY <1>1, HandlerFlow
  <1>3. Elsewhere(s) /\ handler'[s] = g
    BY DEF Elsewhere, UseInv, UseTypes
  <1> QED
    BY <1>2, <1>3, FlowStep DEF FlowInv

LEMMA LoopFlow ==
    ASSUME UseInv, FlowInv, NEW s \in Session,
           Loop(s) \/ BudgetEnds(s) \/ LeavesWhilePlanning(s) \/ NeverStarts(s) \/ FrameLost(s)
    PROVE  FlowInv'
  <1>1. /\ session[s] \in SessionType /\ pipe[s] \in Pipe /\ reader[s] \in ReaderPlaces
        /\ handler[s] \in Places /\ Flow(session[s], handler[s], reader[s], pipe[s])
        /\ pipe \in [Session -> Pipe]
    BY FlowOf DEF UseInv, FlowInv
  <1>2. CASE MirrorSet(s)
    <2> DEFINE q == [pipe[s] EXCEPT !.mirror = TRUE]
    <2>1. pipe' = [pipe EXCEPT ![s] = q] /\ UNCHANGED <<session, handler, reader>>
      BY <1>2 DEF MirrorSet
    <2>2. q \in Pipe /\ Flow(session[s], handler[s], reader[s], q)
      BY <1>1, MirrorFlow
    <2> HIDE DEF q
    <2>3. Elsewhere(s) /\ pipe'[s] = q /\ pipe' \in [Session -> Pipe]
      BY <1>1, <2>1, <2>2 DEF Elsewhere
    <2> QED
      BY <2>1, <2>2, <2>3, FlowStep
  <1>3. CASE PlanReady(s) \/ PlanCancelled(s) \/ Respond(s) \/ BeginFrame(s) \/ NeverStarts(s)
    <2>1. /\ UNCHANGED <<session, reader, pipe>>
          /\ \E g \in Places :
               /\ handler' = [handler EXCEPT ![s] = g]
               /\ \/ g = "over"
                  \/ handler[s] = "planning" /\ g = "planned" /\ session[s].plan = "ready"
                  \/ handler[s] = "planned" /\ g = "responding"
                  \/ handler[s] \in {"responding", "frame"} /\ g = "sending"
      BY <1>3 DEF PlanReady, PlanCancelled, Respond, BeginFrame, NeverStarts, Places
    <2> QED
      BY <2>1, MoveFlow
  <1>4. CASE FrameSent(s)
    <2>1. /\ Elsewhere(s) /\ session'[s] \in SessionType /\ SameEnd(session[s], session'[s])
          /\ session'[s].plan = session[s].plan /\ session'[s].size = session[s].size
          /\ session'[s].sent = session[s].sent + 1 /\ handler[s] = "sending"
          /\ handler'[s] \in {"taking", "frame", "whole"}
          /\ handler'[s] = CASE session[s].sent < session[s].size -> "taking"
                             [] session[s].sent = session[s].size -> "frame"
                             [] session[s].sent > session[s].size -> "whole"
          /\ UNCHANGED <<reader, pipe>>
      BY <1>4, FrameSentShape DEF UseInv
    <2>2. handler'[s] \in Places
      BY <2>1 DEF Places
    <2>3. Flow(session'[s], handler'[s], reader[s], pipe[s])
      BY <1>1, <2>1, <2>2, SentFlow DEF SameEnd
    <2> QED
      BY <1>1, <2>1, <2>3, FlowStep
  <1>5. CASE Take(s)
    <2> DEFINE q == [pipe[s] EXCEPT !.items = Tail(@), !.credits = @ + 1]
    <2>1. /\ handler[s] = "taking" /\ pipe[s].items # << >>
          /\ Head(pipe[s].items) = Data(session[s].sent)
          /\ handler' = [handler EXCEPT ![s] = "frame"]
          /\ UNCHANGED <<session, reader>>
      BY <1>5 DEF Take
    <2>2. pipe' = [pipe EXCEPT ![s] = q]
      BY <1>1, <1>5 DEF Take
    <2>3. q \in Pipe /\ Flow(session[s], "frame", reader[s], q)
      BY <1>1, <2>1, TakeFlow
    <2> HIDE DEF q
    <2>4. /\ Elsewhere(s) /\ pipe'[s] = q /\ pipe' \in [Session -> Pipe]
          /\ handler'[s] = "frame"
      BY <1>1, <2>1, <2>2, <2>3 DEF Elsewhere, UseInv, UseTypes
    <2> QED
      BY <2>1, <2>3, <2>4, FlowStep
  <1>6. CASE PlanMissing(s)
    <2>1. /\ UNCHANGED <<issued, reader, pipe>>
          /\ \E why \in Outcomes \ {"none"} :
               /\ Release(s, why, "over")
               /\ why = "FailedFraming" => session[s].plan = "failed"
      BY <1>6 DEF PlanMissing, Outcomes
    <2> QED
      BY <2>1, ReleaseFlow DEF Places
  <1>7. CASE LeavesWhilePlanning(s) \/ FrameLost(s) \/ BudgetEnds(s)
    <2>1. /\ UNCHANGED <<issued, reader, pipe>>
          /\ \E why \in {"AbandonedDisconnect", "AbandonedBudget"},
                next \in {handler[s], "over"} : Release(s, why, next)
      BY <1>7 DEF LeavesWhilePlanning, FrameLost, BudgetEnds
    <2> QED
      BY <1>1, <2>1, ReleaseFlow DEF Outcomes, Places
  <1>8. CASE TakeStops(s)
    <2>1. /\ handler[s] = "taking" /\ UNCHANGED <<issued, reader, pipe>>
          /\ \/ Release(s, "AbandonedDisconnect", "over")
             \/ /\ pipe[s].items # << >> /\ Head(pipe[s].items) # Data(session[s].sent)
                /\ Release(s, CASE Head(pipe[s].items).kind = "Diverged"  -> "SourceChanged"
                                [] Head(pipe[s].items).kind = "Abandoned" -> "AbandonedDisconnect"
                                [] OTHER                                  -> "FailedFraming", "over")
      BY <1>8 DEF TakeStops
    <2>2. /\ pipe[s].items # << >> /\ Head(pipe[s].items) # Data(session[s].sent) =>
               Head(pipe[s].items).kind \in {"Diverged", "Abandoned"}
      BY <1>1, <2>1, HeadInPlace
    <2>3. \E why \in {"AbandonedDisconnect", "SourceChanged"} : Release(s, why, "over")
      BY <2>1, <2>2
    <2> QED
      BY <2>1, <2>3, ReleaseFlow DEF Outcomes, Places
  <1>9. CASE FinishResponse(s)
    <2> DEFINE next == IF Outcome(s, "Completed") = "Completed" THEN "finished" ELSE "over"
    <2>1. handler[s] = "whole" /\ UNCHANGED <<issued, reader, pipe>>
      BY <1>9 DEF FinishResponse
    <2>2. session[s].sent = Declared(session[s].size)
      BY <1>1, <2>1 DEF Flow, FramesOK, Declared
    <2>3. Release(s, "Completed", next)
      BY <1>9, <2>2 DEF FinishResponse
    <2> QED
      BY <2>1, <2>3, ReleaseFlow DEF Outcomes, Places
  <1> QED
    BY <1>2, <1>3, <1>4, <1>5, <1>6, <1>7, <1>8, <1>9 DEF Loop

LEMMA ReadersFlow ==
    ASSUME UseInv, FlowInv, NEW s \in Session, Reader(s) \/ ReaderGivesUp(s)
    PROVE  FlowInv'
  <1>1. /\ session[s] \in SessionType /\ pipe[s] \in Pipe /\ reader[s] \in ReaderPlaces
        /\ handler[s] \in Places /\ Flow(session[s], handler[s], reader[s], pipe[s])
        /\ pipe \in [Session -> Pipe] /\ reader \in [Session -> ReaderPlaces]
    BY FlowOf DEF UseInv, UseTypes, FlowInv
  <1>2. ASSUME NEW n \in 0..MaxItems, NEW result \in {"ready", "refused", "failed"},
               Preflight(s, result, n)
        PROVE  FlowInv'
    <2>1. /\ Elsewhere(s) /\ session'[s] \in SessionType /\ SameEnd(session[s], session'[s])
          /\ session'[s].plan = result /\ session'[s].size = n
          /\ session'[s].sent = session[s].sent /\ reader[s] = "preflight"
          /\ reader'[s] \in {"streaming", "over"}
          /\ reader'[s] = "streaming" => result = "ready"
          /\ UNCHANGED <<handler, pipe>>
      BY <1>2, PreflightShape DEF UseInv
    <2>2. handler[s] # "idle"
      BY <2>1 DEF UseInv, SessionInv, SessionOK
    <2>3. Flow(session'[s], handler[s], reader'[s], pipe[s])
      BY <1>1, <2>1, <2>2, PreflightFlow DEF SameEnd
    <2> QED
      BY <1>1, <2>1, <2>3, FlowStep
  <1>3. CASE PreflightCancelled(s) \/ ReaderSettles(s)
    <2>1. /\ UNCHANGED <<session, handler, pipe>>
          /\ \E g \in ReaderPlaces :
               /\ reader' = [reader EXCEPT ![s] = g]
               /\ \/ reader[s] = "preflight" /\ g = "over"
                  \/ reader[s] = "settling" /\ g = "recording"
      BY <1>3 DEF PreflightCancelled, ReaderSettles, ReaderEnds, ReaderPlaces
    <2>2. /\ Elsewhere(s) /\ reader'[s] \in ReaderPlaces
          /\ \/ reader[s] = "preflight" /\ reader'[s] = "over"
             \/ reader[s] = "settling" /\ reader'[s] = "recording"
      BY <1>1, <2>1 DEF Elsewhere
    <2>3. Flow(session[s], handler[s], reader'[s], pipe[s])
      BY <1>1, <2>2, ReaderFlow
    <2> QED
      BY <1>1, <2>1, <2>2, <2>3, FlowStep
  <1>4. CASE ReadItem(s)
    <2> DEFINE q == [pipe[s] EXCEPT !.items = Append(@, Data(pipe[s].next)),
                                    !.next = @ + 1, !.credits = @ - 1]
    <2>1. /\ reader[s] = "streaming" /\ pipe[s].next <= session[s].size
          /\ pipe[s].credits > 0 /\ UNCHANGED <<session, handler, reader>>
      BY <1>4 DEF ReadItem
    <2>2. pipe' = [pipe EXCEPT ![s] = q]
      BY <1>1, <1>4 DEF ReadItem
    <2>3. q \in Pipe /\ Flow(session[s], handler[s], reader[s], q)
      BY <1>1, <2>1, ReadFlow
    <2> HIDE DEF q
    <2>4. Elsewhere(s) /\ pipe'[s] = q /\ pipe' \in [Session -> Pipe]
      BY <1>1, <2>1, <2>2, <2>3 DEF Elsewhere
    <2> QED
      BY <2>1, <2>3, <2>4, FlowStep
  <1>5. CASE ReaderStops(s)
    <2>1. PICK kind \in Kinds : /\ kind = "Finished" => pipe[s].next > session[s].size
                                /\ pipe' = [pipe EXCEPT ![s] = Publish(@, kind)]
      BY <1>5 DEF ReaderStops, Kinds
    <2>2. /\ reader[s] = "streaming" /\ reader' = [reader EXCEPT ![s] = "over"]
          /\ UNCHANGED <<session, handler>>
      BY <1>5 DEF ReaderStops, ReaderEnds
    <2>3. Publish(pipe[s], kind) \in Pipe
          /\ Flow(session[s], handler[s], "over", Publish(pipe[s], kind))
      BY <1>1, <2>1, <2>2, PublishFlow
    <2>4. /\ Elsewhere(s) /\ pipe'[s] = Publish(pipe[s], kind) /\ reader'[s] = "over"
          /\ pipe' \in [Session -> Pipe]
      BY <1>1, <2>1, <2>2, <2>3 DEF Elsewhere
    <2> QED
      BY <2>2, <2>3, <2>4, FlowStep
  <1>6. CASE ReaderGivesUp(s)
    <2> DEFINE p == Publish(pipe[s], "Abandoned")
    <2>1. /\ Elsewhere(s) /\ session'[s] \in SessionType
          /\ SamePlan(session[s], session'[s]) /\ session'[s].released
          /\ session'[s].outcome = Outcome(s, "AbandonedStall")
          /\ session'[s].outcome \in Outcomes \ {"none"}
          /\ reader[s] = "streaming" /\ reader'[s] = "settling" /\ UNCHANGED handler
      BY <1>1, <1>6, GivesUpShape DEF UseInv
    <2>2. p \in Pipe /\ Flow(session[s], handler[s], "settling", p)
      BY <1>1, <2>1, PublishFlow DEF Kinds
    <2>3. pipe' = [pipe EXCEPT ![s] = p]
      BY <1>6 DEF ReaderGivesUp
    <2> HIDE DEF p
    <2>4. pipe'[s] = p /\ pipe' \in [Session -> Pipe]
      BY <1>1, <2>2, <2>3
    <2>5. session'[s].outcome = "FailedFraming" => session[s].plan = "failed"
      BY <1>1, <2>1 DEF Outcome, Flow, EndOK
    <2>6. session[s].outcome = session'[s].outcome \/ session[s].outcome = "none"
      BY <2>1 DEF Outcome
    <2>7. Flow(session'[s], handler[s], "settling", p)
      BY <1>1, <2>1, <2>2, <2>5, <2>6, OutcomeFlow DEF SamePlan, ReaderPlaces
    <2> QED
      BY <2>1, <2>4, <2>7, FlowStep
  <1>7. CASE ReaderRecords(s)
    <2>1. /\ Elsewhere(s) /\ session'[s] \in SessionType
          /\ SamePlan(session[s], session'[s])
          /\ session'[s].outcome = session[s].outcome
          /\ session'[s].released = session[s].released
          /\ reader[s] = "recording" /\ reader'[s] = "over" /\ UNCHANGED <<handler, pipe>>
      BY <1>7, RecordsShape DEF UseInv
    <2>2. Flow(session[s], handler[s], "over", pipe[s])
      BY <1>1, <2>1, ReaderFlow DEF ReaderPlaces
    <2>3. Flow(session'[s], handler[s], "over", pipe[s])
      BY <1>1, <2>1, <2>2, OutcomeFlow DEF SamePlan, Flow, EndOK, ReaderPlaces
    <2> QED
      BY <1>1, <2>1, <2>3, FlowStep
  <1> QED
    <2>1. 0 \in 0..MaxItems
      BY ArchiveAssumption
    <2> QED
      BY <1>2, <1>3, <1>4, <1>5, <1>6, <1>7, <2>1 DEF Reader

LEMMA NextFlow ==
    ASSUME UseInv, FlowInv, [Next]_vars
    PROVE  FlowInv'
  <1>1. CASE UNCHANGED <<session, handler, reader, pipe>>
    BY <1>1 DEF FlowInv
  <1>2. CASE \E t \in Token, local \in Caller : Issue(t) \/ Refuse(t, local)
    BY <1>1, <1>2 DEF Issue, Refuse
  <1>3. CASE Lapse \/ UNCHANGED vars
    BY <1>1, <1>3 DEF Lapse, vars
  <1> QED
    BY <1>2, <1>3, AdmitFlow, LoopFlow, ReadersFlow DEF Next
-----------------------------------------------------------------------------
(* The permits are counted by the sessions and the readers that hold them. *)
Counted(n, most, S) == n \in 0..most /\ IsFiniteSet(S) /\ n = Cardinality(S)

CountInv ==
    /\ permits \in [inUse : 0..Capacity, readers : 0..ReaderCeiling]
    /\ Counted(permits.inUse, Capacity, Unreleased)
    /\ Counted(permits.readers, ReaderCeiling, Reading)

LEMMA CountedStep ==
    ASSUME NEW n, NEW most \in Nat, NEW S, NEW x, Counted(n, most, S)
    PROVE  /\ x \notin S /\ n < most => Counted(n + 1, most, S \union {x})
           /\ x \in S => Counted(n - 1, most, S \ {x})
  <1>1. n \in 0..most /\ IsFiniteSet(S) /\ n = Cardinality(S)
    BY DEF Counted
  <1>2. CASE x \notin S /\ n < most
    <2>1. IsFiniteSet(S \union {x}) /\ Cardinality(S \union {x}) = n + 1
      BY <1>1, <1>2, FS_AddElement
    <2> QED
      BY <1>1, <1>2, <2>1 DEF Counted
  <1>3. CASE x \in S
    <2>1. IsFiniteSet(S \ {x}) /\ Cardinality(S \ {x}) = n - 1
      BY <1>1, <1>3, FS_RemoveElement
    <2>2. Cardinality(S \ {x}) \in Nat
      BY <2>1, FS_CardinalityType
    <2> QED
      BY <1>1, <1>3, <2>1, <2>2 DEF Counted
  <1> QED
    BY <1>2, <1>3

(* How a step of s moves the count n of the sessions in S.                 *)
CountMoves(n, m, most, s, S, T) ==
    \/ m = n /\ T = S
    \/ m = n + 1 /\ n < most /\ s \notin S /\ T = S \union {s}
    \/ m = n - 1 /\ s \in S /\ T = S \ {s}

LEMMA MovesCounted ==
    ASSUME NEW n, NEW m, NEW most \in Nat, NEW s, NEW S, NEW T,
           Counted(n, most, S), CountMoves(n, m, most, s, S, T)
    PROVE  Counted(m, most, T)
  BY CountedStep DEF CountMoves

LEMMA CountStep ==
    ASSUME CountInv, NEW s, permits' \in [inUse : Int, readers : Int],
           CountMoves(permits.inUse, permits'.inUse, Capacity, s, Unreleased, Unreleased'),
           CountMoves(permits.readers, permits'.readers, ReaderCeiling, s, Reading, Reading')
    PROVE  CountInv'
  <1>1. Capacity \in Nat /\ ReaderCeiling \in Nat
    BY ArchiveAssumption
  <1>2. /\ Counted(permits'.inUse, Capacity, Unreleased')
        /\ Counted(permits'.readers, ReaderCeiling, Reading')
    BY <1>1, MovesCounted DEF CountInv
  <1>3. permits'.inUse \in 0..Capacity /\ permits'.readers \in 0..ReaderCeiling
    BY <1>2 DEF Counted
  <1>4. permits' \in [inUse : 0..Capacity, readers : 0..ReaderCeiling]
    BY <1>3
  <1> QED
    BY <1>2, <1>4 DEF CountInv

LEMMA PermitsIn ==
    ASSUME CountInv
    PROVE  /\ permits \in [inUse : Int, readers : Int]
           /\ permits.inUse \in Int /\ permits.readers \in Int
           /\ LET p == [permits EXCEPT !.inUse = @ - 1] IN
              p \in [inUse : Int, readers : Int] /\ p.inUse = permits.inUse - 1
              /\ p.readers = permits.readers
           /\ LET p == [permits EXCEPT !.readers = @ - 1] IN
              p \in [inUse : Int, readers : Int] /\ p.inUse = permits.inUse
              /\ p.readers = permits.readers - 1
  <1>1. /\ permits \in [inUse : 0..Capacity, readers : 0..ReaderCeiling]
        /\ Capacity \in Nat /\ ReaderCeiling \in Nat
    BY ArchiveAssumption DEF CountInv
  <1>2. permits.inUse \in Int /\ permits.readers \in Int
        /\ permits \in [inUse : Int, readers : Int]
    BY <1>1
  <1> QED
    BY <1>2

(* Which sessions hold a permit, which readers a slot, after a step of s.  *)
LEMMA HoldersAfter ==
    ASSUME NEW s \in Session, Elsewhere(s)
    PROVE  /\ Unreleased' = IF handler'[s] # "idle" /\ ~session'[s].released
                            THEN Unreleased \union {s} ELSE Unreleased \ {s}
           /\ Reading' = IF reader'[s] \notin {"off", "over"}
                         THEN Reading \union {s} ELSE Reading \ {s}
  <1>1. ASSUME NEW r \in Session
        PROVE  r \in Unreleased' <=> r \in IF handler'[s] # "idle" /\ ~session'[s].released
                                          THEN Unreleased \union {s} ELSE Unreleased \ {s}
    <2>1. CASE r = s
      BY <2>1 DEF Unreleased
    <2>2. CASE r # s
      BY <2>2 DEF Unreleased, Elsewhere
    <2> QED
      BY <2>1, <2>2
  <1>2. ASSUME NEW r \in Session
        PROVE  r \in Reading' <=> r \in IF reader'[s] \notin {"off", "over"}
                                       THEN Reading \union {s} ELSE Reading \ {s}
    <2>1. CASE r = s
      BY <2>1 DEF Reading
    <2>2. CASE r # s
      BY <2>2 DEF Reading, Elsewhere
    <2> QED
      BY <2>1, <2>2
  <1>3. Unreleased \subseteq Session /\ Unreleased' \subseteq Session
        /\ Reading \subseteq Session /\ Reading' \subseteq Session
    BY DEF Unreleased, Reading
  <1> QED
    BY <1>1, <1>2, <1>3

LEMMA InitCount ==
    ASSUME Init
    PROVE  CountInv
  <1>1. Unreleased = {} /\ Reading = {}
    BY DEF Init, Unreleased, Reading
  <1>2. /\ permits = [inUse |-> 0, readers |-> 0]
        /\ Capacity \in Nat /\ ReaderCeiling \in Nat
    BY ArchiveAssumption DEF Init, AllFree
  <1> QED
    BY <1>1, <1>2, FS_EmptySet DEF CountInv, Counted

(* A step that leaves the permits and everybody who holds one.             *)
LEMMA CountKept ==
    ASSUME CountInv, permits' = permits,
           \A r \in Session :
             /\ (handler[r] # "idle" /\ ~session[r].released) <=>
                  (handler'[r] # "idle" /\ ~session'[r].released)
             /\ (reader[r] \in {"off", "over"}) <=> (reader'[r] \in {"off", "over"})
    PROVE  CountInv'
  <1>1. Unreleased' = Unreleased /\ Reading' = Reading
    BY DEF Unreleased, Reading
  <1> QED
    BY <1>1 DEF CountInv

LEMMA RedeemCount ==
    ASSUME UseInv, CountInv, NEW s \in Session, NEW t \in Token, NEW local,
           Redeem(s, t, local)
    PROVE  CountInv'
  <1>1. /\ Elsewhere(s) /\ SameEnd(session[s], session'[s])
        /\ handler[s] = "idle" /\ handler'[s] = "planning" /\ reader'[s] = "preflight"
    BY RedeemShape DEF UseInv
  <1>2. ~session[s].released /\ reader[s] = "off"
    BY <1>1 DEF UseInv, SessionInv, SessionOK
  <1>3. /\ s \notin Unreleased /\ Unreleased' = Unreleased \union {s}
        /\ s \notin Reading /\ Reading' = Reading \union {s}
    BY <1>1, <1>2, HoldersAfter DEF Unreleased, Reading, SameEnd
  <1>4. /\ permits' = [inUse |-> permits.inUse + 1, readers |-> permits.readers + 1]
        /\ permits.inUse < Capacity /\ permits.readers < ReaderCeiling
        /\ permits.inUse \in Int /\ permits.readers \in Int
    BY PermitsIn DEF Redeem, Admissible
  <1>5. /\ permits' \in [inUse : Int, readers : Int] /\ permits'.inUse = permits.inUse + 1
        /\ permits'.readers = permits.readers + 1
    BY <1>4
  <1> QED
    BY <1>3, <1>4, <1>5, CountStep DEF CountMoves

LEMMA StartFailsCount ==
    ASSUME UseInv, CountInv, NEW s \in Session, NEW t \in Token, NEW local,
           StartFails(s, t, local)
    PROVE  CountInv'
  <1>1. /\ Elsewhere(s) /\ session'[s].released /\ handler[s] = "idle"
        /\ reader' = reader
    BY StartFailsShape DEF UseInv
  <1>2. permits' = permits
    BY DEF StartFails
  <1> QED
    BY <1>1, <1>2, CountKept DEF Elsewhere

(* Whoever releases a session first returns its permit, nobody else.       *)
LEMMA ReleaseCount ==
    ASSUME UseInv, CountInv, NEW s \in Session, NEW why \in Outcomes, NEW next \in Places,
           handler[s] # "idle", next # "idle",
           Release(s, why, next), UNCHANGED <<issued, reader, pipe>>
    PROVE  CountInv'
  <1>1. /\ Elsewhere(s) /\ handler'[s] = next /\ reader' = reader
        /\ session[s].released => session' = session /\ permits' = permits
        /\ ~session[s].released =>
             session'[s].released /\ permits' = [permits EXCEPT !.inUse = @ - 1]
    BY ReleaseShape DEF UseInv
  <1>2. CASE session[s].released
    BY <1>1, <1>2, CountKept DEF Elsewhere
  <1>3. CASE ~session[s].released
    <2>1. s \in Unreleased /\ Unreleased' = Unreleased \ {s} /\ Reading' = Reading
      BY <1>1, <1>3, HoldersAfter DEF Unreleased, Reading
    <2>2. /\ permits' \in [inUse : Int, readers : Int]
          /\ permits'.inUse = permits.inUse - 1 /\ permits'.readers = permits.readers
      BY <1>1, <1>3, PermitsIn
    <2> QED
      BY <2>1, <2>2, CountStep DEF CountMoves
  <1> QED
    BY <1>2, <1>3

(* A reader that leaves returns its slot.                                  *)
LEMMA LeaveCount ==
    ASSUME UseInv, CountInv, NEW s \in Session, Elsewhere(s),
           reader[s] \notin {"off", "over"}, reader'[s] = "over",
           permits' = [permits EXCEPT !.readers = @ - 1],
           handler' = handler, session'[s].released = session[s].released
    PROVE  CountInv'
  <1>1. s \in Reading /\ Reading' = Reading \ {s} /\ Unreleased' = Unreleased
    BY HoldersAfter DEF Unreleased, Reading
  <1>2. /\ permits' \in [inUse : Int, readers : Int]
        /\ permits'.inUse = permits.inUse /\ permits'.readers = permits.readers - 1
    BY PermitsIn
  <1> QED
    BY <1>1, <1>2, CountStep DEF CountMoves
-----------------------------------------------------------------------------
(* What the loop does for a session is a move of its handler, a frame that *)
(* is counted, or a release.                                               *)
Gone(s) == handler[s] \in {"over", "finished"}

Glides(s) ==
    /\ ~Gone(s)
    /\ \E next \in Places \ {"idle"} : handler' = [handler EXCEPT ![s] = next]
    /\ Respond(s) \/ status' = status
    /\ UNCHANGED <<tickets, issued, permits, session, reader>>

Releases(s) ==
    /\ \E why \in Outcomes \ {"none"}, next \in Places \ {"idle"} :
         /\ Release(s, why, next)
         /\ Gone(s) => next = handler[s]
         /\ next \in {"over", "finished"} \/ ~tickets.of[session[s].token].live
    /\ UNCHANGED <<issued, reader, pipe>>

LEMMA LoopShape ==
    ASSUME UseInv, NEW s \in Session,
           Loop(s) \/ BudgetEnds(s) \/ LeavesWhilePlanning(s) \/ NeverStarts(s) \/ FrameLost(s)
    PROVE  handler[s] # "idle" /\ (Glides(s) \/ FrameSent(s) \/ Releases(s))
  <1>1. CASE \/ PlanReady(s) \/ PlanCancelled(s) \/ Respond(s) \/ BeginFrame(s) \/ Take(s)
             \/ NeverStarts(s)
    <2>1. /\ handler[s] \in {"planning", "planned", "responding", "frame", "taking"}
          /\ UNCHANGED <<tickets, issued, permits, session, reader>>
          /\ Respond(s) \/ status' = status
          /\ \E next \in Places \ {"idle"} : handler' = [handler EXCEPT ![s] = next]
      BY <1>1 DEF PlanReady, PlanCancelled, Respond, BeginFrame, Take, NeverStarts, Places
    <2> QED
      BY <2>1 DEF Glides, Gone
  <1>2. CASE MirrorSet(s)
    <2>1. /\ handler[s] \notin {"over", "finished"}
          /\ UNCHANGED <<tickets, issued, status, permits, session, handler, reader>>
      BY <1>2 DEF MirrorSet
    <2>2. handler[s] # "idle"
      BY <1>2 DEF MirrorSet, UseInv, SessionInv, SessionOK
    <2>3. handler[s] \in Places \ {"idle"} /\ handler' = [handler EXCEPT ![s] = handler[s]]
      BY <2>1, <2>2 DEF UseInv, UseTypes
    <2> QED
      BY <2>1, <2>2, <2>3 DEF Glides, Gone
  <1>3. CASE FrameSent(s)
    BY <1>3 DEF FrameSent
  <1>4. CASE \/ PlanMissing(s) \/ LeavesWhilePlanning(s) \/ FrameLost(s) \/ TakeStops(s)
             \/ FinishResponse(s) \/ BudgetEnds(s)
    <2>1. handler[s] # "idle" /\ UNCHANGED <<issued, reader, pipe>>
      BY <1>4 DEF PlanMissing, LeavesWhilePlanning, FrameLost, TakeStops, FinishResponse,
                  BudgetEnds
    <2>2. CASE BudgetEnds(s)
      <3>1. /\ Release(s, "AbandonedBudget", handler[s]) /\ handler[s] \in Places
            /\ ~tickets.of[session[s].token].live
        BY <2>2 DEF BudgetEnds, UseInv, UseTypes
      <3> QED
        BY <2>1, <3>1 DEF Releases, Outcomes
    <2>3. CASE ~BudgetEnds(s)
      <3>1. \E why \in Outcomes \ {"none"}, next \in {"over", "finished"} :
              Release(s, why, next)
        <4>1. CASE PlanMissing(s)
          BY <4>1 DEF PlanMissing, Outcomes
        <4>2. CASE LeavesWhilePlanning(s) \/ FrameLost(s)
          BY <4>2 DEF LeavesWhilePlanning, FrameLost, Outcomes
        <4>3. CASE TakeStops(s)
          BY <4>3 DEF TakeStops, Outcomes
        <4>4. CASE FinishResponse(s)
          BY <4>4 DEF FinishResponse, Outcomes
        <4> QED
          BY <1>4, <2>3, <4>1, <4>2, <4>3, <4>4
      <3>2. ~Gone(s)
        BY <1>4, <2>3 DEF Gone, PlanMissing, LeavesWhilePlanning, FrameLost, TakeStops,
                          FinishResponse
      <3> QED
        BY <2>1, <3>1, <3>2 DEF Releases, Places
    <2> QED
      BY <2>1, <2>2, <2>3
  <1> QED
    BY <1>1, <1>2, <1>3, <1>4 DEF Loop

LEMMA LoopCount ==
    ASSUME UseInv, CountInv, NEW s \in Session,
           Loop(s) \/ BudgetEnds(s) \/ LeavesWhilePlanning(s) \/ NeverStarts(s) \/ FrameLost(s)
    PROVE  CountInv'
  <1>1. handler[s] # "idle"
    BY LoopShape
  <1>2. CASE Glides(s)
    <2>1. /\ UNCHANGED <<permits, session, reader>>
          /\ \A r \in Session : handler'[r] = "idle" <=> handler[r] = "idle"
      BY <1>1, <1>2 DEF Glides, UseInv, UseTypes
    <2> QED
      BY <2>1, CountKept
  <1>3. CASE FrameSent(s)
    <2>1. /\ Elsewhere(s) /\ SameEnd(session[s], session'[s]) /\ handler'[s] # "idle"
          /\ UNCHANGED <<permits, reader>>
      BY <1>3, FrameSentShape DEF UseInv
    <2> QED
      BY <1>1, <2>1, CountKept DEF Elsewhere, SameEnd
  <1>4. CASE Releases(s)
    BY <1>1, <1>4, ReleaseCount DEF Releases
  <1> QED
    BY <1>2, <1>3, <1>4, LoopShape

LEMMA ReadersCount ==
    ASSUME UseInv, FlowInv, CountInv, NEW s \in Session, Reader(s) \/ ReaderGivesUp(s)
    PROVE  CountInv'
  <1>1. reader \in [Session -> ReaderPlaces]
    BY DEF UseInv, UseTypes
  <1>2. ASSUME NEW n \in 0..MaxItems, NEW result \in {"ready", "refused", "failed"},
               Preflight(s, result, n)
        PROVE  CountInv'
    <2>1. /\ Elsewhere(s) /\ SameEnd(session[s], session'[s]) /\ handler' = handler
          /\ reader[s] = "preflight"
          /\ IF result = "ready"
             THEN reader'[s] = "streaming" /\ permits' = permits
             ELSE /\ reader'[s] = "over"
                  /\ permits' = [permits EXCEPT !.readers = @ - 1]
      BY <1>2, PreflightShape DEF UseInv
    <2>2. CASE result = "ready"
      BY <2>1, <2>2, CountKept DEF Elsewhere, SameEnd
    <2>3. CASE result # "ready"
      BY <2>1, <2>3, LeaveCount DEF SameEnd
    <2> QED
      BY <2>2, <2>3
  <1>3. CASE PreflightCancelled(s) \/ ReaderStops(s)
    <2>1. /\ reader[s] \in {"preflight", "streaming"} /\ UNCHANGED <<session, handler>>
          /\ reader' = [reader EXCEPT ![s] = "over"]
          /\ permits' = [permits EXCEPT !.readers = @ - 1]
          /\ \E p : pipe' = [pipe EXCEPT ![s] = p]
      <3>1. pipe = [pipe EXCEPT ![s] = pipe[s]]
        BY DEF FlowInv
      <3> QED
        BY <1>3, <3>1 DEF PreflightCancelled, ReaderStops, ReaderEnds
    <2>2. Elsewhere(s) /\ reader'[s] = "over"
      BY <1>1, <2>1 DEF Elsewhere, FlowInv
    <2> QED
      BY <2>1, <2>2, LeaveCount
  <1>4. CASE ReadItem(s) \/ ReaderSettles(s)
    <2>1. /\ UNCHANGED <<permits, session, handler>>
          /\ \A r \in Session : reader[r] \in {"off", "over"} <=> reader'[r] \in {"off", "over"}
      BY <1>1, <1>4 DEF ReadItem, ReaderSettles
    <2> QED
      BY <2>1, CountKept
  <1>5. CASE ReaderGivesUp(s)
    <2>1. /\ Elsewhere(s) /\ session'[s].released /\ reader[s] = "streaming"
          /\ reader'[s] = "settling" /\ ~session[s].cancel /\ handler' = handler
          /\ permits' = [permits EXCEPT !.inUse = @ - 1]
      BY <1>5, GivesUpShape DEF UseInv, FlowInv
    <2>2. handler[s] # "idle" /\ ~session[s].released
      BY <2>1 DEF UseInv, SessionInv, SessionOK
    <2>3. s \in Unreleased /\ Unreleased' = Unreleased \ {s} /\ Reading' = Reading
      BY <2>1, <2>2, HoldersAfter DEF Unreleased, Reading
    <2>4. /\ permits' \in [inUse : Int, readers : Int]
          /\ permits'.inUse = permits.inUse - 1 /\ permits'.readers = permits.readers
      BY <2>1, PermitsIn
    <2> QED
      BY <2>3, <2>4, CountStep DEF CountMoves
  <1>6. CASE ReaderRecords(s)
    <2>1. /\ Elsewhere(s) /\ session'[s].released = session[s].released
          /\ reader[s] = "recording" /\ reader'[s] = "over" /\ handler' = handler
          /\ permits' = [permits EXCEPT !.readers = @ - 1]
      BY <1>6, RecordsShape DEF UseInv
    <2> QED
      BY <2>1, LeaveCount
  <1> QED
    <2>1. 0 \in 0..MaxItems
      BY ArchiveAssumption
    <2> QED
      BY <1>2, <1>3, <1>4, <1>5, <1>6, <2>1 DEF Reader

LEMMA NextCount ==
    ASSUME UseInv, FlowInv, CountInv, [Next]_vars
    PROVE  CountInv'
  <1>1. CASE UNCHANGED <<permits, session, handler, reader>>
    BY <1>1, CountKept
  <1>2. CASE \E t \in Token, local \in Caller : Issue(t) \/ Refuse(t, local)
    BY <1>1, <1>2 DEF Issue, Refuse
  <1>3. CASE Lapse \/ UNCHANGED vars
    BY <1>1, <1>3 DEF Lapse, vars
  <1> QED
    BY <1>2, <1>3, RedeemCount, StartFailsCount, LoopCount, ReadersCount DEF Next
-----------------------------------------------------------------------------
(* The status store holds records, whoever wrote them.                     *)
Record == [state : {"none", "Preparing", "Streaming", "Terminal"},
           outcome : Outcomes \union {"Refused"}, by : Session \union {NoSession}]
StatusTyped == status.of \in [Token -> Record]

LEMMA RecordTyped ==
    ASSUME NEW store, store.of \in [Token -> Record], NEW t, NEW rec \in Record
    PROVE  RecordStatus(store, t, rec).of \in [Token -> Record]
  <1>1. Absent \in Record
    BY DEF Absent, Record, Outcomes
  <1>2. Enter(store, t, rec).of \in [Token -> Record]
    BY <1>1 DEF Enter
  <1> QED
    BY <1>2 DEF RecordStatus

LEMMA StatusWritten ==
    ASSUME UseInv, StatusTyped, NEW t, NEW rec \in Record,
           status' = RecordStatus(status, t, rec)
    PROVE  StatusTyped'
  BY RecordTyped DEF StatusTyped

LEMMA RecordsIn ==
    ASSUME NEW s \in Session
    PROVE  /\ [state |-> "Preparing", outcome |-> "none", by |-> s] \in Record
           /\ [state |-> "Streaming", outcome |-> "none", by |-> s] \in Record
           /\ Terminal(NoSession, "Refused") \in Record
           /\ \A why \in Outcomes : Terminal(s, why) \in Record
  BY DEF Record, Outcomes, Terminal

LEMMA NextTyped ==
    ASSUME UseInv, StatusTyped, [Next]_vars
    PROVE  StatusTyped'
  <1>1. CASE status' = status
    BY <1>1 DEF StatusTyped
  <1>2. ASSUME NEW t \in Token, NEW local, Refuse(t, local)
        PROVE  StatusTyped'
    <2>1. Terminal(NoSession, "Refused") \in Record
      BY DEF Record, Terminal
    <2> QED
      BY <1>2, <2>1, StatusWritten DEF Refuse
  <1>3. ASSUME NEW s \in Session, NEW t \in Token, NEW local, Redeem(s, t, local)
        PROVE  StatusTyped'
    BY <1>3, RecordsIn, StatusWritten DEF Redeem
  <1>4. ASSUME NEW s \in Session, NEW t \in Token, NEW local, StartFails(s, t, local)
        PROVE  StatusTyped'
    <2> DEFINE first == RecordStatus(status, t,
                          [state |-> "Preparing", outcome |-> "none", by |-> s])
    <2>1. first.of \in [Token -> Record]
      BY RecordsIn, RecordTyped DEF StatusTyped
    <2>2. status' = RecordStatus(first, t, Terminal(s, "FailedStart"))
      BY <1>4 DEF StartFails
    <2>3. Terminal(s, "FailedStart") \in Record
      BY RecordsIn DEF Outcomes
    <2> HIDE DEF first
    <2> QED
      BY <2>1, <2>2, <2>3, RecordTyped DEF StatusTyped
  <1>5. ASSUME NEW s \in Session,
               Loop(s) \/ BudgetEnds(s) \/ LeavesWhilePlanning(s) \/ NeverStarts(s) \/ FrameLost(s)
        PROVE  StatusTyped'
    <2>1. CASE Glides(s) \/ FrameSent(s)
      BY <1>1, <2>1, RecordsIn, StatusWritten DEF Glides, Respond, FrameSent
    <2>2. CASE Releases(s)
      <3>1. PICK why \in Outcomes, next \in Places : Release(s, why, next)
        BY <2>2 DEF Releases
      <3>2. Outcome(s, why) \in Outcomes
        BY DEF Outcome, UseInv, UseTypes, SessionType
      <3> QED
        BY <1>1, <3>1, <3>2, RecordsIn, StatusWritten DEF Release
    <2> QED
      BY <1>5, <2>1, <2>2, LoopShape
  <1>6. ASSUME NEW s \in Session, ReaderRecords(s)
        PROVE  StatusTyped'
    <2>1. session[s].outcome \in Outcomes
      BY DEF UseInv, UseTypes, SessionType
    <2> QED
      BY <1>6, <2>1, RecordsIn, StatusWritten DEF ReaderRecords
  <1>7. ASSUME NEW s \in Session, Reader(s) \/ ReaderGivesUp(s), ~ReaderRecords(s)
        PROVE  status' = status
    BY <1>7 DEF Reader, Preflight, PreflightCancelled, ReadItem, ReaderStops, ReaderSettles,
                ReaderGivesUp
  <1>8. CASE UNCHANGED vars \/ Lapse \/ \E t \in Token : Issue(t)
    BY <1>1, <1>8 DEF vars, Lapse, Issue
  <1> QED
    BY <1>1, <1>2, <1>3, <1>4, <1>5, <1>6, <1>7, <1>8 DEF Next
-----------------------------------------------------------------------------
SessionsInv == UseInv /\ FlowInv /\ CountInv /\ StatusTyped

LEMMA SessionsHold == Spec => []SessionsInv
  <1>1. Init => SessionsInv
    <2> SUFFICES ASSUME Init
                 PROVE  SessionsInv
      OBVIOUS
    <2>1. Absent \in Record
      BY DEF Absent, Record, Outcomes
    <2>2. StatusTyped
      BY <2>1 DEF Init, StatusTyped
    <2> QED
      BY <2>2, InitUse, InitFlow, InitCount DEF SessionsInv
  <1>2. SessionsInv /\ [Next]_vars => SessionsInv'
    BY NextUse, NextFlow, NextCount, NextTyped DEF SessionsInv
  <1> QED
    BY <1>1, <1>2, PTL DEF Spec

LEMMA SessionsTyped ==
    ASSUME SessionsInv
    PROVE  TypeOK
  <1>1. /\ tickets.of \in [Token -> [live : BOOLEAN, bound : Session \union {NoSession},
                                     spent : BOOLEAN, retry : BOOLEAN]]
        /\ issued \subseteq Token
    BY DEF SessionsInv, UseInv, UseTypes, Store, Ticket
  <1>2. \A t \in Token :
          status.of[t].state \in {"none", "Preparing", "Streaming", "Terminal"}
    BY DEF SessionsInv, StatusTyped, Record
  <1>3. permits \in [inUse : 0..Capacity, readers : 0..ReaderCeiling]
    BY DEF SessionsInv, CountInv
  <1>4. ASSUME NEW s \in Session
        PROVE  /\ session[s].size \in 0..MaxItems /\ session[s].sent \in 0..MaxItems + 2
               /\ pipe[s].credits \in 0..Credits /\ Len(pipe[s].items) <= Credits + 1
    <2>1. /\ session[s] \in SessionType /\ pipe[s] \in Pipe
          /\ Flow(session[s], handler[s], reader[s], pipe[s])
      BY FlowOf DEF SessionsInv, UseInv
    <2>2. /\ session[s].size \in 0..MaxItems /\ session[s].sent \in 0..session[s].size + 2
          /\ Members(pipe[s]) \in Nat /\ Members(pipe[s]) + pipe[s].credits = Credits
      BY <2>1 DEF Flow, PlanOK, FramesOK, PipeOK
    <2>3. MaxItems \in Nat /\ Credits \in Nat /\ pipe[s].credits \in Nat
      BY <2>1, ArchiveAssumption DEF Pipe
    <2>4. Len(pipe[s].items) \in Nat /\ Len(pipe[s].items) <= Members(pipe[s]) + 1
      BY <2>1, <2>2, MembersIn
    <2>5. session[s].sent \in 0..MaxItems + 2
      BY <2>2, <2>3
    <2> QED
      BY <2>2, <2>3, <2>4, <2>5
  <1>5. /\ handler \in [Session -> {"idle", "planning", "planned", "responding", "frame",
                                    "sending", "taking", "whole", "finished", "over"}]
        /\ reader \in [Session -> {"off", "preflight", "streaming", "settling",
                                   "recording", "over"}]
    BY DEF SessionsInv, UseInv, UseTypes, Places, ReaderPlaces
  <1> QED
    BY <1>1, <1>2, <1>3, <1>4, <1>5 DEF TypeOK

(* The permits in use are the sessions not yet released and the slots in   *)
(* use the readers not yet gone, for any number of sessions, whoever       *)
(* releases, and also when a reader meets an unexpected exception.         *)
THEOREM PermitsCounted == Spec => []PermitsMatch
  <1>1. SessionsInv => PermitsMatch
    <2>1. {s \in Arrived : ~session[s].released} = Unreleased
          /\ {s \in Session : reader[s] \notin {"off", "over"}} = Reading
      BY DEF Arrived, Unreleased, Reading
    <2> QED
      BY <2>1, SessionsTyped DEF SessionsInv, CountInv, Counted, PermitsMatch
  <1> QED
    BY <1>1, SessionsHold, PTL

(* A response whose terminal body went out has sent every declared frame   *)
(* of an archive the reader read to its end, and framing fails only for a  *)
(* plan that failed: for any number of members and credits.                *)
THEOREM WholeArchives == Spec => []OnlyWhole
  <1>1. SessionsInv => OnlyWhole
    <2> SUFFICES ASSUME SessionsInv, NEW s \in Session
                 PROVE  /\ handler[s] = "finished" =>
                             /\ session[s].sent = Declared(session[s].size)
                             /\ session[s].outcome = "Completed"
                             /\ pipe[s].next > session[s].size
                        /\ session[s].outcome = "FailedFraming" => session[s].plan = "failed"
      BY DEF OnlyWhole
    <2>1. /\ session[s] \in SessionType /\ pipe[s] \in Pipe
          /\ Flow(session[s], handler[s], reader[s], pipe[s])
      BY FlowOf DEF SessionsInv, UseInv
    <2>2. session[s].size \in Nat /\ pipe[s].next \in Nat /\ Members(pipe[s]) \in Nat
      BY <2>1 DEF SessionType, Pipe, Flow, PipeOK
    <2>3. ASSUME handler[s] = "finished"
          PROVE  pipe[s].next > session[s].size
      BY <2>1, <2>2, <2>3 DEF Flow, TakenOK, Taken
    <2> QED
      BY <2>1, <2>3 DEF Flow, FramesOK, EndOK, Declared
  <1> QED
    BY <1>1, SessionsHold, PTL
-----------------------------------------------------------------------------
(* A session that may still send, or has sent.                             *)
Open(s) == handler[s] # "idle" /\ (~session[s].done \/ ~Gone(s) \/ session[s].sent > 0)

OneOpen ==
    \A r, s \in Session : Open(r) /\ Open(s) /\ session[r].token = session[s].token => r = s

(* A live ticket is bound to the one open session it has; once that is     *)
(* done, the ticket is used up.                                            *)
HolderOK(s) ==
    LET k == tickets.of[session[s].token] IN
    handler[s] # "idle" /\ k.live =>
      IF k.bound = s THEN session[s].done => k.spent ELSE ~Open(s)

(* A release that is under way, or whose handler has not seen it, comes    *)
(* when the ticket has lapsed.                                             *)
LateOK(s) ==
    /\ handler[s] = "idle" => ~session[s].done
    /\ handler[s] # "idle" => session[s].token \in issued
    /\ session[s].done => session[s].released
    /\ reader[s] \in {"settling", "recording"} <=> session[s].released /\ ~session[s].done
    /\ session[s].released /\ (~session[s].done \/ ~Gone(s)) =>
         ~tickets.of[session[s].token].live

SenderInv == OneOpen /\ \A s \in Session : HolderOK(s) /\ LateOK(s)

LEMMA SenderKept ==
    ASSUME UseInv, SenderInv, issued \subseteq issued',
           \A r \in Session :
             /\ handler[r] = "idle" <=> handler'[r] = "idle"
             /\ session'[r].token = session[r].token
             /\ session'[r].done = session[r].done
             /\ session'[r].released = session[r].released
             /\ Open(r)' => Open(r)
             /\ Gone(r) => handler'[r] \in {"over", "finished"}
             /\ reader'[r] \in {"settling", "recording"} <=>
                  reader[r] \in {"settling", "recording"},
           \A t \in issued : tickets'.of[t].live =>
             /\ tickets.of[t].live /\ tickets'.of[t].bound = tickets.of[t].bound
             /\ tickets'.of[t].spent = tickets.of[t].spent
    PROVE  SenderInv'
  <1>1. \A r \in Session : Open(r)' => Open(r)
    OBVIOUS
  <1>2. OneOpen'
    BY <1>1 DEF OneOpen, SenderInv
  <1>3. ASSUME NEW r \in Session
        PROVE  LateOK(r)'
    <2>1. LateOK(r)
      BY DEF SenderInv
    <2>2. CASE handler[r] = "idle"
      <3>1. ~session[r].released
        BY <2>2 DEF UseInv, SessionInv, SessionOK
      <3> QED
        BY <2>1, <2>2, <3>1 DEF LateOK
    <2>3. CASE handler[r] # "idle"
      <3>1. session[r].token \in issued
        BY <2>1, <2>3 DEF LateOK
      <3>2. tickets'.of[session'[r].token].live => tickets.of[session[r].token].live
        BY <3>1
      <3> QED
        BY <2>1, <2>3, <3>1, <3>2 DEF LateOK, Gone
    <2> QED
      BY <2>2, <2>3
  <1>4. ASSUME NEW r \in Session
        PROVE  HolderOK(r)'
    <2>1. handler[r] # "idle" => session[r].token \in issued
      BY DEF SenderInv, LateOK
    <2>2. HolderOK(r)
      BY DEF SenderInv
    <2> QED
      BY <1>1, <2>1, <2>2 DEF HolderOK
  <1> QED
    BY <1>2, <1>3, <1>4 DEF SenderInv

(* A step that only moves sessions on, and leaves the tickets.             *)
LEMMA SenderMoves ==
    ASSUME UseInv, SenderInv, UNCHANGED <<tickets, issued>>, NEW s \in Session, Elsewhere(s),
           handler[s] # "idle", handler'[s] # "idle",
           session'[s].token = session[s].token, SameEnd(session[s], session'[s]),
           Gone(s) => handler'[s] \in {"over", "finished"},
           session'[s].sent = session[s].sent \/ ~Gone(s),
           reader'[s] \in {"settling", "recording"} <=> reader[s] \in {"settling", "recording"}
    PROVE  SenderInv'
  <1>1. \A r \in Session : Open(r)' => Open(r)
    BY DEF Open, Gone, Elsewhere, SameEnd
  <1> QED
    BY <1>1, SenderKept DEF Elsewhere, SameEnd, Gone

(* Issuing and forgetting tickets leaves those of the sessions, or ends    *)
(* them.                                                                   *)
LEMMA StoreSender ==
    ASSUME UseInv, SenderInv, NEW t \in Token, NEW local,
           Issue(t) \/ Lapse \/ Refuse(t, local)
    PROVE  SenderInv'
  <1>1. tickets \in Store /\ issued \subseteq Token
    BY DEF UseInv, UseTypes
  <1>2. UNCHANGED <<session, handler, reader>> /\ issued \subseteq issued'
    BY DEF Issue, Lapse, Refuse
  <1>3. \A u \in issued : tickets'.of[u].live =>
          /\ tickets.of[u].live /\ tickets'.of[u].bound = tickets.of[u].bound
          /\ tickets'.of[u].spent = tickets.of[u].spent
    <2>1. CASE Refuse(t, local)
      <3>1. tickets' = tickets
        BY <2>1 DEF Refuse, SettleTicket
      <3> QED
        BY <3>1
    <2>2. CASE Lapse
      <3>1. tickets.order # << >> /\ tickets' = DropOldest(tickets)
        BY <2>2 DEF Lapse
      <3> QED
        BY <1>1, <3>1, DropTouchesHead, NoTicketIsEmpty
    <2>3. CASE Issue(t)
      <3> DEFINE fresh == [NoTicket EXCEPT !.live = TRUE]
                 added == [of |-> [tickets.of EXCEPT ![t] = fresh],
                           order |-> Append(tickets.order, t)]
      <3>1. t \notin issued /\ fresh \in Ticket
        BY <2>3 DEF Issue, NoTicket, Ticket
      <3> HIDE DEF fresh
      <3>2. /\ added \in Store /\ added.order # << >>
            /\ \A u \in issued : added.of[u] = tickets.of[u]
        BY <1>1, <3>1 DEF Store
      <3>3. tickets' = added \/ tickets' = DropOldest(added)
        BY <2>3 DEF Issue, WithTicket, fresh
      <3> HIDE DEF added
      <3>4. CASE tickets' = added
        BY <3>2, <3>4
      <3>5. CASE tickets' = DropOldest(added)
        BY <1>1, <3>2, <3>5, DropTouchesHead, NoTicketIsEmpty
      <3> QED
        BY <3>3, <3>4, <3>5
    <2> QED
      BY <2>1, <2>2, <2>3
  <1>4. \A r \in Session : Open(r)' <=> Open(r)
    BY <1>2 DEF Open, Gone
  <1> QED
    BY <1>2, <1>3, <1>4, SenderKept DEF Gone

LEMMA RedeemSender ==
    ASSUME UseInv, FlowInv, SenderInv, NEW s \in Session, NEW t \in Token, NEW local,
           Redeem(s, t, local)
    PROVE  SenderInv'
  <1>1. /\ Elsewhere(s) /\ session'[s].token = t /\ SameEnd(session[s], session'[s])
        /\ handler[s] = "idle" /\ handler'[s] = "planning" /\ reader'[s] = "preflight"
    BY RedeemShape DEF UseInv
  <1>2. ~session[s].released /\ ~session[s].done
    BY <1>1 DEF UseInv, SessionInv, SessionOK, SenderInv, LateOK
  <1>3. /\ tickets.of[t].live /\ tickets.of[t].bound = NoSession /\ issued' = issued
        /\ tickets' = [tickets EXCEPT !.of[t].bound = s] /\ NoSession \notin Session
        /\ tickets \in Store
    BY ArchiveAssumption DEF Redeem, Admissible, UseInv, UseTypes
  <1>4. t \in issued
    BY <1>3, NoTicketIsEmpty DEF UseInv, StoreInv
  <1>5. /\ tickets'.of[t].bound = s /\ tickets'.of[t].live
        /\ \A u \in Token : /\ tickets'.of[u].live = tickets.of[u].live
                            /\ u # t => tickets'.of[u] = tickets.of[u]
    <2> DEFINE k == [tickets.of[t] EXCEPT !.bound = s]
    <2>1. tickets.of[t] \in Ticket /\ tickets.of \in [Token -> Ticket]
      BY <1>3 DEF Store
    <2>2. k.live = tickets.of[t].live /\ k.bound = s
      BY <2>1 DEF Ticket
    <2>3. tickets' = [tickets EXCEPT !.of = [tickets.of EXCEPT ![t] = k]]
      BY <1>3
    <2> HIDE DEF k
    <2>4. tickets'.of = [tickets.of EXCEPT ![t] = k]
      BY <1>3, <2>3 DEF Store
    <2> QED
      BY <1>3, <2>1, <2>2, <2>4
  <1>6. \A r \in Session \ {s} : Open(r)' <=> Open(r)
    BY <1>1 DEF Open, Gone, Elsewhere
  <1>7. \A r \in Session \ {s} : handler[r] # "idle" /\ session[r].token = t => ~Open(r)
    BY <1>3 DEF SenderInv, HolderOK
  <1>8. OneOpen'
    BY <1>1, <1>6, <1>7 DEF SenderInv, OneOpen, Open, Elsewhere
  <1>9. ASSUME NEW r \in Session
        PROVE  HolderOK(r)' /\ LateOK(r)'
    <2>1. CASE r = s
      BY <1>1, <1>2, <1>3, <1>4, <1>5, <2>1 DEF HolderOK, LateOK, SameEnd
    <2>2. CASE r # s
      <3>1. /\ session'[r] = session[r] /\ handler'[r] = handler[r] /\ reader'[r] = reader[r]
            /\ handler[r] # "idle" => session[r].token \in Token
        BY <1>1, <2>2 DEF Elsewhere, UseInv, SessionInv, SessionOK
      <3>2. HolderOK(r) /\ LateOK(r)
        BY DEF SenderInv
      <3>3. LateOK(r)'
        <4>1. CASE handler[r] = "idle"
          <5>1. ~session[r].released
            BY <4>1 DEF UseInv, SessionInv, SessionOK
          <5> QED
            BY <3>1, <3>2, <4>1, <5>1 DEF LateOK
        <4>2. CASE handler[r] # "idle"
          BY <1>3, <1>5, <3>1, <3>2, <4>2 DEF LateOK, Gone
        <4> QED
          BY <4>1, <4>2
      <3>4. HolderOK(r)'
        <4>1. CASE session[r].token = t
          BY <1>5, <1>6, <1>7, <2>2, <3>1, <4>1 DEF HolderOK
        <4>2. CASE session[r].token # t
          BY <1>5, <1>6, <2>2, <3>1, <3>2, <4>2 DEF HolderOK
        <4> QED
          BY <4>1, <4>2
      <3> QED
        BY <3>3, <3>4
    <2> QED
      BY <2>1, <2>2
  <1> QED
    BY <1>8, <1>9 DEF SenderInv

LEMMA StartFailsSender ==
    ASSUME UseInv, FlowInv, SenderInv, NEW s \in Session, NEW t \in Token, NEW local,
           StartFails(s, t, local)
    PROVE  SenderInv'
  <1>1. /\ Elsewhere(s) /\ session'[s].token = t /\ SamePlan(session[s], session'[s])
        /\ session'[s].released /\ session'[s].done
        /\ handler[s] = "idle" /\ handler'[s] = "over" /\ reader' = reader
    BY StartFailsShape DEF UseInv
  <1>2. reader[s] = "off" /\ session[s].sent = 0
    BY <1>1 DEF UseInv, SessionInv, SessionOK, FlowInv, Flow, FramesOK
  <1>3. /\ tickets.of[t].live /\ tickets.of[t].bound = NoSession /\ issued' = issued
        /\ tickets' = [tickets EXCEPT !.of[t].retry = TRUE] /\ NoSession \notin Session
        /\ tickets \in Store
    BY ArchiveAssumption DEF StartFails, Admissible, UseInv, UseTypes
  <1>4. t \in issued
    BY <1>3, NoTicketIsEmpty DEF UseInv, StoreInv
  <1>5. \A u \in Token : /\ tickets'.of[u].live = tickets.of[u].live
                         /\ tickets'.of[u].bound = tickets.of[u].bound
                         /\ tickets'.of[u].spent = tickets.of[u].spent
    <2> DEFINE k == [tickets.of[t] EXCEPT !.retry = TRUE]
    <2>1. tickets.of[t] \in Ticket /\ tickets.of \in [Token -> Ticket]
      BY <1>3 DEF Store
    <2>2. /\ k.live = tickets.of[t].live /\ k.bound = tickets.of[t].bound
          /\ k.spent = tickets.of[t].spent
      BY <2>1 DEF Ticket
    <2>3. tickets' = [tickets EXCEPT !.of = [tickets.of EXCEPT ![t] = k]]
      BY <1>3
    <2> HIDE DEF k
    <2>4. tickets'.of = [tickets.of EXCEPT ![t] = k]
      BY <1>3, <2>3 DEF Store
    <2> QED
      BY <1>3, <2>1, <2>2, <2>4
  <1>6. ~Open(s)'
    BY <1>1, <1>2 DEF Open, Gone, SamePlan
  <1>7. \A r \in Session \ {s} : Open(r)' <=> Open(r)
    BY <1>1 DEF Open, Gone, Elsewhere
  <1>8. OneOpen'
    BY <1>1, <1>6, <1>7 DEF SenderInv, OneOpen, Elsewhere
  <1>9. ASSUME NEW r \in Session
        PROVE  HolderOK(r)' /\ LateOK(r)'
    <2>1. CASE r = s
      BY <1>1, <1>2, <1>3, <1>4, <1>5, <1>6, <2>1 DEF HolderOK, LateOK, Gone
    <2>2. CASE r # s
      <3>1. /\ session'[r] = session[r] /\ handler'[r] = handler[r] /\ reader'[r] = reader[r]
            /\ handler[r] # "idle" => session[r].token \in Token
        BY <1>1, <2>2 DEF Elsewhere, UseInv, SessionInv, SessionOK
      <3>2. HolderOK(r) /\ LateOK(r)
        BY DEF SenderInv
      <3>3. LateOK(r)'
        <4>1. CASE handler[r] = "idle"
          <5>1. ~session[r].released
            BY <4>1 DEF UseInv, SessionInv, SessionOK
          <5> QED
            BY <3>1, <3>2, <4>1, <5>1 DEF LateOK
        <4>2. CASE handler[r] # "idle"
          BY <1>3, <1>5, <3>1, <3>2, <4>2 DEF LateOK, Gone
        <4> QED
          BY <4>1, <4>2
      <3>4. HolderOK(r)'
        BY <1>5, <1>7, <2>2, <3>1, <3>2 DEF HolderOK
      <3> QED
        BY <3>3, <3>4
    <2> QED
      BY <2>1, <2>2
  <1> QED
    BY <1>8, <1>9 DEF SenderInv
-----------------------------------------------------------------------------
(* Whoever settles for an open session uses its ticket up, or gives back   *)
(* one that no other session has a claim to.                               *)
LEMMA ReleaseSender ==
    ASSUME UseInv, FlowInv, SenderInv, NEW s \in Session, handler[s] # "idle", Releases(s)
    PROVE  SenderInv'
  <1>1. PICK why \in Outcomes \ {"none"}, next \in Places \ {"idle"} :
          /\ Release(s, why, next)
          /\ Gone(s) => next = handler[s]
          /\ next \in {"over", "finished"} \/ ~tickets.of[session[s].token].live
    BY DEF Releases
  <1>2. UNCHANGED <<issued, reader>>
    BY DEF Releases
  <1>3. /\ Elsewhere(s) /\ session'[s] \in SessionType /\ handler'[s] = next
        /\ session'[s].token = session[s].token /\ SamePlan(session[s], session'[s])
        /\ session[s].released => session' = session /\ tickets' = tickets
        /\ ~session[s].released =>
             /\ session'[s].released /\ session'[s].done
             /\ tickets' = SettleTicket(tickets, session[s].token, s, session[s].sent)
    BY <1>1, ReleaseShape DEF UseInv, Releases
  <1>4. CASE session[s].released
    BY <1>1, <1>2, <1>3, <1>4, SenderMoves DEF SameEnd, Gone
  <1>5. CASE ~session[s].released
    <2>1. /\ ~session[s].done /\ Open(s) /\ reader[s] \notin {"settling", "recording"}
      BY <1>5 DEF SenderInv, LateOK, Open
    <2>2. PICK t \in Token : t = session[s].token
      BY DEF UseInv, SessionInv, SessionOK
    <2>3. /\ tickets \in Store /\ session[s].sent \in Nat /\ s # NoSession /\ t \in issued
      BY <2>2, ArchiveAssumption DEF UseInv, UseTypes, SessionType, SenderInv, LateOK
    <2>4. tickets.of[t].live => tickets.of[t].bound = s
      BY <2>1, <2>2 DEF SenderInv, HolderOK
    <2>5. /\ \A u \in Token : u # t => tickets'.of[u] = tickets.of[u]
          /\ tickets'.of[t].live = tickets.of[t].live
      <3> DEFINE bytes == session[s].sent
      <3>1. bytes \in Nat /\ tickets' = SettleTicket(tickets, t, s, bytes)
        BY <1>3, <1>5, <2>2, <2>3
      <3> HIDE DEF bytes
      <3>2. /\ \A u \in Token : u # t => tickets'.of[u] = tickets.of[u]
            /\ \/ tickets' = tickets
               \/ /\ tickets.of[t].live /\ tickets.of[t].bound = s /\ tickets'.of[t].live
                  /\ \/ tickets'.of[t].bound = s /\ tickets'.of[t].spent
                     \/ /\ tickets'.of[t].bound = NoSession
                        /\ tickets'.of[t].spent = tickets.of[t].spent
        BY <2>2, <2>3, <3>1, SettleTouchesOwn
      <3>3. tickets' \in Store
        BY <2>2, <2>3, <3>1, SettleTouchesOwn
      <3>4. tickets.of[t].live \in BOOLEAN /\ tickets'.of[t].live \in BOOLEAN
        BY <2>3, <3>3 DEF Store, Ticket
      <3> QED
        BY <3>2, <3>4
    <2>6. tickets.of[t].live =>
            IF session[s].sent > 0
            THEN tickets'.of[t].bound = s /\ tickets'.of[t].spent
            ELSE tickets'.of[t].bound = NoSession
      <3> SUFFICES ASSUME tickets.of[t].live
                   PROVE  IF session[s].sent > 0
                          THEN tickets'.of[t].bound = s /\ tickets'.of[t].spent
                          ELSE tickets'.of[t].bound = NoSession
        OBVIOUS
      <3> DEFINE old == tickets.of[t]
                 used == [old EXCEPT !.spent = TRUE]
                 back == [old EXCEPT !.bound = NoSession, !.retry = TRUE]
                 k == IF session[s].sent > 0 THEN used ELSE back
      <3>1. old \in Ticket /\ tickets.of \in [Token -> Ticket]
        BY <2>3 DEF Store
      <3>2. used.bound = s /\ used.spent /\ back.bound = NoSession
        BY <2>4, <3>1 DEF Ticket
      <3>3. tickets' = [tickets EXCEPT !.of = [tickets.of EXCEPT ![t] = k]]
        BY <1>3, <1>5, <2>2, <2>4 DEF SettleTicket
      <3>4. IF session[s].sent > 0 THEN k.bound = s /\ k.spent ELSE k.bound = NoSession
        BY <3>2
      <3> HIDE DEF k
      <3>5. tickets'.of[t] = k
        BY <2>3, <3>1, <3>3 DEF Store
      <3> QED
        BY <3>4, <3>5
    <2>7. \A r \in Session : Open(r)' => Open(r)
      BY <1>3, <2>1 DEF Open, Gone, Elsewhere
    <2>8. OneOpen'
      BY <1>3, <2>7 DEF SenderInv, OneOpen, Elsewhere
    <2>9. ASSUME NEW r \in Session
          PROVE  LateOK(r)'
      <3>1. CASE r = s
        BY <1>1, <1>2, <1>3, <1>5, <2>1, <2>2, <2>3, <2>5, <3>1 DEF LateOK, Gone
      <3>2. CASE r # s
        <4>1. /\ session'[r] = session[r] /\ handler'[r] = handler[r]
              /\ reader'[r] = reader[r] /\ LateOK(r)
          BY <1>3, <3>2 DEF Elsewhere, SenderInv
        <4>2. CASE handler[r] = "idle"
          <5>1. ~session[r].released
            BY <4>2 DEF UseInv, SessionInv, SessionOK
          <5> QED
            BY <4>1, <4>2, <5>1 DEF LateOK
        <4>3. CASE handler[r] # "idle"
          <5>1. session[r].token \in Token
            BY <4>3 DEF UseInv, SessionInv, SessionOK
          <5>2. tickets'.of[session[r].token].live = tickets.of[session[r].token].live
            BY <2>5, <5>1
          <5> QED
            BY <1>2, <4>1, <4>3, <5>2 DEF LateOK, Gone
        <4> QED
          BY <4>2, <4>3
      <3> QED
        BY <3>1, <3>2
    <2>10. ASSUME NEW r \in Session
           PROVE  HolderOK(r)'
      <3>1. CASE r = s
        <4>1. CASE ~tickets.of[t].live
          BY <1>3, <2>2, <2>5, <3>1, <4>1 DEF HolderOK
        <4>2. CASE tickets.of[t].live /\ session[s].sent > 0
          BY <1>3, <2>2, <2>6, <3>1, <4>2 DEF HolderOK
        <4>3. CASE tickets.of[t].live /\ ~(session[s].sent > 0)
          <5>1. ~Open(s)'
            BY <1>1, <1>3, <1>5, <2>2, <4>3 DEF Open, Gone, SamePlan
          <5> QED
            BY <1>3, <2>2, <2>3, <2>6, <3>1, <4>3, <5>1 DEF HolderOK
        <4> QED
          BY <4>1, <4>2, <4>3
      <3>2. CASE r # s
        <4>1. /\ session'[r] = session[r] /\ handler'[r] = handler[r] /\ HolderOK(r)
              /\ handler[r] # "idle" => session[r].token \in Token
          BY <1>3, <3>2 DEF Elsewhere, SenderInv, UseInv, SessionInv, SessionOK
        <4>2. CASE session[r].token = t
          <5>1. ~Open(r)
            BY <2>1, <2>2, <3>2, <4>2 DEF SenderInv, OneOpen
          <5>2. tickets.of[t].live => tickets'.of[t].bound # r
            BY <2>3, <2>6, <3>2, ArchiveAssumption
          <5> QED
            BY <2>5, <2>7, <4>1, <4>2, <5>1, <5>2 DEF HolderOK
        <4>3. CASE session[r].token # t
          BY <2>5, <2>7, <4>1, <4>3 DEF HolderOK
        <4> QED
          BY <4>2, <4>3
      <3> QED
        BY <3>1, <3>2
    <2> QED
      BY <2>8, <2>9, <2>10 DEF SenderInv
  <1> QED
    BY <1>4, <1>5

LEMMA LoopSender ==
    ASSUME UseInv, FlowInv, SenderInv, NEW s \in Session,
           Loop(s) \/ BudgetEnds(s) \/ LeavesWhilePlanning(s) \/ NeverStarts(s) \/ FrameLost(s)
    PROVE  SenderInv'
  <1>1. handler[s] # "idle"
    BY LoopShape
  <1>2. CASE Glides(s)
    <2>1. /\ ~Gone(s) /\ UNCHANGED <<tickets, issued, session, reader>>
          /\ \A r \in Session : handler'[r] = "idle" <=> handler[r] = "idle"
          /\ \A r \in Session \ {s} : handler'[r] = handler[r]
      BY <1>1, <1>2 DEF Glides, UseInv, UseTypes
    <2>2. \A r \in Session : Open(r)' => Open(r)
      BY <1>1, <2>1 DEF Open, Gone
    <2> QED
      BY <2>1, <2>2, SenderKept DEF Gone
  <1>3. CASE FrameSent(s)
    <2>1. /\ Elsewhere(s) /\ SameEnd(session[s], session'[s])
          /\ session'[s].token = session[s].token /\ handler'[s] # "idle" /\ ~Gone(s)
          /\ UNCHANGED <<tickets, issued, reader>>
      BY <1>3, FrameSentShape DEF UseInv, Gone
    <2> QED
      BY <1>1, <2>1, SenderMoves
  <1> QED
    BY <1>1, <1>2, <1>3, LoopShape, ReleaseSender

(* The reader releases and settles a session whose ticket has lapsed.      *)
LEMMA GivesUpSender ==
    ASSUME UseInv, FlowInv, SenderInv, ~MayRaise, NEW s \in Session, ReaderGivesUp(s)
    PROVE  SenderInv'
  <1>1. /\ Elsewhere(s) /\ session'[s].token = session[s].token
        /\ SamePlan(session[s], session'[s]) /\ session'[s].released
        /\ session'[s].done = session[s].done /\ reader[s] = "streaming" /\ ~session[s].cancel
        /\ reader'[s] = "settling" /\ UNCHANGED <<tickets, issued, handler>>
    BY GivesUpShape DEF UseInv, FlowInv
  <1>2. ~tickets.of[session[s].token].live
    BY DEF ReaderGivesUp
  <1>3. ~session[s].released /\ handler[s] # "idle"
    BY <1>1 DEF UseInv, SessionInv, SessionOK
  <1>4. \A r \in Session : Open(r)' <=> Open(r)
    BY <1>1 DEF Open, Gone, Elsewhere, SamePlan
  <1>5. OneOpen'
    BY <1>1, <1>4 DEF SenderInv, OneOpen, Elsewhere
  <1>6. ASSUME NEW r \in Session
        PROVE  HolderOK(r)' /\ LateOK(r)'
    <2>1. HolderOK(r) /\ LateOK(r)
      BY DEF SenderInv
    <2>2. CASE r = s
      BY <1>1, <1>2, <1>3, <2>1, <2>2 DEF HolderOK, LateOK
    <2>3. CASE r # s
      BY <1>1, <1>4, <2>1, <2>3 DEF HolderOK, LateOK, Gone, Elsewhere
    <2> QED
      BY <2>2, <2>3
  <1> QED
    BY <1>5, <1>6 DEF SenderInv

LEMMA RecordsSender ==
    ASSUME UseInv, SenderInv, NEW s \in Session, ReaderRecords(s)
    PROVE  SenderInv'
  <1>1. /\ Elsewhere(s) /\ session'[s].token = session[s].token
        /\ SamePlan(session[s], session'[s]) /\ session'[s].done
        /\ session'[s].released = session[s].released
        /\ reader[s] = "recording" /\ reader'[s] = "over"
        /\ UNCHANGED <<tickets, issued, handler>>
    BY RecordsShape DEF UseInv
  <1>2. /\ handler[s] # "idle" /\ session[s].released /\ ~session[s].done
        /\ ~tickets.of[session[s].token].live
    BY <1>1 DEF UseInv, SessionInv, SessionOK, SenderInv, LateOK
  <1>3. \A r \in Session : Open(r)' => Open(r)
    BY <1>1, <1>2 DEF Open, Gone, Elsewhere
  <1>4. OneOpen'
    BY <1>1, <1>3 DEF SenderInv, OneOpen, Elsewhere
  <1>5. ASSUME NEW r \in Session
        PROVE  HolderOK(r)' /\ LateOK(r)'
    <2>1. HolderOK(r) /\ LateOK(r)
      BY DEF SenderInv
    <2>2. CASE r = s
      BY <1>1, <1>2, <2>1, <2>2 DEF HolderOK, LateOK
    <2>3. CASE r # s
      BY <1>1, <1>3, <2>1, <2>3 DEF HolderOK, LateOK, Gone, Elsewhere
    <2> QED
      BY <2>2, <2>3
  <1> QED
    BY <1>4, <1>5 DEF SenderInv

LEMMA ReadersSender ==
    ASSUME UseInv, FlowInv, SenderInv, ~MayRaise, NEW s \in Session,
           Reader(s) \/ ReaderGivesUp(s)
    PROVE  SenderInv'
  <1>1. ASSUME NEW n \in 0..MaxItems, NEW result \in {"ready", "refused", "failed"},
               Preflight(s, result, n)
        PROVE  SenderInv'
    <2>1. /\ Elsewhere(s) /\ SameEnd(session[s], session'[s])
          /\ session'[s].token = session[s].token /\ session'[s].sent = session[s].sent
          /\ reader[s] = "preflight" /\ reader'[s] \in {"streaming", "over"}
          /\ UNCHANGED <<tickets, issued, handler>>
      BY <1>1, PreflightShape DEF UseInv
    <2>2. handler[s] # "idle"
      BY <2>1 DEF UseInv, SessionInv, SessionOK
    <2> QED
      BY <2>1, <2>2, SenderMoves DEF Gone
  <1>2. CASE PreflightCancelled(s) \/ ReadItem(s) \/ ReaderStops(s)
    <2>1. /\ UNCHANGED <<tickets, issued, session, handler>>
          /\ \A r \in Session : reader'[r] \in {"settling", "recording"} <=>
               reader[r] \in {"settling", "recording"}
      BY <1>2 DEF PreflightCancelled, ReadItem, ReaderStops, ReaderEnds, UseInv, UseTypes
    <2>2. \A r \in Session : Open(r)' <=> Open(r)
      BY <2>1 DEF Open, Gone
    <2> QED
      BY <2>1, <2>2, SenderKept DEF Gone
  <1>3. CASE ReaderSettles(s)
    <2>1. ~tickets.of[session[s].token].live
      BY <1>3 DEF ReaderSettles, SenderInv, LateOK
    <2>2. tickets' = tickets
      BY <1>3, <2>1 DEF ReaderSettles, SettleTicket
    <2>3. /\ UNCHANGED <<tickets, issued, session, handler>>
          /\ \A r \in Session : reader'[r] \in {"settling", "recording"} <=>
               reader[r] \in {"settling", "recording"}
      BY <1>3, <2>2 DEF ReaderSettles, UseInv, UseTypes
    <2>4. \A r \in Session : Open(r)' <=> Open(r)
      BY <2>3 DEF Open, Gone
    <2> QED
      BY <2>3, <2>4, SenderKept DEF Gone
  <1> QED
    <2>1. 0 \in 0..MaxItems
      BY ArchiveAssumption
    <2> QED
      BY <1>1, <1>2, <1>3, <2>1, GivesUpSender, RecordsSender DEF Reader

LEMMA NextSender ==
    ASSUME UseInv, FlowInv, SenderInv, ~MayRaise, [Next]_vars
    PROVE  SenderInv'
  <1>1. CASE UNCHANGED vars
    <2>1. UNCHANGED <<tickets, issued, session, handler, reader>>
      BY <1>1 DEF vars
    <2>2. \A r \in Session : Open(r)' <=> Open(r)
      BY <2>1 DEF Open, Gone
    <2> QED
      BY <2>1, <2>2, SenderKept DEF Gone
  <1>2. CASE Lapse /\ Token = {}
    <2>1. tickets.order \in Seq(Token) /\ tickets.order # << >>
      BY <1>2 DEF Lapse, UseInv, UseTypes, Store
    <2>2. Head(tickets.order) \in Token
      BY <2>1
    <2> QED
      BY <1>2, <2>2
  <1> QED
    BY <1>1, <1>2, StoreSender, RedeemSender, StartFailsSender, LoopSender, ReadersSender
    DEF Next

LEMMA InitSender ==
    ASSUME Init
    PROVE  SenderInv
  BY DEF Init, SenderInv, OneOpen, HolderOK, LateOK, Open

LEMMA SendersHold ==
    ASSUME ~MayRaise
    PROVE  Spec => []SenderInv
  <1>1. Init => SenderInv
    BY InitSender
  <1>2. UseInv /\ FlowInv /\ SenderInv /\ [Next]_vars => SenderInv'
    BY NextSender
  <1>3. SessionsInv => UseInv /\ FlowInv
    BY DEF SessionsInv
  <1> QED
    BY <1>1, <1>2, <1>3, SessionsHold, PTL DEF Spec

(* Two redemptions of one ticket never both send bytes, for any number of  *)
(* sessions and tokens and whatever places the stores have, as long as no  *)
(* reader meets an unexpected exception: one that does may release a       *)
(* session while a frame of it is on its way, and give its ticket back.    *)
THEOREM OnlyOneSends ==
    ASSUME ~MayRaise
    PROVE  Spec => []OneSender
  <1>1. SessionsInv /\ SenderInv => OneSender
    <2> SUFFICES ASSUME SenderInv, UseInv, NEW r \in Arrived, NEW s \in Arrived,
                        r # s, session[r].token = session[s].token,
                        session[r].sent # 0, session[s].sent # 0
                 PROVE  FALSE
      BY DEF OneSender, SessionsInv
    <2>1. r \in Session /\ s \in Session /\ handler[r] # "idle" /\ handler[s] # "idle"
      BY DEF Arrived
    <2>2. session[r].sent \in Nat /\ session[s].sent \in Nat
      BY <2>1 DEF UseInv, UseTypes, SessionType
    <2>3. Open(r) /\ Open(s)
      BY <2>1, <2>2 DEF Open
    <2> QED
      BY <2>1, <2>3 DEF SenderInv, OneOpen
  <1> QED
    BY <1>1, SessionsHold, SendersHold, PTL
-----------------------------------------------------------------------------
(* No record leaves a status store with a place for every token.           *)
Roomy == IsFiniteSet(Token) /\ Cardinality(Token) <= StatusMax

Distinct(order) == \A i, j \in 1..Len(order) : order[i] = order[j] => i = j
StatusFits == StatusTyped /\ status.order \in Seq(Token) /\ Distinct(status.order)

LEMMA WithoutDistinct ==
    ASSUME NEW order \in Seq(Token), Distinct(order), NEW t \in Token
    PROVE  LET new == Append(Without(order, t), t) IN
           new \in Seq(Token) /\ Distinct(new)
  <1> DEFINE rest == Without(order, t)
  <1>1. Len(order) \in Nat /\ \A i \in 1..Len(order) : order[i] \in Token
    OBVIOUS
  <1>2. /\ rest \in Seq(Token) /\ Distinct(rest)
        /\ \A i \in 1..Len(rest) : rest[i] # t
    <2>1. CASE \A i \in 1..Len(order) : order[i] # t
      <3>1. rest = order
        BY <2>1 DEF Without
      <3> QED
        BY <2>1, <3>1
    <2>2. CASE ~\A i \in 1..Len(order) : order[i] # t
      <3> DEFINE k == CHOOSE i \in 1..Len(order) : order[i] = t
                 front == SubSeq(order, 1, k - 1)
                 back == SubSeq(order, k + 1, Len(order))
      <3>1. k \in 1..Len(order) /\ order[k] = t
        BY <2>2
      <3>2. rest = front \o back
        BY <2>2 DEF Without
      <3> HIDE DEF k, rest
      <3>3. /\ front \in Seq(Token) /\ Len(front) = k - 1
            /\ \A i \in 1..k - 1 : front[i] = order[i]
        <4>1. \A i \in 1..k - 1 : order[i] \in Token
          BY <1>1, <3>1
        <4>2. 1 \in Int /\ k - 1 \in Int
          BY <3>1
        <4>3. \A i \in 1..k - 1 - 1 + 1 : front[i] = order[1 + i - 1]
          BY <4>1, <4>2, SubSeqProperties
        <4>4. Len(front) = k - 1
          BY <3>1, <4>1, <4>2, SubSeqProperties
        <4> QED
          BY <3>1, <4>1, <4>2, <4>3, <4>4, SubSeqProperties
      <3>4. /\ back \in Seq(Token) /\ Len(back) = Len(order) - k
            /\ \A i \in 1..Len(order) - k : back[i] = order[i + k]
        <4>1. \A i \in k + 1..Len(order) : order[i] \in Token
          BY <1>1, <3>1
        <4>2. k + 1 \in Int /\ Len(order) \in Int /\ k \in Int
          BY <1>1, <3>1
        <4>3. \A i \in 1..Len(order) - (k + 1) + 1 : back[i] = order[k + 1 + i - 1]
          BY <4>1, <4>2, SubSeqProperties
        <4>4. Len(back) = Len(order) - k
          BY <3>1, <4>1, <4>2, SubSeqProperties
        <4>5. back \in Seq(Token)
          BY <4>1, <4>2, SubSeqProperties
        <4>6. ASSUME NEW i \in 1..Len(order) - k
              PROVE  back[i] = order[i + k]
          <5>1. i \in 1..Len(order) - (k + 1) + 1 /\ k + 1 + i - 1 = i + k
            BY <4>2
          <5> QED
            BY <4>3, <5>1
        <4> QED
          BY <4>4, <4>5, <4>6
      <3> HIDE DEF front, back
      <3>5. /\ rest \in Seq(Token) /\ Len(rest) = Len(order) - 1
            /\ \A i \in 1..Len(order) - 1 : rest[i] = order[IF i < k THEN i ELSE i + 1]
        <4>1. /\ rest \in Seq(Token) /\ Len(rest) = Len(front) + Len(back)
              /\ \A i \in 1..Len(front) + Len(back) :
                   rest[i] = IF i <= Len(front) THEN front[i] ELSE back[i - Len(front)]
          BY <3>2, <3>3, <3>4, ConcatProperties
        <4>2. Len(front) + Len(back) = Len(order) - 1
          BY <1>1, <3>1, <3>3, <3>4
        <4>3. ASSUME NEW i \in 1..Len(order) - 1
              PROVE  rest[i] = order[IF i < k THEN i ELSE i + 1]
          <5>1. CASE i < k
            BY <1>1, <3>1, <3>3, <4>1, <4>2, <5>1
          <5>2. CASE ~(i < k)
            <6>1. i - (k - 1) \in 1..Len(order) - k /\ i - (k - 1) + k = i + 1
              BY <1>1, <3>1, <5>2
            <6>2. rest[i] = back[i - (k - 1)]
              BY <1>1, <3>1, <3>3, <4>1, <4>2, <5>2
            <6> QED
              BY <3>4, <5>2, <6>1, <6>2
          <5> QED
            BY <5>1, <5>2
        <4> QED
          BY <4>1, <4>2, <4>3
      <3>6. \A i \in 1..Len(rest) : (IF i < k THEN i ELSE i + 1) \in 1..Len(order)
                                    /\ (IF i < k THEN i ELSE i + 1) # k
        BY <1>1, <3>1, <3>5
      <3>7. \A i \in 1..Len(rest) : rest[i] # t
        BY <3>1, <3>5, <3>6 DEF Distinct
      <3>8. Distinct(rest)
        <4> SUFFICES ASSUME NEW i \in 1..Len(rest), NEW j \in 1..Len(rest), rest[i] = rest[j]
                     PROVE  i = j
          BY DEF Distinct
        <4>1. (IF i < k THEN i ELSE i + 1) = (IF j < k THEN j ELSE j + 1)
          BY <3>5, <3>6 DEF Distinct
        <4> QED
          BY <1>1, <3>1, <3>5, <4>1
      <3> QED
        BY <3>5, <3>7, <3>8
    <2> QED
      BY <2>1, <2>2
  <1> HIDE DEF rest
  <1>3. /\ Append(rest, t) \in Seq(Token) /\ Len(rest) \in Nat
        /\ Len(Append(rest, t)) = Len(rest) + 1
        /\ \A i \in 1..Len(rest) : Append(rest, t)[i] = rest[i]
        /\ Append(rest, t)[Len(rest) + 1] = t
    BY <1>2
  <1>4. Distinct(Append(rest, t))
    <2> SUFFICES ASSUME NEW i \in 1..Len(rest) + 1, NEW j \in 1..Len(rest) + 1,
                        Append(rest, t)[i] = Append(rest, t)[j]
                 PROVE  i = j
      BY <1>3 DEF Distinct
    <2>1. CASE i \in 1..Len(rest) /\ j \in 1..Len(rest)
      BY <1>2, <1>3, <2>1 DEF Distinct
    <2>2. CASE i = Len(rest) + 1 \/ j = Len(rest) + 1
      BY <1>2, <1>3, <2>2
    <2> QED
      BY <1>3, <2>1, <2>2
  <1> QED
    BY <1>3, <1>4 DEF rest

LEMMA DistinctFits ==
    ASSUME Roomy, NEW order \in Seq(Token), Distinct(order)
    PROVE  Len(order) <= StatusMax
  <1>1. order \in Injection(1..Len(order), Token) /\ Len(order) \in Nat
    BY DEF Distinct, Injection, IsInjective
  <1>2. Cardinality(1..Len(order)) <= Cardinality(Token)
    BY <1>1, FS_Injection DEF Roomy
  <1>3. Cardinality(1..Len(order)) = Len(order)
    <2>1. Cardinality(1..Len(order)) = IF 1 > Len(order) THEN 0 ELSE Len(order) - 1 + 1
      BY <1>1, FS_Interval
    <2> QED
      BY <1>1, <2>1
  <1>4. Cardinality(Token) \in Nat /\ StatusMax \in Nat
    BY FS_CardinalityType, ArchiveAssumption DEF Roomy
  <1> QED
    BY <1>1, <1>2, <1>3, <1>4 DEF Roomy

(* A record that is not dropped replaces that of its token, and no other.  *)
Fitting(store) ==
    store.of \in [Token -> Record] /\ store.order \in Seq(Token) /\ Distinct(store.order)

LEMMA EnterOnly ==
    ASSUME Roomy, NEW store, Fitting(store), NEW t \in Token, NEW rec \in Record
    PROVE  LET new == Enter(store, t, rec) IN
           /\ Fitting(new) /\ new.of[t] = rec
           /\ \A u \in Token : u # t => new.of[u] = store.of[u]
  <1> DEFINE order == Append(Without(store.order, t), t)
             of == [store.of EXCEPT ![t] = rec]
  <1>1. order \in Seq(Token) /\ Distinct(order)
    BY WithoutDistinct DEF Fitting
  <1>2. ~(Len(order) > StatusMax)
    <2> HIDE DEF order
    <2>1. Len(order) <= StatusMax /\ Len(order) \in Nat
      BY <1>1, DistinctFits
    <2> QED
      BY <2>1, ArchiveAssumption
  <1>3. Enter(store, t, rec) = [of |-> of, order |-> order]
    BY <1>2 DEF Enter
  <1>4. of \in [Token -> Record] /\ of[t] = rec
        /\ \A u \in Token : u # t => of[u] = store.of[u]
    BY DEF Fitting
  <1> HIDE DEF order, of
  <1> QED
    BY <1>1, <1>3, <1>4 DEF Fitting

LEMMA RecordOnly ==
    ASSUME Roomy, NEW store, Fitting(store), NEW t \in Token, NEW rec \in Record
    PROVE  LET new == RecordStatus(store, t, rec) IN
           /\ Fitting(new)
           /\ \A u \in Token : u # t => new.of[u] = store.of[u]
           /\ \/ /\ new = store
                 /\ \/ store.of[t].state = "Terminal" /\ rec.state # "Preparing"
                    \/ /\ rec.outcome = "Refused"
                       /\ store.of[t].state \in {"Preparing", "Streaming"}
              \/ new.of[t] = rec
           /\ (store.of[t].state # "Terminal" \/ rec.state = "Preparing")
                /\ rec.outcome # "Refused" => new.of[t] = rec
  <1> DEFINE dropped == \/ store.of[t].state = "Terminal" /\ rec.state # "Preparing"
                        \/ /\ rec.outcome = "Refused"
                           /\ store.of[t].state \in {"Preparing", "Streaming"}
  <1>1. CASE dropped
    <2>1. RecordStatus(store, t, rec) = store
      BY <1>1 DEF RecordStatus
    <2> QED
      BY <1>1, <2>1
  <1>2. CASE ~dropped
    <2>1. RecordStatus(store, t, rec) = Enter(store, t, rec)
      BY <1>2 DEF RecordStatus
    <2> QED
      BY <1>2, <2>1, EnterOnly
  <1> QED
    BY <1>1, <1>2
-----------------------------------------------------------------------------
(* A live record is that of the one session of its token that is not done; *)
(* a session that is done before its handler knows has the terminal one.   *)
Polled(t) == status.of[t].state \in {"Preparing", "Streaming"}

OwnerOK(t) ==
    Polled(t) =>
      LET s == status.of[t].by IN
      s \in Session /\ handler[s] # "idle" /\ session[s].token = t /\ ~session[s].done

WriterOK(s) ==
    handler[s] # "idle" =>
      LET t == session[s].token IN
      /\ ~session[s].done => Polled(t) /\ status.of[t].by = s
      /\ session[s].done /\ ~Gone(s) => status.of[t].state = "Terminal"

StatusInv ==
    /\ Fitting(status)
    /\ \A t \in Token : OwnerOK(t)
    /\ \A s \in Session : WriterOK(s)

(* A step that writes no record and ends no session.                       *)
LEMMA StatusKept ==
    ASSUME UseInv, SenderInv, StatusInv, status' = status,
           \A r \in Session :
             /\ handler[r] = "idle" <=> handler'[r] = "idle"
             /\ session'[r].token = session[r].token
             /\ session'[r].done = session[r].done
             /\ Gone(r) => handler'[r] \in {"over", "finished"}
    PROVE  StatusInv'
  <1>1. \A t \in Token : OwnerOK(t)'
    BY DEF StatusInv, OwnerOK, Polled
  <1>2. \A r \in Session : WriterOK(r)'
    BY DEF StatusInv, WriterOK, Polled, Gone
  <1> QED
    BY <1>1, <1>2 DEF StatusInv, Fitting

(* A record for t: the sessions of other tokens keep theirs.               *)
LEMMA OthersKept ==
    ASSUME UseInv, SenderInv, StatusInv, NEW t \in Token, NEW s \in Session,
           \A u \in Token : u # t => status'.of[u] = status.of[u],
           \A r \in Session \ {s} : session'[r] = session[r] /\ handler'[r] = handler[r],
           handler[s] # "idle" => session[s].token = t,
           handler'[s] # "idle" => session'[s].token = t
    PROVE  /\ \A u \in Token \ {t} : OwnerOK(u)'
           /\ \A r \in Session \ {s} : session[r].token # t => WriterOK(r)'
  <1>1. ASSUME NEW u \in Token \ {t}
        PROVE  OwnerOK(u)'
    <2>1. OwnerOK(u) /\ status'.of[u] = status.of[u]
      BY DEF StatusInv
    <2>2. Polled(u) => status.of[u].by # s
      BY <2>1 DEF OwnerOK
    <2> QED
      BY <2>1, <2>2 DEF OwnerOK, Polled
  <1>2. ASSUME NEW r \in Session \ {s}, session[r].token # t
        PROVE  WriterOK(r)'
    <2>1. CASE handler[r] = "idle"
      BY <2>1 DEF WriterOK
    <2>2. CASE handler[r] # "idle"
      <3>1. session[r].token \in Token /\ WriterOK(r)
        BY <2>2 DEF UseInv, SessionInv, SessionOK, StatusInv
      <3> QED
        BY <1>2, <2>2, <3>1 DEF WriterOK, Polled, Gone
    <2> QED
      BY <2>1, <2>2
  <1> QED
    BY <1>1, <1>2

(* Nobody else has a claim to the record of a token whose open session is  *)
(* s, or that has none.                                                    *)
LEMMA AloneKept ==
    ASSUME UseInv, SenderInv, NEW t \in Token, NEW s \in Session,
           \A r \in Session \ {s} :
             /\ session'[r] = session[r] /\ handler'[r] = handler[r]
             /\ handler[r] # "idle" /\ session[r].token = t => ~Open(r)
    PROVE  \A r \in Session \ {s} : session[r].token = t => WriterOK(r)'
  BY DEF WriterOK, Open, Gone

LEMMA RefuseStatus ==
    ASSUME Roomy, UseInv, SenderInv, StatusInv, NEW t \in Token, NEW local, Refuse(t, local)
    PROVE  StatusInv'
  <1>1. /\ UNCHANGED <<session, handler>>
        /\ status' = RecordStatus(status, t, Terminal(NoSession, "Refused"))
    BY DEF Refuse
  <1>2. /\ Terminal(NoSession, "Refused") \in Record
        /\ Terminal(NoSession, "Refused").state = "Terminal"
    BY DEF Terminal, Record
  <1>3. /\ Fitting(status')
        /\ \A u \in Token : u # t => status'.of[u] = status.of[u]
        /\ \/ status' = status
           \/ status'.of[t] = Terminal(NoSession, "Refused")
        /\ status.of[t].state \in {"Preparing", "Streaming"} => status' = status
    <2>1. Fitting(status)
      BY DEF StatusInv
    <2>2. /\ Fitting(status')
          /\ \A u \in Token : u # t => status'.of[u] = status.of[u]
          /\ status' = status \/ status'.of[t] = Terminal(NoSession, "Refused")
      BY <1>1, <1>2, <2>1, RecordOnly
    <2>3. status.of[t].state \in {"Preparing", "Streaming"} => status' = status
      BY <1>1 DEF RecordStatus, Terminal
    <2> QED
      BY <2>2, <2>3
  <1>4. CASE status' = status
    BY <1>1, <1>4, StatusKept DEF Gone
  <1>5. CASE status' # status
    <2>1. ~Polled(t) /\ status'.of[t].state = "Terminal"
      BY <1>2, <1>3, <1>5 DEF Polled
    <2>2. ASSUME NEW u \in Token
          PROVE  OwnerOK(u)'
      BY <1>1, <1>3, <2>1 DEF StatusInv, OwnerOK, Polled
    <2>3. ASSUME NEW r \in Session
          PROVE  WriterOK(r)'
      <3>1. handler[r] # "idle" => session[r].token \in Token
        BY DEF UseInv, SessionInv, SessionOK
      <3>2. WriterOK(r)
        BY DEF StatusInv
      <3>3. CASE session[r].token = t
        BY <1>1, <2>1, <3>2, <3>3 DEF WriterOK, Gone
      <3>4. CASE session[r].token # t
        BY <1>1, <1>3, <3>1, <3>2, <3>4 DEF WriterOK, Gone, Polled
      <3> QED
        BY <3>3, <3>4
    <2> QED
      BY <1>3, <2>2, <2>3 DEF StatusInv
  <1> QED
    BY <1>4, <1>5

(* No session of an admissible ticket that nobody holds is still open.     *)
LEMMA NobodyOpen ==
    ASSUME SenderInv, NEW t \in Token, tickets.of[t].live, tickets.of[t].bound = NoSession
    PROVE  \A r \in Session : handler[r] # "idle" /\ session[r].token = t => ~Open(r)
  BY ArchiveAssumption DEF SenderInv, HolderOK

LEMMA RedeemStatus ==
    ASSUME Roomy, UseInv, SenderInv, StatusInv, NEW s \in Session, NEW t \in Token, NEW local,
           Redeem(s, t, local)
    PROVE  StatusInv'
  <1> DEFINE rec == [state |-> "Preparing", outcome |-> "none", by |-> s]
  <1>1. /\ Elsewhere(s) /\ session'[s].token = t /\ SameEnd(session[s], session'[s])
        /\ handler[s] = "idle" /\ handler'[s] = "planning"
    BY RedeemShape DEF UseInv
  <1>2. ~session'[s].done
    BY <1>1 DEF SameEnd, SenderInv, LateOK
  <1>3. /\ Fitting(status') /\ status'.of[t] = rec
        /\ \A u \in Token : u # t => status'.of[u] = status.of[u]
    <2>1. /\ Fitting(status) /\ rec \in Record /\ rec.state = "Preparing"
          /\ rec.outcome = "none" /\ status' = RecordStatus(status, t, rec)
      BY RecordsIn DEF StatusInv, Redeem
    <2> HIDE DEF rec
    <2>2. /\ Fitting(status')
          /\ \A u \in Token : u # t => status'.of[u] = status.of[u]
      BY <2>1, RecordOnly
    <2>3. status'.of[t] = rec
      BY <2>1, RecordOnly
    <2> QED
      BY <2>2, <2>3
  <1>4. \A r \in Session : handler[r] # "idle" /\ session[r].token = t => ~Open(r)
    BY NobodyOpen DEF Redeem, Admissible
  <1>5. OwnerOK(t)' /\ WriterOK(s)'
    BY <1>1, <1>2, <1>3 DEF OwnerOK, WriterOK, Polled, Gone
  <1>6. /\ \A u \in Token \ {t} : OwnerOK(u)'
        /\ \A r \in Session \ {s} : session[r].token # t => WriterOK(r)'
    BY <1>1, <1>3, OthersKept DEF Elsewhere
  <1>7. \A r \in Session \ {s} : session[r].token = t => WriterOK(r)'
    BY <1>1, <1>4, AloneKept DEF Elsewhere
  <1> QED
    BY <1>3, <1>5, <1>6, <1>7 DEF StatusInv

(* The step in which s is done writes its terminal record.                 *)
LEMMA DoneStatus ==
    ASSUME Roomy, UseInv, SenderInv, StatusInv, NEW s \in Session, NEW t \in Token,
           NEW why \in Outcomes, handler[s] # "idle", session[s].token = t,
           ~session[s].done, session'[s].token = t, session'[s].done, handler'[s] # "idle",
           \A r \in Session \ {s} : session'[r] = session[r] /\ handler'[r] = handler[r],
           status' = RecordStatus(status, t, Terminal(s, why))
    PROVE  StatusInv' /\ status'.of[t].by = s
  <1> DEFINE rec == Terminal(s, why)
  <1>1. /\ rec \in Record /\ rec.state = "Terminal" /\ rec.by = s /\ rec.outcome # "Refused"
        /\ Fitting(status)
    BY RecordsIn DEF Terminal, Outcomes, StatusInv
  <1>2. status.of[t].state # "Terminal"
    BY DEF StatusInv, WriterOK, Polled
  <1>3. status' = RecordStatus(status, t, rec)
    OBVIOUS
  <1> HIDE DEF rec
  <1>4. /\ Fitting(status')
        /\ \A u \in Token : u # t => status'.of[u] = status.of[u]
    BY <1>1, <1>3, RecordOnly
  <1>5. status'.of[t] = rec
    BY <1>1, <1>2, <1>3, RecordOnly
  <1>6. Open(s)
    BY DEF Open
  <1>7. \A r \in Session \ {s} : handler[r] # "idle" /\ session[r].token = t => ~Open(r)
    BY <1>6 DEF SenderInv, OneOpen
  <1>8. OwnerOK(t)' /\ WriterOK(s)'
    BY <1>1, <1>5 DEF OwnerOK, WriterOK, Polled, Gone
  <1>9. /\ \A u \in Token \ {t} : OwnerOK(u)'
        /\ \A r \in Session \ {s} : session[r].token # t => WriterOK(r)'
    BY <1>4, OthersKept
  <1>10. \A r \in Session \ {s} : session[r].token = t => WriterOK(r)'
    BY <1>7, AloneKept
  <1> QED
    BY <1>1, <1>4, <1>5, <1>8, <1>9, <1>10 DEF StatusInv
-----------------------------------------------------------------------------
(* Whoever is done in a step has the last word on its token.               *)
Landed ==
    \A s \in Session :
      ~session[s].done /\ session'[s].done => status'.of[session'[s].token].by = s

LEMMA StartFailsStatus ==
    ASSUME Roomy, UseInv, SenderInv, StatusInv, NEW s \in Session, NEW t \in Token, NEW local,
           StartFails(s, t, local)
    PROVE  StatusInv' /\ Landed
  <1> DEFINE first == RecordStatus(status, t,
                        [state |-> "Preparing", outcome |-> "none", by |-> s])
             rec == Terminal(s, "FailedStart")
  <1>1. /\ Elsewhere(s) /\ session'[s].token = t /\ session'[s].done
        /\ handler[s] = "idle" /\ handler'[s] = "over"
    BY StartFailsShape DEF UseInv
  <1>2. /\ Fitting(first) /\ first.of[t].state = "Preparing"
        /\ \A u \in Token : u # t => first.of[u] = status.of[u]
    <2> DEFINE r == [state |-> "Preparing", outcome |-> "none", by |-> s]
    <2>1. /\ Fitting(status) /\ r \in Record /\ r.state = "Preparing" /\ r.outcome = "none"
          /\ first = RecordStatus(status, t, r)
      BY RecordsIn DEF StatusInv
    <2> HIDE DEF r, first
    <2>2. /\ Fitting(first) /\ \A u \in Token : u # t => first.of[u] = status.of[u]
      BY <2>1, RecordOnly
    <2>3. first.of[t] = r
      BY <2>1, RecordOnly
    <2> QED
      BY <2>1, <2>2, <2>3
  <1>3. /\ rec \in Record /\ rec.state = "Terminal" /\ rec.by = s /\ rec.outcome # "Refused"
        /\ status' = RecordStatus(first, t, rec)
    BY RecordsIn DEF Terminal, Outcomes, StartFails
  <1> HIDE DEF first, rec
  <1>4. /\ Fitting(status')
        /\ \A u \in Token : u # t => status'.of[u] = status.of[u]
    <2>1. /\ Fitting(status') /\ \A u \in Token : u # t => status'.of[u] = first.of[u]
      BY <1>2, <1>3, RecordOnly
    <2> QED
      BY <1>2, <2>1
  <1>5. status'.of[t] = rec
    BY <1>2, <1>3, RecordOnly
  <1>6. \A r \in Session : handler[r] # "idle" /\ session[r].token = t => ~Open(r)
    BY NobodyOpen DEF StartFails, Admissible
  <1>7. OwnerOK(t)' /\ WriterOK(s)'
    BY <1>1, <1>3, <1>5 DEF OwnerOK, WriterOK, Polled, Gone
  <1>8. /\ \A u \in Token \ {t} : OwnerOK(u)'
        /\ \A r \in Session \ {s} : session[r].token # t => WriterOK(r)'
    BY <1>1, <1>4, OthersKept DEF Elsewhere
  <1>9. \A r \in Session \ {s} : session[r].token = t => WriterOK(r)'
    BY <1>1, <1>6, AloneKept DEF Elsewhere
  <1>10. Landed
    BY <1>1, <1>3, <1>5 DEF Landed, Elsewhere
  <1> QED
    BY <1>4, <1>7, <1>8, <1>9, <1>10 DEF StatusInv

(* A response of a session that was released meanwhile writes nothing.     *)
LEMMA RespondStatus ==
    ASSUME Roomy, UseInv, SenderInv, StatusInv, NEW s \in Session, Respond(s)
    PROVE  StatusInv' /\ Landed
  <1> DEFINE rec == [state |-> "Streaming", outcome |-> "none", by |-> s]
  <1>1. /\ handler[s] = "planned" /\ handler' = [handler EXCEPT ![s] = "responding"]
        /\ session' = session
        /\ status' = RecordStatus(status, session[s].token, rec)
    BY DEF Respond
  <1>2. PICK t \in Token : t = session[s].token
    BY <1>1 DEF UseInv, SessionInv, SessionOK
  <1>3. /\ handler'[s] = "responding"
        /\ \A r \in Session \ {s} : session'[r] = session[r] /\ handler'[r] = handler[r]
    BY <1>1 DEF UseInv, UseTypes
  <1>4. Landed
    BY <1>1 DEF Landed
  <1>5. CASE session[s].done
    <2>1. status.of[t].state = "Terminal"
      BY <1>1, <1>2, <1>5 DEF StatusInv, WriterOK, Gone
    <2>2. status' = status
      BY <1>1, <1>2, <2>1 DEF RecordStatus
    <2> QED
      BY <1>1, <1>3, <1>4, <2>2, StatusKept DEF Gone
  <1>6. CASE ~session[s].done
    <2>1. /\ status.of[t].state # "Terminal" /\ Open(s)
      BY <1>1, <1>2, <1>6 DEF StatusInv, WriterOK, Polled, Open
    <2>2. /\ rec \in Record /\ rec.outcome = "none" /\ rec.state = "Streaming" /\ rec.by = s
          /\ Fitting(status) /\ status' = RecordStatus(status, t, rec)
      BY <1>1, <1>2, RecordsIn DEF StatusInv
    <2> HIDE DEF rec
    <2>3. /\ Fitting(status')
          /\ \A u \in Token : u # t => status'.of[u] = status.of[u]
      BY <2>2, RecordOnly
    <2>4. status'.of[t] = rec
      BY <2>1, <2>2, RecordOnly
    <2>5. \A r \in Session \ {s} : handler[r] # "idle" /\ session[r].token = t => ~Open(r)
      BY <1>2, <2>1 DEF SenderInv, OneOpen
    <2>6. OwnerOK(t)' /\ WriterOK(s)'
      BY <1>1, <1>2, <1>3, <1>6, <2>2, <2>4 DEF OwnerOK, WriterOK, Polled, Gone
    <2>7. /\ \A u \in Token \ {t} : OwnerOK(u)'
          /\ \A r \in Session \ {s} : session[r].token # t => WriterOK(r)'
      BY <1>1, <1>2, <1>3, <2>3, OthersKept
    <2>8. \A r \in Session \ {s} : session[r].token = t => WriterOK(r)'
      BY <1>3, <2>5, AloneKept
    <2> QED
      BY <1>4, <2>3, <2>6, <2>7, <2>8 DEF StatusInv
  <1> QED
    BY <1>5, <1>6

LEMMA LoopStatus ==
    ASSUME Roomy, UseInv, SenderInv, StatusInv, NEW s \in Session,
           Loop(s) \/ BudgetEnds(s) \/ LeavesWhilePlanning(s) \/ NeverStarts(s) \/ FrameLost(s)
    PROVE  StatusInv' /\ Landed
  <1>1. handler[s] # "idle"
    BY LoopShape
  <1>2. CASE Glides(s) /\ ~Respond(s)
    <2>1. /\ ~Gone(s) /\ UNCHANGED <<status, session>>
          /\ \A r \in Session : handler'[r] = "idle" <=> handler[r] = "idle"
          /\ \A r \in Session \ {s} : handler'[r] = handler[r]
      BY <1>1, <1>2 DEF Glides, UseInv, UseTypes
    <2>2. Landed
      BY <2>1 DEF Landed
    <2> QED
      BY <2>1, <2>2, StatusKept DEF Gone
  <1>3. CASE FrameSent(s)
    <2>1. /\ Elsewhere(s) /\ SameEnd(session[s], session'[s])
          /\ session'[s].token = session[s].token /\ handler'[s] # "idle" /\ ~Gone(s)
          /\ status' = status
      BY <1>3, FrameSentShape DEF UseInv, Gone
    <2>2. Landed
      BY <2>1 DEF Landed, Elsewhere, SameEnd
    <2> QED
      BY <1>1, <2>1, <2>2, StatusKept DEF Elsewhere, SameEnd, Gone
  <1>4. CASE Releases(s)
    <2>1. PICK why \in Outcomes \ {"none"}, next \in Places \ {"idle"} :
            Release(s, why, next) /\ (Gone(s) => next = handler[s])
      BY <1>4 DEF Releases
    <2>2. /\ Elsewhere(s) /\ handler'[s] = next /\ session'[s].token = session[s].token
          /\ session[s].released => session' = session /\ status' = status
          /\ ~session[s].released =>
               /\ session'[s].done
               /\ status' = RecordStatus(status, session[s].token, Terminal(s, Outcome(s, why)))
      BY <1>4, <2>1, ReleaseShape DEF UseInv, Releases
    <2>3. CASE session[s].released
      <3>1. Landed
        BY <2>2, <2>3 DEF Landed
      <3> QED
        BY <1>1, <2>1, <2>2, <2>3, <3>1, StatusKept DEF Elsewhere, Gone
    <2>4. CASE ~session[s].released
      <3>1. ~session[s].done
        BY <2>4 DEF SenderInv, LateOK
      <3>2. Outcome(s, why) \in Outcomes
        BY DEF Outcome, UseInv, UseTypes, SessionType
      <3>3. PICK t \in Token : t = session[s].token
        BY <1>1 DEF UseInv, SessionInv, SessionOK
      <3>4. StatusInv' /\ status'.of[t].by = s
        BY <1>1, <2>2, <2>4, <3>1, <3>2, <3>3, DoneStatus DEF Elsewhere
      <3>5. Landed
        BY <2>2, <3>3, <3>4 DEF Landed, Elsewhere
      <3> QED
        BY <3>4, <3>5
    <2> QED
      BY <2>3, <2>4
  <1> QED
    BY <1>2, <1>3, <1>4, LoopShape, RespondStatus

LEMMA ReadersStatus ==
    ASSUME Roomy, UseInv, FlowInv, SenderInv, StatusInv, NEW s \in Session,
           Reader(s) \/ ReaderGivesUp(s)
    PROVE  StatusInv' /\ Landed
  <1>1. CASE ReaderRecords(s)
    <2>1. /\ Elsewhere(s) /\ session'[s].token = session[s].token /\ session'[s].done
          /\ reader[s] = "recording" /\ handler' = handler
      BY <1>1, RecordsShape DEF UseInv
    <2>2. handler[s] # "idle" /\ ~session[s].done
      BY <2>1 DEF UseInv, SessionInv, SessionOK, SenderInv, LateOK
    <2>3. PICK t \in Token : t = session[s].token
      BY <2>2 DEF UseInv, SessionInv, SessionOK
    <2>4. PICK why \in Outcomes : why = session[s].outcome
      BY DEF UseInv, UseTypes, SessionType
    <2>5. status' = RecordStatus(status, t, Terminal(s, why))
      BY <1>1, <2>3, <2>4 DEF ReaderRecords
    <2>6. StatusInv' /\ status'.of[t].by = s
      BY <2>1, <2>2, <2>3, <2>5, DoneStatus DEF Elsewhere
    <2>7. Landed
      BY <2>1, <2>3, <2>6 DEF Landed, Elsewhere
    <2> QED
      BY <2>6, <2>7
  <1>2. ASSUME ~ReaderRecords(s)
        PROVE  StatusInv' /\ Landed
    <2>1. UNCHANGED <<status, handler>>
      BY <1>2 DEF Reader, Preflight, PreflightCancelled, ReadItem, ReaderStops, ReaderSettles,
                  ReaderGivesUp
    <2>2. \A r \in Session : /\ session'[r].token = session[r].token
                             /\ session'[r].done = session[r].done
      <3>1. ASSUME NEW n \in 0..MaxItems, NEW result \in {"ready", "refused", "failed"},
                   Preflight(s, result, n)
            PROVE  \A r \in Session : /\ session'[r].token = session[r].token
                                      /\ session'[r].done = session[r].done
        <4>1. /\ Elsewhere(s) /\ SameEnd(session[s], session'[s])
              /\ session'[s].token = session[s].token
          BY <3>1, PreflightShape DEF UseInv
        <4> QED
          BY <4>1 DEF Elsewhere, SameEnd
      <3>2. CASE ReaderGivesUp(s)
        <4>1. /\ Elsewhere(s) /\ session'[s].token = session[s].token
              /\ session'[s].done = session[s].done
          BY <3>2, GivesUpShape DEF UseInv, FlowInv
        <4> QED
          BY <4>1 DEF Elsewhere
      <3>3. CASE PreflightCancelled(s) \/ ReadItem(s) \/ ReaderStops(s) \/ ReaderSettles(s)
        BY <3>3 DEF PreflightCancelled, ReadItem, ReaderStops, ReaderSettles
      <3>4. 0 \in 0..MaxItems
        BY ArchiveAssumption
      <3> QED
        BY <1>2, <3>1, <3>2, <3>3, <3>4 DEF Reader
    <2>3. Landed
      BY <2>2 DEF Landed
    <2> QED
      BY <2>1, <2>2, <2>3, StatusKept DEF Gone
  <1> QED
    BY <1>1, <1>2

LEMMA NextStatus ==
    ASSUME Roomy, UseInv, FlowInv, SenderInv, StatusInv, [Next]_vars
    PROVE  StatusInv' /\ Landed
  <1>1. CASE UNCHANGED <<status, session, handler>>
    BY <1>1, StatusKept DEF Landed, Gone
  <1>2. CASE UNCHANGED vars \/ Lapse \/ \E t \in Token : Issue(t)
    BY <1>1, <1>2 DEF vars, Lapse, Issue
  <1>3. ASSUME NEW t \in Token, NEW local, Refuse(t, local)
        PROVE  StatusInv' /\ Landed
    BY <1>3, RefuseStatus DEF Refuse, Landed
  <1>4. ASSUME NEW s \in Session, NEW t \in Token, NEW local, Redeem(s, t, local)
        PROVE  StatusInv' /\ Landed
    <2>1. Elsewhere(s) /\ SameEnd(session[s], session'[s])
      BY <1>4, RedeemShape DEF UseInv
    <2>2. Landed
      BY <2>1 DEF Landed, Elsewhere, SameEnd
    <2> QED
      BY <1>4, <2>2, RedeemStatus
  <1> QED
    BY <1>2, <1>3, <1>4, StartFailsStatus, LoopStatus, ReadersStatus DEF Next

LEMMA InitStatus ==
    ASSUME Init
    PROVE  StatusInv
  <1>1. /\ status.of = [t \in Token |-> Absent] /\ status.order = << >>
        /\ handler = [s \in Session |-> "idle"]
    BY DEF Init
  <1>2. Absent \in Record /\ Absent.state = "none"
    BY DEF Absent, Record, Outcomes
  <1>3. Fitting(status)
    BY <1>1, <1>2 DEF Fitting, Distinct
  <1> QED
    BY <1>1, <1>2, <1>3 DEF StatusInv, OwnerOK, WriterOK, Polled

LEMMA StatusHolds ==
    ASSUME ~MayRaise, Roomy
    PROVE  Spec => []StatusInv /\ [][Landed]_vars
  <1>1. Init => StatusInv
    BY InitStatus
  <1>2. UseInv /\ FlowInv /\ SenderInv /\ StatusInv /\ [Next]_vars => StatusInv' /\ Landed
    BY NextStatus
  <1>3. SessionsInv => UseInv /\ FlowInv
    BY DEF SessionsInv
  <1> QED
    BY <1>1, <1>2, <1>3, SessionsHold, SendersHold, PTL DEF Spec

(* A client that polls is never told Preparing or Streaming by a session   *)
(* that is over, for any number of sessions, whatever refusals, lapses and *)
(* late responses come between: as long as no reader meets an unexpected   *)
(* exception and the status store has a place for every token.             *)
THEOREM LiveRecordsAreLive ==
    ASSUME ~MayRaise, Roomy
    PROVE  Spec => []LiveStatus
  <1>1. StatusInv => LiveStatus
    BY DEF StatusInv, OwnerOK, Polled, LiveStatus
  <1> QED
    BY <1>1, StatusHolds, PTL

(* Under the same conditions the record of a session that ends is its own  *)
(* outcome, not the one of a request that came between.                    *)
THEOREM OwnOutcomeLands ==
    ASSUME ~MayRaise, Roomy
    PROVE  Spec => OutcomeLands
  <1>1. [Landed]_vars =>
          [\A s \in Session :
             ~session[s].done /\ session'[s].done =>
               status'.of[session'[s].token].by = s]_vars
    BY DEF Landed
  <1> QED
    BY <1>1, StatusHolds, PTL DEF OutcomeLands
=============================================================================
