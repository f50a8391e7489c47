------------------------------ MODULE TicketUse ------------------------------
(***************************************************************************)
(* What a one-use ticket promises.  A ticket is issued once; at most one   *)
(* session holds it at a time; the holder gives it back unused or uses it  *)
(* up; a used ticket is never held again; any ticket may be forgotten, and *)
(* a forgotten one never comes back.                                       *)
(***************************************************************************)
CONSTANTS Token, Session, NoSession

VARIABLE use      \* of each token, its state and the session that holds it

State(state, holder) == [state |-> state, holder |-> holder]

Unissued == State("unissued", NoSession)
Open     == State("open", NoSession)
Held(s)  == State("held", s)
Used(s)  == State("used", s)
Gone     == State("gone", NoSession)

(* What may become of one ticket in one step.                              *)
Moves(u, v) ==
    \/ u = Unissued /\ v = Open
    \/ u = Open /\ \E s \in Session : v = Held(s)
    \/ \E s \in Session : u = Held(s) /\ v \in {Open, Used(s)}
    \/ u # Unissued /\ v = Gone

Init == use = [t \in Token |-> Unissued]

(* A step may move several tickets: issuing one forgets another.           *)
Next ==
    /\ DOMAIN use' = Token
    /\ \A t \in Token : use'[t] = use[t] \/ Moves(use[t], use'[t])

Spec == Init /\ [][Next]_use
=============================================================================
