----------------------------- MODULE InputLease -----------------------------
(***************************************************************************)
(* What the arbitration of the desktop of one node promises, without       *)
(* hosts, viewers or legs: one session at a time controls, a controlling   *)
(* session is displaced at most once per cooldown, and whatever input      *)
(* reaches the capture host was admitted while its session was in control. *)
(***************************************************************************)
CONSTANTS Session, None

VARIABLES
    holder,     \* the session in control, or None
    cooling,    \* a displacement happened less than a cooldown ago
    admitted    \* sessions with an input admitted and not yet delivered

Init == holder = None /\ cooling = FALSE /\ admitted = {}

\* Control that nobody has is taken, at the start of a session, on request or
\* by the late activity of the last holder.
Take == /\ holder = None
        /\ holder' \in Session
        /\ cooling' \in {cooling, FALSE}
        /\ UNCHANGED admitted

\* The holder is displaced by a session that asks for control.
Steal == /\ holder # None
         /\ ~cooling
         /\ holder' \in Session \ {holder}
         /\ cooling' = TRUE
         /\ UNCHANGED admitted

\* Control is given up, or lost with the holder's viewer or its silence.
Lose == /\ holder # None
        /\ holder' = None
        /\ cooling' \in {cooling, FALSE}
        /\ UNCHANGED admitted

\* The cooldown is over, or its record went with a lease that nobody held.
Cool == cooling /\ cooling' = FALSE /\ UNCHANGED <<holder, admitted>>

Admit == holder # None /\ admitted' = admitted \cup {holder} /\ UNCHANGED <<holder, cooling>>

Deliver == \E s \in admitted : admitted' = admitted \ {s} /\ UNCHANGED <<holder, cooling>>

Next == Take \/ Steal \/ Lose \/ Cool \/ Admit \/ Deliver

Spec == Init /\ [][Next]_<<holder, cooling, admitted>>
=============================================================================
