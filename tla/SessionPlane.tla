---------------------------- MODULE SessionPlane ----------------------------
(***************************************************************************)
(* Sessions whose data legs go through an external relay: the session      *)
(* table of the server (SessionManager) composed with the session router   *)
(* of the relay process (relay/cmd/xnc-relay/sessions.go), the relay's     *)
(* tombstones (rtv/ticket.go) and the control connection between the two   *)
(* (controlSession in main.go, serveRelay in rtvpool/pool.go).             *)
(*                                                                         *)
(* The server learns that a session ended at the relay from                *)
(* RELAY_SESSION_CLOSED and that it is active from RELAY_STATS, and revokes*)
(* it with RELAY_SESSION_KILL.  The control connection is FIFO in each     *)
(* direction; when it breaks, what is in flight is lost, and what is sent  *)
(* while it is down is dropped.  The relay may restart, and keeps nothing. *)
(***************************************************************************)
EXTENDS SessionManager, Sequences, SequencesExt

CONSTANTS
    MaxDials,   \* bound: how often the peers of a session dial the relay
    MaxQueue    \* bound: messages in flight beyond which STATS is not sent

ASSUME PlaneAssumption == MaxDials \in Nat /\ MaxQueue \in Nat

VARIABLES
    routed,     \* session.relayRouted
    link,       \* the control connection, "up" or "down"
    toRelay,    \* RELAY_SESSION_KILL in flight, as session ids
    toServer,   \* RELAY_STATS and RELAY_SESSION_CLOSED in flight
    tomb,       \* Verifier.tomb
    verified,   \* legs between verifyLeg and sessionRouter.attach
    rlegs,      \* legs stored in the router's entry of their session
    entry,      \* sessionRouter.sessions
    rglued,     \* dataSession.glued, while the pump runs
    waits,      \* pending attachWaitWindow timers, which know only the session id
    dials,      \* dials so far (bounded by MaxDials)
    dialed,     \* history: sessions of which a leg ever attached
    lost        \* history: sessions of which an end went unreported

relayVars == <<routed, link, toRelay, toServer, tomb, verified, rlegs, entry,
               rglued, waits, dials, dialed, lost>>
planeVars == <<vars, relayVars>>

Report == [type : {"STATS", "CLOSED"}, sid : Session]
Closed(s) == [type |-> "CLOSED", sid |-> s]
Stats(s) == [type |-> "STATS", sid |-> s]

PlaneTypeOK ==
    /\ TypeOK
    /\ routed \subseteq Session
    /\ link \in {"up", "down"}
    /\ toRelay \in Seq(Session)
    /\ toServer \in Seq(Report)
    /\ tomb \subseteq Session
    /\ verified \subseteq Leg
    /\ rlegs \subseteq Leg
    /\ entry \subseteq Session
    /\ rglued \subseteq entry
    /\ waits \in [Session -> Nat]
    /\ dials \in [Session -> 0..MaxDials]
    /\ dialed \subseteq Session
    /\ lost \subseteq Session

PlaneInit ==
    /\ Init
    /\ routed = {} /\ link = "up"
    /\ toRelay = <<>> /\ toServer = <<>>
    /\ tomb = {} /\ verified = {} /\ rlegs = {} /\ entry = {} /\ rglued = {}
    /\ waits = [s \in Session |-> 0]
    /\ dials = [s \in Session |-> 0]
    /\ dialed = {} /\ lost = {}

-----------------------------------------------------------------------------
(* The server: actions of SessionManager, some of which touch the relay. *)

\* startSession finds a relay with a data endpoint and hands out its tickets.
RouteViaRelay(s) ==
    /\ MarkRelayRouted(s)
    /\ routed' = routed \cup {s}
    /\ UNCHANGED <<link, toRelay, toServer, tomb, verified, rlegs, entry, rglued,
                   waits, dials, dialed, lost>>

\* The finish hook of a routed session calls SessionKill: a relay without a
\* control connection is not told.
FinishKills(s) ==
    /\ CloseEnds(s)
    /\ toRelay' = IF s \in hooked \cap routed /\ link = "up" THEN Append(toRelay, s) ELSE toRelay
    /\ UNCHANGED <<routed, link, toServer, tomb, verified, rlegs, entry, rglued,
                   waits, dials, dialed, lost>>

\* Mutant: RELAY_SESSION_CLOSED drops the table entry without closing it.
ServerReceivesForgetful ==
    /\ toServer # <<>>
    /\ toServer' = Tail(toServer)
    /\ table' = table \ {Head(toServer).sid}
    /\ UNCHANGED <<online, phase, glued, ttl, left, attached, live, idle, age,
                   closed, ending, hooked, finished, doomed, lease, stealAge,
                   routed, link, toRelay, tomb, verified, rlegs, entry, rglued,
                   waits, dials, dialed, lost>>

\* serveRelay: STATS touches the session, CLOSED is NotifyClose.
ServerReceives ==
    /\ toServer # <<>>
    /\ toServer' = Tail(toServer)
    /\ LET s == Head(toServer).sid IN
       IF s \notin table THEN UNCHANGED vars
       ELSE IF Head(toServer).type = "STATS" THEN TouchActivity(s) ELSE PeerClose(s)
    /\ UNCHANGED <<routed, link, toRelay, tomb, verified, rlegs, entry, rglued,
                   waits, dials, dialed, lost>>

\* What the server does without the relay; peers of a routed session dial no
\* leg at the server, and its Opening timer is stopped.
ServerStep ==
    \/ \E s \in Session : \/ Create(s)
                          \/ s \in routed /\ InstallHooks(s)
                          \/ SendOpen(s) \/ SendOpenFails(s)
                          \/ PeerClose(s)          \* SESSION_REFUSED
                          \/ SweepClose(s)
    \/ Sweep
    \/ Tick
    \/ \E n \in Node : Reconnect(n)

-----------------------------------------------------------------------------
(* The relay: legs, pump and timers of the session router. *)

\* reportClosed: sent on the control connection, or dropped without one.
ReportClosed(s) ==
    IF link = "up"
    THEN /\ toServer' = Append(toServer, Closed(s))
         /\ UNCHANGED lost
    ELSE /\ lost' = lost \cup {s}
         /\ UNCHANGED toServer

\* The entry of a session leaves the table and its legs are closed.
DropEntry(s) ==
    /\ entry' = entry \ {s}
    /\ rglued' = rglued \ {s}
    /\ rlegs' = rlegs \ Legs(s)

\* verifyLeg: a valid ticket of this session, not killed.  The websocket
\* handshake follows, attach comes later.
VerifyLeg(s, side) ==
    /\ phase[s] = "open" /\ s \in routed
    /\ s \notin tomb
    /\ <<s, side>> \notin verified
    /\ dials[s] < MaxDials
    /\ verified' = verified \cup {<<s, side>>}
    /\ dials' = [dials EXCEPT ![s] = @ + 1]
    /\ UNCHANGED <<vars, routed, link, toRelay, toServer, tomb, rlegs, entry,
                   rglued, waits, dialed, lost>>

\* Mutant: the timer is armed when the second leg arrives, not the first.
RouterAttachLateTimer(s, side) ==
    /\ <<s, side>> \in verified
    /\ verified' = verified \ {<<s, side>>}
    /\ entry' = entry \cup {s}
    /\ rlegs' = rlegs \cup {<<s, side>>}
    /\ rglued' = IF Legs(s) \subseteq rlegs' THEN rglued \cup {s} ELSE rglued
    /\ waits' = IF s \notin entry THEN waits ELSE [waits EXCEPT ![s] = 1]
    /\ dialed' = dialed \cup {s}
    /\ UNCHANGED <<vars, routed, link, toRelay, toServer, tomb, dials, lost>>

\* sessionRouter.attach: the first leg creates the entry and arms the timer, a
\* second leg of the same side is refused, both sides glue.
RouterAttach(s, side) ==
    /\ <<s, side>> \in verified
    /\ verified' = verified \ {<<s, side>>}
    /\ IF <<s, side>> \in rlegs
       THEN UNCHANGED <<entry, rlegs, rglued, waits, dialed>>
       ELSE /\ entry' = entry \cup {s}
            /\ rlegs' = rlegs \cup {<<s, side>>}
            /\ rglued' = IF Legs(s) \subseteq rlegs' THEN rglued \cup {s} ELSE rglued
            /\ waits' = IF s \in entry THEN waits ELSE [waits EXCEPT ![s] = @ + 1]
            /\ dialed' = dialed \cup {s}
    /\ UNCHANGED <<vars, routed, link, toRelay, toServer, tomb, dials, lost>>

\* Mutant: the end of the pump is not reported.
RouterPumpEndsSilently(s) ==
    /\ s \in rglued
    /\ DropEntry(s)
    /\ UNCHANGED <<vars, routed, link, toRelay, toServer, tomb, verified, waits,
                   dials, dialed, lost>>

\* A direction of the relay's pump fails: both legs end, the end is reported.
RouterPumpEnds(s) ==
    /\ s \in rglued
    /\ DropEntry(s)
    /\ ReportClosed(s)
    /\ UNCHANGED <<vars, routed, link, toRelay, tomb, verified, waits, dials, dialed>>

\* expireUnjoined: a timer of this session id, of this entry or of an earlier
\* one, ends an entry that is not glued.
WaitExpires(s) ==
    /\ waits[s] > 0
    /\ waits' = [waits EXCEPT ![s] = @ - 1]
    /\ IF s \in entry \ rglued
       THEN DropEntry(s) /\ ReportClosed(s)
       ELSE UNCHANGED <<entry, rglued, rlegs, toServer, lost>>
    /\ UNCHANGED <<vars, routed, link, toRelay, tomb, verified, dials, dialed>>

\* The statistics reporter sends the ids in the router's table every 10s.
ReportStats(s) ==
    /\ link = "up" /\ s \in entry
    /\ Len(toServer) < MaxQueue
    /\ toServer' = Append(toServer, Stats(s))
    /\ UNCHANGED <<vars, routed, link, toRelay, tomb, verified, rlegs, entry,
                   rglued, waits, dials, dialed, lost>>

\* RELAY_SESSION_KILL: a tombstone for the tickets, and the legs are closed.
RelayReceives ==
    /\ toRelay # <<>>
    /\ toRelay' = Tail(toRelay)
    /\ tomb' = tomb \cup {Head(toRelay)}
    /\ DropEntry(Head(toRelay))
    /\ UNCHANGED <<vars, routed, link, toServer, verified, waits, dials, dialed, lost>>

\* The control connection breaks; both directions lose what is in flight.
LinkDrops ==
    /\ link = "up"
    /\ link' = "down"
    /\ lost' = lost \cup {s \in Session : Contains(toServer, Closed(s))}
    /\ toRelay' = <<>> /\ toServer' = <<>>
    /\ UNCHANGED <<vars, routed, tomb, verified, rlegs, entry, rglued, waits,
                   dials, dialed>>

\* controlLoop dials again: the relay registers and is challenged.
LinkReturns ==
    /\ link = "down"
    /\ link' = "up"
    /\ UNCHANGED <<vars, routed, toRelay, toServer, tomb, verified, rlegs, entry,
                   rglued, waits, dials, dialed, lost>>

\* The relay process restarts: router, timers and tombstones are gone.
RelayRestarts ==
    /\ link' = "down"
    /\ lost' = lost \cup entry \cup {s \in Session : Contains(toServer, Closed(s))}
    /\ toRelay' = <<>> /\ toServer' = <<>>
    /\ tomb' = {} /\ verified' = {} /\ rlegs' = {} /\ entry' = {} /\ rglued' = {}
    /\ waits' = [s \in Session |-> 0]
    /\ UNCHANGED <<vars, routed, dials, dialed>>

-----------------------------------------------------------------------------
RelayStep ==
    \/ \E s \in Session : \/ \E side \in Side : VerifyLeg(s, side) \/ RouterAttach(s, side)
                          \/ RouterPumpEnds(s) \/ WaitExpires(s) \/ ReportStats(s)
    \/ RelayReceives \/ LinkDrops \/ LinkReturns \/ RelayRestarts

PlaneNext ==
    \/ ServerStep /\ UNCHANGED relayVars
    \/ \E s \in Session : RouteViaRelay(s) \/ FinishKills(s)
    \/ ServerReceives
    \/ RelayStep

PlaneSpec == PlaneInit /\ [][PlaneNext]_planeVars

(***************************************************************************)
(* Timers fire, goroutines get on, a connection that is up delivers and    *)
(* one that is down is dialled again (controlLoop never gives up).  The    *)
(* peers owe nothing.                                                      *)
(***************************************************************************)
PlaneFairness ==
    /\ WF_planeVars(Tick /\ UNCHANGED relayVars)
    /\ WF_planeVars(Sweep /\ UNCHANGED relayVars)
    /\ WF_planeVars(ServerReceives) /\ WF_planeVars(RelayReceives)
    /\ WF_planeVars(LinkReturns)
    /\ \A s \in Session :
          /\ WF_planeVars((SendOpen(s) \/ SendOpenFails(s)) /\ UNCHANGED relayVars)
          /\ WF_planeVars(RouteViaRelay(s))
          /\ WF_planeVars(s \in routed /\ InstallHooks(s) /\ UNCHANGED relayVars)
          /\ WF_planeVars(SweepClose(s) /\ UNCHANGED relayVars)
          /\ WF_planeVars(FinishKills(s))
          /\ WF_planeVars(WaitExpires(s))
          /\ \A side \in Side : WF_planeVars(RouterAttach(s, side))

FairPlaneSpec == PlaneSpec /\ PlaneFairness

-----------------------------------------------------------------------------
(***************************************************************************)
(* Properties.                                                             *)
(***************************************************************************)

\* The server half of the plane behaves as the session table does, whatever
\* the relay and the connection do (pool.go: touch and notifyClose).
TableSpec == Spec

\* A leg that waits alone in the router always has a timer that will end it,
\* although timers know the session id only and outlive the entry that armed
\* them (sessions.go: attach, expireUnjoined).
LoneLegHasTimer == \A s \in entry \ rglued : waits[s] > 0

\* An entry that has left the router was reported, or the server had closed
\* the session, or the report was lost with the control connection.
EndsReported ==
    \A s \in dialed \ entry :
        s \in closed \cup lost \/ Contains(toServer, Closed(s))

\* A session whose end went unreported is collected by the server's own
\* timeouts unless its peers dial again (sessions.go:53, main.go:307).
LostEndCollected ==
    \A s \in Session : (s \in lost \ entry) ~> (s \notin table \/ s \in entry)

\* A killed session is never pumped again: its tickets cannot be revived
\* (exec_handlers.go:230, sessions.go: Kill).
KilledStaysDown == tomb \cap rglued = {}
=============================================================================
