----------------------------- MODULE DesktopHub -----------------------------
(***************************************************************************)
(* The desktop of one node at the relay that carries it (package rtv): the *)
(* Hub with the registered capture host and its viewers, the legs of hosts *)
(* and viewers, the Arbiter of control, the tickets that admit both, and   *)
(* the start and the end of desktop sessions at the server.                *)
(*                                                                         *)
(* The Hub keeps nothing across nodes, so one node is modelled.  Every     *)
(* connection has a goroutine: what happens under one hold of Hub.mu or    *)
(* HostSession.mu is one step, and goroutines interleave between steps.    *)
(* Every ticket grants control and input (desktopStart mints them so), and *)
(* the DATA (frames, input events, names) is left out.                     *)
(***************************************************************************)
EXTENDS Naturals, FiniteSets

CONSTANTS
    Session,    \* desktop sessions of the node
    Viewer,     \* viewer legs, WebTransport or WebSocket
    Host,       \* connections of capture hosts, one per (re)start
    SessionOf,  \* the session of the ticket a leg dials with
    None

ASSUME HubAssumption ==
    /\ SessionOf \in [Viewer -> Session] /\ Viewer \cap Session = {}
    /\ None \notin Session \cup Host

VARIABLES
    desk,       \* a session at the server: "none", "open", "killing", "ended"
    tomb,       \* Verifier.tomb: killed sessions
    banned,     \* Verifier.tomb: the node itself
    ticket,     \* age of the host ticket: the one in Signer.hostCache, which is
                \* the one that the core starts hosts with
    host,       \* Hub.hosts[node]
    hpc,        \* where handleHostConn of a host stands
    closed,     \* hosts whose connection closeConn has closed
    moving,     \* RegisterHost's local migrated
    bound,      \* HostSession.viewers
    leg,        \* where the loop of a viewer leg stands
    at,         \* the HostSession a leg (or a kill) has looked up
    shut,       \* viewers that Close has disconnected
    lease,      \* Arbiter.leases[node]
    page        \* the host whose config the page of a viewer has

sess == <<desk, tomb, banned, ticket>>
hosts == <<host, hpc, closed, moving>>
legs == <<leg, at, shut>>
vars == <<sess, hosts, bound, legs, lease, page>>

\* The ages of a ticket: more than a leeway before its expiry, accepted but
\* within a leeway of it (either side), and refused.
Ages == {"none", "fresh", "rotate", "expired"}

NoLease == [holder |-> None, alive |-> FALSE, cool |-> FALSE]

TypeOK ==
    /\ desk \in [Session -> {"none", "open", "killing", "ended"}]
    /\ tomb \subseteq Session /\ banned \in BOOLEAN
    /\ ticket \in Ages
    /\ host \in Host \cup {None}
    /\ hpc \in [Host -> {"off", "conn", "moving", "up", "cached", "on", "ending", "gone"}]
    /\ closed \subseteq Host
    /\ moving \in [Host -> SUBSET Viewer] /\ bound \in [Host -> SUBSET Viewer]
    /\ leg \in [Viewer -> {"off", "open", "adding", "added", "gate", "leaving", "gone"}]
    /\ at \in [Viewer \cup Session -> Host \cup {None}]
    /\ shut \subseteq Viewer
    /\ lease \in [holder : Session \cup {None}, alive : BOOLEAN, cool : BOOLEAN]
    /\ page \in [Viewer -> Host \cup {None}]

Init ==
    /\ desk = [s \in Session |-> "none"] /\ tomb = {} /\ banned = FALSE
    /\ ticket = "none"
    /\ host = None /\ hpc = [h \in Host |-> "off"] /\ closed = {}
    /\ moving = [h \in Host |-> {}] /\ bound = [h \in Host |-> {}]
    /\ leg = [v \in Viewer |-> "off"] /\ at = [x \in Viewer \cup Session |-> None]
    /\ shut = {} /\ lease = NoLease /\ page = [v \in Viewer |-> None]

(* The Arbiter. *)

\* Arbiter.Holder: the holder of a lease that is within its TTL.
Holder(l) == IF l.alive THEN l.holder ELSE None

\* Arbiter.Grant: the first control of a session, only when nobody has it.
Grant(l, s) == IF l.alive THEN l ELSE [holder |-> s, alive |-> TRUE, cool |-> FALSE]

\* Arbiter.Take: own lease renewed; a live lease of another is stolen unless
\* the last theft is within the cooldown; a dead one is taken over, and keeps
\* the time of its last theft.
TakeRefused(l, s) == l.alive /\ l.holder # s /\ l.cool
TakeLease(l, s) ==
    [holder |-> s, alive |-> TRUE, cool |-> l.cool \/ (l.alive /\ l.holder # s)]

\* Arbiter.Touch renews the lease of its session, expired or not.
Touch(l, s) == IF l.holder = s THEN [l EXCEPT !.alive = TRUE] ELSE l

\* Arbiter.Release and Arbiter.DropSession.
Drop(l, s) == IF l.holder = s THEN NoLease ELSE l

\* Time: the TTL of a lease without activity, and the cooldown of a theft.
LeaseExpires == lease.alive /\ lease' = [lease EXCEPT !.alive = FALSE]
                /\ UNCHANGED <<sess, hosts, bound, legs, page>>
CooldownEnds == lease.cool /\ lease' = [lease EXCEPT !.cool = FALSE]
                /\ UNCHANGED <<sess, hosts, bound, legs, page>>

(* Sessions at the server, and the host ticket. *)

\* Signer.HostTicketFor: the cached ticket, byte for byte, until a leeway
\* before it expires; then a new one.
HostTicketFor(t) == IF t \in {"none", "rotate", "expired"} THEN "fresh" ELSE t

\* desktopStart: the host ticket goes to the node with SESSION_OPEN, the first
\* control to the relay.
DesktopStart(s) ==
    /\ desk[s] = "none"
    /\ desk' = [desk EXCEPT ![s] = "open"]
    /\ ticket' = HostTicketFor(ticket)
    /\ lease' = Grant(lease, s)
    /\ UNCHANGED <<tomb, banned, hosts, bound, legs, page>>

\* Time: the ticket grows older.
TicketsAge ==
    /\ ticket \in {"fresh", "rotate"}
    /\ ticket' = IF ticket = "fresh" THEN "rotate" ELSE "expired"
    /\ UNCHANGED <<desk, tomb, banned, hosts, bound, legs, lease, page>>

\* The end of a session (finishExtra): Server.KillSession records the
\* tombstone, then dropForKill looks the host up; without one it returns.
KillSession(s) ==
    /\ desk[s] = "open"
    /\ tomb' = tomb \cup {s}
    /\ desk' = [desk EXCEPT ![s] = IF host = None THEN "ended" ELSE "killing"]
    /\ at' = [at EXCEPT ![s] = host]
    /\ UNCHANGED <<banned, ticket, hosts, bound, leg, shut, lease, page>>

\* dropForKill: the viewers of the session bound to that host are closed.
DropForKill(s) ==
    LET doomed == {v \in bound[at[s]] : SessionOf[v] = s} IN
    /\ desk[s] = "killing"
    /\ bound' = [bound EXCEPT ![at[s]] = @ \ doomed]
    /\ shut' = shut \cup doomed
    /\ lease' = IF doomed # {} THEN Drop(lease, s) ELSE lease
    /\ desk' = [desk EXCEPT ![s] = "ended"] /\ at' = [at EXCEPT ![s] = None]
    /\ UNCHANGED <<tomb, banned, ticket, hosts, leg, page>>

\* KillSession without a session (the node is disabled or deleted):
\* UnregisterHost and closeConn; the viewers are told.
KillNode ==
    /\ ~banned
    /\ banned' = TRUE
    /\ host' = None
    /\ IF host = None THEN UNCHANGED <<closed, page>>
       ELSE /\ closed' = closed \cup {host}
            /\ page' = [v \in Viewer |-> IF v \in bound[host] THEN None ELSE page[v]]
    /\ UNCHANGED <<desk, tomb, ticket, hpc, moving, bound, legs, lease>>

(* Hosts: handleHostConn, one goroutine per connection. *)

\* The core starts a host, which opens its control stream.
HostConnect(h) ==
    /\ hpc[h] = "off" /\ ticket # "none"
    /\ \A g \in Host : hpc[g] = "conn" => g = h
    /\ hpc' = [hpc EXCEPT ![h] = "conn"]
    /\ UNCHANGED <<sess, host, closed, moving, bound, legs, lease, page>>

\* validateHostHello: the ticket verifies and the node has no tombstone.
HelloAccepted == ticket \in {"fresh", "rotate"} /\ ~banned

HostRefused(h) ==
    /\ hpc[h] = "conn" /\ ~HelloAccepted
    /\ hpc' = [hpc EXCEPT ![h] = "gone"]
    /\ UNCHANGED <<sess, host, closed, moving, bound, legs, lease, page>>

\* RegisterHost under Hub.mu: the old connection is closed, its viewers taken.
RegisterHost(h) ==
    /\ hpc[h] = "conn" /\ HelloAccepted
    /\ hpc' = [hpc EXCEPT ![h] = "moving"]
    /\ host' = h
    /\ IF host = None THEN UNCHANGED <<closed, moving, bound>>
       ELSE /\ moving' = [moving EXCEPT ![h] = bound[host]]
            /\ bound' = [bound EXCEPT ![host] = {}]
            /\ closed' = closed \cup {host}
    /\ UNCHANGED <<sess, legs, lease, page>>

\* RegisterHost: the viewers taken are added to the new host.
MigrateViewers(h) ==
    /\ hpc[h] = "moving"
    /\ bound' = [bound EXCEPT ![h] = @ \cup moving[h]]
    /\ moving' = [moving EXCEPT ![h] = {}]
    /\ hpc' = [hpc EXCEPT ![h] = "up"]
    /\ UNCHANGED <<sess, host, closed, legs, lease, page>>

\* The host's config: cacheConfig, then broadcastControl to its viewers.
CacheConfig(h) ==
    /\ hpc[h] = "up" /\ h \notin closed
    /\ hpc' = [hpc EXCEPT ![h] = "cached"]
    /\ UNCHANGED <<sess, host, closed, moving, bound, legs, lease, page>>

BroadcastConfig(h) ==
    /\ hpc[h] = "cached"
    /\ page' = [v \in Viewer |-> IF v \in bound[h] THEN h ELSE page[v]]
    /\ hpc' = [hpc EXCEPT ![h] = "on"]
    /\ UNCHANGED <<sess, host, closed, moving, bound, legs, lease>>

\* The control stream ends, by closeConn or by a loss.  UnregisterHost does
\* nothing for a host that was replaced; else the viewers are told.
UnregisterHost(h) ==
    /\ hpc[h] \in {"conn", "up", "on"}
    /\ hpc' = [hpc EXCEPT ![h] = "ending"]
    /\ IF host = h
       THEN /\ host' = None
            /\ page' = [v \in Viewer |-> IF v \in bound[h] THEN None ELSE page[v]]
       ELSE UNCHANGED <<host, page>>
    /\ UNCHANGED <<sess, closed, moving, bound, legs, lease>>

\* handleHostConn's last act: hostOffline to whoever its session still lists.
BroadcastOffline(h) ==
    /\ hpc[h] = "ending"
    /\ page' = [v \in Viewer |-> IF v \in bound[h] THEN None ELSE page[v]]
    /\ hpc' = [hpc EXCEPT ![h] = "gone"]
    /\ UNCHANGED <<sess, host, closed, moving, bound, legs, lease>>

(* Viewers: handleWSSession and serveViewerLoop, one goroutine per leg. *)

\* authViewer: a ticket of the session that no tombstone refuses.
Dial(v) ==
    /\ leg[v] = "off" /\ desk[SessionOf[v]] # "none" /\ SessionOf[v] \notin tomb
    /\ leg' = [leg EXCEPT ![v] = "open"]
    /\ UNCHANGED <<sess, hosts, bound, at, shut, lease, page>>

\* The loop is at its read, and the connection is there.
Reads(v) == leg[v] = "open" /\ v \notin shut

\* IsViewerBound.
IsViewerBound(v) == host # None /\ v \in bound[host]

\* Only the first hello of a leg is handled.
HelloOnce(v) ==
    /\ Reads(v) /\ page[v] = None /\ at[v] = None
    /\ leg' = [leg EXCEPT ![v] = IF host # None THEN "adding" ELSE "open"]
    /\ at' = [at EXCEPT ![v] = IF host # None THEN host ELSE CHOOSE h \in Host : TRUE]
    /\ lease' = Touch(lease, SessionOf[v])
    /\ UNCHANGED <<sess, hosts, bound, shut, page>>

\* hello, which the page repeats every two seconds while it has no config: a
\* viewer that is not bound to the current host is added to it (AddViewer looks
\* the host up; without one it answers hostOffline).
Hello(v) ==
    /\ Reads(v) /\ page[v] = None
    /\ lease' = Touch(lease, SessionOf[v])
    /\ IF host # None /\ ~IsViewerBound(v)
       THEN leg' = [leg EXCEPT ![v] = "adding"] /\ at' = [at EXCEPT ![v] = host]
       ELSE UNCHANGED <<leg, at>>
    /\ UNCHANGED <<sess, hosts, bound, shut, page>>

\* AddViewer under HostSession.mu.
AddViewer(v) ==
    /\ leg[v] = "adding"
    /\ bound' = [bound EXCEPT ![at[v]] = @ \cup {v}]
    /\ leg' = [leg EXCEPT ![v] = "added"]
    /\ UNCHANGED <<sess, hosts, at, shut, lease, page>>

\* A viewer that joins late is not given the config.
SendNoConfig(v) ==
    /\ leg[v] = "added"
    /\ leg' = [leg EXCEPT ![v] = "open"]
    /\ UNCHANGED <<sess, hosts, bound, at, shut, lease, page>>

\* AddViewer: the config that the host has sent so far, if any.
SendCachedConfig(v) ==
    /\ leg[v] = "added"
    /\ page' = IF hpc[at[v]] \in {"cached", "on", "ending", "gone"}
               THEN [page EXCEPT ![v] = at[v]] ELSE page
    /\ leg' = [leg EXCEPT ![v] = "open"]
    /\ UNCHANGED <<sess, hosts, bound, at, shut, lease>>

\* Every control frame starts with TouchViewer: this is what revives the lease of
\* a session that was silent for the TTL.
TouchViewer(v) ==
    /\ Reads(v) /\ lease.holder = SessionOf[v] /\ ~lease.alive
    /\ lease' = Touch(lease, SessionOf[v])
    /\ UNCHANGED <<sess, hosts, bound, legs, page>>

\* input: forwardToHost of the current host checks gateInputFor ...
Input(v) ==
    /\ Reads(v) /\ host # None
    /\ Holder(lease) = SessionOf[v]
    /\ leg' = [leg EXCEPT ![v] = "gate"]
    /\ UNCHANGED <<sess, hosts, bound, at, shut, lease, page>>
\* ... and then sends on that host's control stream.
InputSent(v) ==
    /\ leg[v] = "gate"
    /\ leg' = [leg EXCEPT ![v] = "open"]
    /\ UNCHANGED <<sess, hosts, bound, at, shut, lease, page>>

\* A live lease is stolen whenever somebody asks.
TakeAnytime(v) ==
    /\ Reads(v) /\ host # None
    /\ lease' = TakeLease(lease, SessionOf[v])
    /\ UNCHANGED <<sess, hosts, bound, legs, page>>

\* takeControl, through the current host: handleTakeControl.
TakeControl(v) ==
    /\ Reads(v) /\ host # None
    /\ ~TakeRefused(lease, SessionOf[v])
    /\ lease' = TakeLease(lease, SessionOf[v])
    /\ UNCHANGED <<sess, hosts, bound, legs, page>>

\* releaseControl: handleReleaseControl.
ReleaseControl(v) ==
    /\ Reads(v) /\ host # None
    /\ lease.holder = SessionOf[v]
    /\ lease' = NoLease
    /\ UNCHANGED <<sess, hosts, bound, legs, page>>

\* The loop ends, by Close or by a loss; RemoveViewer looks the host up, and
\* returns when there is none.
LegEnds(v) ==
    /\ leg[v] = "open"
    /\ leg' = [leg EXCEPT ![v] = IF host = None THEN "gone" ELSE "leaving"]
    /\ at' = [at EXCEPT ![v] = host]
    /\ UNCHANGED <<sess, hosts, bound, shut, lease, page>>

\* RemoveViewer: out of that host's viewers, and out of control.
RemoveViewer(v) ==
    /\ leg[v] = "leaving"
    /\ bound' = [bound EXCEPT ![at[v]] = @ \ {v}]
    /\ lease' = Drop(lease, SessionOf[v])
    /\ leg' = [leg EXCEPT ![v] = "gone"] /\ at' = [at EXCEPT ![v] = None]
    /\ UNCHANGED <<sess, hosts, shut, page>>

\* ActiveSessions and LiveSessions: the sessions with a viewer at a registered
\* host, which the relay reports to the server.
ActiveSessions == {SessionOf[v] : v \in IF host = None THEN {} ELSE bound[host]}

Next ==
    \/ LeaseExpires \/ CooldownEnds \/ TicketsAge \/ KillNode
    \/ \E s \in Session : DesktopStart(s) \/ KillSession(s) \/ DropForKill(s)
    \/ \E h \in Host :
          \/ HostConnect(h) \/ HostRefused(h) \/ RegisterHost(h) \/ MigrateViewers(h)
          \/ CacheConfig(h) \/ BroadcastConfig(h) \/ UnregisterHost(h) \/ BroadcastOffline(h)
    \/ \E v \in Viewer :
          \/ Dial(v) \/ Hello(v) \/ AddViewer(v) \/ SendCachedConfig(v)
          \/ TouchViewer(v) \/ Input(v) \/ InputSent(v)
          \/ TakeControl(v) \/ ReleaseControl(v) \/ LegEnds(v) \/ RemoveViewer(v)

Spec == Init /\ [][Next]_vars

\* The goroutines run, and a page without config repeats its hello: a loop that
\* goes on reading frames reads it, among whatever else the page sends.
FairSpec ==
    /\ Spec
    /\ \A h \in Host : WF_vars(MigrateViewers(h)) /\ WF_vars(BroadcastConfig(h))
                       /\ WF_vars(BroadcastOffline(h))
    /\ \A v \in Viewer : SF_vars(Hello(v)) /\ WF_vars(AddViewer(v))
                         /\ WF_vars(SendCachedConfig(v)) /\ WF_vars(InputSent(v))
                         /\ WF_vars(RemoveViewer(v))

(* What holds. *)

\* A viewer that was added to the serving host has the config of that host once
\* it was broadcast, in whatever order the two happened.  (A viewer that an
\* earlier host lists too may have been told hostOffline by that one since.)
ConfigReachesBound ==
    \A v \in Viewer :
        (/\ host # None /\ hpc[host] = "on" /\ at[v] = host
         /\ leg[v] = "open" /\ v \notin shut /\ v \in bound[host]
         /\ \A g \in Host \ {host} : v \notin bound[g])
        => page[v] = host

\* Control of the desktop is the lease of InputLease.
Lease == INSTANCE InputLease WITH
    holder <- Holder(lease), cooling <- lease.cool,
    admitted <- {SessionOf[v] : v \in {w \in Viewer : leg[w] = "gate"}}

\* Hub and Arbiter implement it: whatever hosts, viewers and legs do, one session
\* controls at a time, a holder is displaced at most once per cooldown, and input
\* that reaches the host was admitted while its session was in control.
LeaseSpec == Lease!Spec

\* A page that goes on asking does not go on asking unserved: the viewer comes
\* to be bound to the host, if the host stays.
AskingViewerBound ==
    \A v \in Viewer, h \in Host :
        <>[](leg[v] \in {"open", "adding", "added"} /\ page[v] = None /\ v \notin shut /\ host = h)
        => <>(v \in bound[h])

(* What does not hold. *)

\* Once the end of a session has been carried out, none of its viewers is
\* served.
KilledNotServed ==
    \A v \in Viewer : desk[SessionOf[v]] = "ended" /\ host # None => v \notin bound[host]

\* A session that is reported to the server as served has a viewer: the server
\* takes the report for activity and keeps the session.
NoGhosts == \A s \in ActiveSessions : \E v \in Viewer : SessionOf[v] = s /\ leg[v] # "gone"

\* A page that stays connected while a host stays gets its config.
PageRecovers ==
    \A v \in Viewer, h \in Host :
        <>[](leg[v] \in {"open", "adding", "added", "gate"} /\ v \notin shut
             /\ host = h /\ hpc[h] = "on")
        => <>[](page[v] = h)
=============================================================================
