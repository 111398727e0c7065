--------------------------- MODULE SessionManager ---------------------------
(***************************************************************************)
(* The session table of the xnc server: server/internal/session/manager.go *)
(* and pump.go, with the part of startSession (api/exec_handlers.go) that  *)
(* creates a session, installs its hooks and sends SESSION_OPEN.           *)
(*                                                                         *)
(* A session is created for a node, two legs (agent and client websocket)  *)
(* attach to it with one-time tokens, the manager glues and pumps them,    *)
(* and any of several parties closes it: the Opening timer, the pump, an   *)
(* agent that refuses, a relay report, the janitor.  Every critical        *)
(* section of Manager.mu is one action, and what the code does between two *)
(* of them is open to every other goroutine.                               *)
(*                                                                         *)
(* Time is kept as ages and time left, which saturate: the code only       *)
(* compares them with its timeouts.  A session id is a UUID and is used    *)
(* for one Create, so the kind and the node of the request that creates it *)
(* are constant functions of the id.                                       *)
(***************************************************************************)
EXTENDS Integers, FiniteSets

CONSTANTS
    Node,                  \* node ids
    Session,               \* session ids, each used by at most one Create
    NoSession,             \* a desktop lease that nobody holds
    KindOf,                \* the kind the request for a session asks for
    NodeOf,                \* the node the request for a session is about
    OpeningTTL,            \* openingTTL
    ShellIdleTimeout, ShellMaxLifetime,
    DesktopIdleTimeout, DesktopLeaseTTL, DesktopStealCooldown,
    ShellPerNode, DesktopPerNode,
    AgeCap                 \* ages saturate here, above every timeout

Kind == {"exec", "shell", "desktop"}   \* "exec" also stands for file and tunnel
Side == {"agent", "client"}
Leg == Session \X Side

ASSUME RequestAssumption ==
    /\ KindOf \in [Session -> Kind]
    /\ NodeOf \in [Session -> Node]
    /\ NoSession \notin Session

ASSUME TimeAssumption ==
    /\ OpeningTTL \in Nat \ {0} /\ ShellIdleTimeout \in Nat /\ ShellMaxLifetime \in Nat
    /\ DesktopIdleTimeout \in Nat /\ DesktopLeaseTTL \in Nat
    /\ DesktopStealCooldown \in Nat /\ AgeCap \in Nat
    /\ AgeCap > ShellIdleTimeout /\ AgeCap > ShellMaxLifetime
    /\ AgeCap > DesktopIdleTimeout /\ AgeCap > DesktopLeaseTTL
    /\ AgeCap >= DesktopStealCooldown

ASSUME LimitAssumption == ShellPerNode \in Nat /\ DesktopPerNode \in Nat

VARIABLES
    online,     \* nodes with a control connection (registry.Online)
    phase,      \* how far startSession has come with a session
    table,      \* Manager.sessions
    glued,      \* session.glued
    ttl,        \* the Opening timer and the expire goroutine it starts
    left,       \* time left until session.expiresAt, -1 once it has passed
    attached,   \* legs whose token is burnt and whose websocket is stored
    live,       \* websockets held by a session that are not closed yet
    idle,       \* age of session.lastActivity
    age,        \* age of session.startedAt, kept for shells (only they have a lifetime)
    closed,     \* sessions whose closeOnce has run its critical section
    ending,     \* of those, the ones still to close legs and call the hooks
    hooked,     \* sessions whose finish and notify hooks were captured by close
    finished,   \* sessions whose finish hook has run
    doomed,     \* the janitor's expire list, built under mu and used after it
    lease,      \* desktopLeases: the session that holds a node's input lease
    stealAge    \* age of desktopLease.LastStealAt

vars == <<online, phase, table, glued, ttl, left, attached, live, idle, age,
          closed, ending, hooked, finished, doomed, lease, stealAge>>

Phase == {"unborn", "created", "routed", "hooked", "open", "failed"}

(***************************************************************************)
(* ttl: "none" before Create; "armed" while time.AfterFunc waits; "fired"  *)
(* once expire runs (Stop comes too late); "expiring" between its critical *)
(* section and its call of close; "retained" until the delayed delete;     *)
(* "off" when stopped or done.                                             *)
(***************************************************************************)
Timer == {"none", "armed", "fired", "expiring", "retained", "off"}

TypeOK ==
    /\ online \subseteq Node
    /\ phase \in [Session -> Phase]
    /\ table \subseteq Session
    /\ glued \subseteq Session
    /\ ttl \in [Session -> Timer]
    /\ left \in [Session -> -1..OpeningTTL]
    /\ attached \subseteq Leg
    /\ live \subseteq Leg
    /\ idle \in [Session -> 0..AgeCap]
    /\ age \in [Session -> 0..AgeCap]
    /\ closed \subseteq Session
    /\ ending \subseteq Session
    /\ hooked \subseteq Session
    /\ finished \subseteq Session
    /\ doomed \subseteq Session
    /\ lease \in [Node -> Session \cup {NoSession}]
    /\ stealAge \in [Node -> 0..AgeCap]

Init ==
    /\ online = Node
    /\ phase = [s \in Session |-> "unborn"]
    /\ table = {} /\ glued = {}
    /\ ttl = [s \in Session |-> "none"]
    /\ left = [s \in Session |-> OpeningTTL]
    /\ attached = {} /\ live = {}
    /\ idle = [s \in Session |-> 0]
    /\ age = [s \in Session |-> 0]
    /\ closed = {} /\ ending = {} /\ hooked = {} /\ finished = {} /\ doomed = {}
    /\ lease = [n \in Node |-> NoSession]
    /\ stealAge = [n \in Node |-> AgeCap]

-----------------------------------------------------------------------------
(* Helpers. *)

\* Mutant: an age that does not saturate.
OlderUncapped(a) == a + 1

Older(a) == IF a < AgeCap THEN a + 1 ELSE AgeCap

Legs(s) == {<<s, "agent">>, <<s, "client">>}

Governed(s) == KindOf[s] \in {"shell", "desktop"}

countByNode(n, k) == Cardinality({s \in table : NodeOf[s] = n /\ KindOf[s] = k})

UnderLimit(s) ==
    /\ (KindOf[s] = "shell" /\ ShellPerNode > 0)
          => countByNode(NodeOf[s], "shell") < ShellPerNode
    /\ (KindOf[s] = "desktop" /\ DesktopPerNode > 0)
          => countByNode(NodeOf[s], "desktop") < DesktopPerNode

\* Mutant: the lease TTL is compared with < instead of <=.
holderAliveStrict(n) == lease[n] \in table /\ idle[lease[n]] < DesktopLeaseTTL

\* The session that a lease names is in the table and was active within the TTL.
holderAlive(n) ==
    /\ lease[n] \in table
    /\ idle[lease[n]] <= DesktopLeaseTTL

\* The Opening timer after Stop: a goroutine that already runs is not stopped.
Stopped(s) == IF ttl[s] = "armed" THEN "off" ELSE ttl[s]

\* Mutant: close on the retention path forgets the lease.
CloseKeepsLease(s, remove, timer) ==
    /\ ttl' = [ttl EXCEPT ![s] = timer]
    /\ closed' = closed \cup {s}
    /\ ending' = IF s \in closed THEN ending ELSE ending \cup {s}
    /\ hooked' = IF phase[s] \in {"hooked", "open"} THEN hooked \cup {s} ELSE hooked
    /\ table' = IF remove THEN table \ {s} ELSE table
    /\ lease' = IF remove /\ lease[NodeOf[s]] = s
                THEN [lease EXCEPT ![NodeOf[s]] = NoSession] ELSE lease

(***************************************************************************)
(* close(s, reason, remove), up to its Unlock: only the first call counts. *)
(* timer is what becomes of the Opening timer (the caller expire still has *)
(* work of its own to do).                                                 *)
(***************************************************************************)
CloseLocked(s, remove, timer) ==
    IF s \in closed
    THEN /\ ttl' = [ttl EXCEPT ![s] = timer]
         /\ UNCHANGED <<table, closed, ending, hooked, lease>>
    ELSE /\ ttl' = [ttl EXCEPT ![s] = timer]
         /\ closed' = closed \cup {s}
         /\ ending' = ending \cup {s}
         /\ hooked' = IF phase[s] \in {"hooked", "open"} THEN hooked \cup {s} ELSE hooked
         /\ table' = IF remove THEN table \ {s} ELSE table
         /\ lease' = IF lease[NodeOf[s]] = s
                     THEN [lease EXCEPT ![NodeOf[s]] = NoSession] ELSE lease

\* NotifyClose: a session that is not in the table any more is left alone.
NotifyClose(s) ==
    IF s \in table
    THEN CloseLocked(s, TRUE, IF s \in closed THEN ttl[s] ELSE Stopped(s))
    ELSE UNCHANGED <<ttl, table, closed, ending, hooked, lease>>

-----------------------------------------------------------------------------
(* startSession: create, route, install the hooks, send SESSION_OPEN. *)

\* Mutant: Create leaves lastActivity at the zero time.
CreateWithoutActivity(s) ==
    /\ phase[s] = "unborn"
    /\ NodeOf[s] \in online
    /\ UnderLimit(s)
    /\ phase' = [phase EXCEPT ![s] = "created"]
    /\ table' = table \cup {s}
    /\ ttl' = [ttl EXCEPT ![s] = "armed"]
    /\ idle' = [idle EXCEPT ![s] = AgeCap]
    /\ UNCHANGED <<online, glued, left, attached, live, age, closed, ending,
                   hooked, finished, doomed, lease, stealAge>>

\* Create: online check, limit check and insertion, passive lease, Opening timer.
Create(s) ==
    LET n == NodeOf[s] IN
    /\ phase[s] = "unborn"
    /\ n \in online
    /\ UnderLimit(s)
    /\ phase' = [phase EXCEPT ![s] = "created"]
    /\ table' = table \cup {s}
    /\ ttl' = [ttl EXCEPT ![s] = "armed"]
    /\ idle' = [idle EXCEPT ![s] = IF Governed(s) THEN 0 ELSE AgeCap]
    /\ IF KindOf[s] = "desktop" /\ ~holderAlive(n)
       THEN /\ lease' = [lease EXCEPT ![n] = s]
            /\ stealAge' = [stealAge EXCEPT ![n] = AgeCap]
       ELSE UNCHANGED <<lease, stealAge>>
    /\ UNCHANGED <<online, glued, left, attached, live, age, closed, ending,
                   hooked, finished, doomed>>

\* MarkRelayRouted, for a session whose legs go through an external relay.
MarkRelayRouted(s) ==
    /\ phase[s] = "created"
    /\ KindOf[s] # "desktop"
    /\ phase' = [phase EXCEPT ![s] = "routed"]
    /\ IF s \in table
       THEN /\ glued' = glued \cup {s}
            /\ ttl' = [ttl EXCEPT ![s] = Stopped(s)]
       ELSE UNCHANGED <<glued, ttl>>
    /\ UNCHANGED <<online, table, left, attached, live, idle, age, closed,
                   ending, hooked, finished, doomed, lease, stealAge>>

\* SetFinishFn and SetNotifyFn.
InstallHooks(s) ==
    /\ phase[s] \in {"created", "routed"}
    /\ phase' = [phase EXCEPT ![s] = "hooked"]
    /\ UNCHANGED <<online, table, glued, ttl, left, attached, live, idle, age,
                   closed, ending, hooked, finished, doomed, lease, stealAge>>

\* SESSION_OPEN is written to the node's control connection.
SendOpen(s) ==
    /\ phase[s] = "hooked"
    /\ NodeOf[s] \in online
    /\ phase' = [phase EXCEPT ![s] = "open"]
    /\ UNCHANGED <<online, table, glued, ttl, left, attached, live, idle, age,
                   closed, ending, hooked, finished, doomed, lease, stealAge>>

\* No control connection, or the write fails: NotifyClose("node-offline").
SendOpenFails(s) ==
    /\ phase[s] = "hooked"
    /\ phase' = [phase EXCEPT ![s] = "failed"]
    /\ NotifyClose(s)
    /\ UNCHANGED <<online, glued, left, attached, live, idle, age, finished,
                   doomed, stealAge>>

-----------------------------------------------------------------------------
(* Legs, pump and activity. *)

\* Mutant: the first leg already stops the Opening timer.
AttachStopsTimer(s, side) ==
    /\ phase[s] = "open"
    /\ s \in table
    /\ left[s] >= 0
    /\ <<s, side>> \notin attached
    /\ attached' = attached \cup {<<s, side>>}
    /\ live' = live \cup {<<s, side>>}
    /\ glued' = IF Legs(s) \subseteq attached' THEN glued \cup {s} ELSE glued
    /\ ttl' = [ttl EXCEPT ![s] = Stopped(s)]
    /\ UNCHANGED <<online, phase, table, left, idle, age, closed, ending,
                   hooked, finished, doomed, lease, stealAge>>

\* attach(side): not expired, token not burnt; both legs stored glue the session.
Attach(s, side) ==
    /\ phase[s] = "open"
    /\ s \in table
    /\ left[s] >= 0
    /\ <<s, side>> \notin attached
    /\ attached' = attached \cup {<<s, side>>}
    /\ live' = live \cup {<<s, side>>}
    /\ IF Legs(s) \subseteq attached' /\ s \notin glued
       THEN /\ glued' = glued \cup {s}
            /\ ttl' = [ttl EXCEPT ![s] = Stopped(s)]
       ELSE UNCHANGED <<glued, ttl>>
    /\ UNCHANGED <<online, phase, table, left, idle, age, closed, ending,
                   hooked, finished, doomed, lease, stealAge>>

\* relay forwards a frame between the two legs of a session (the activity of a
\* session that has left the table is never read again).
PumpFrame(s) ==
    /\ Legs(s) \subseteq live
    /\ s \in table
    /\ idle' = [idle EXCEPT ![s] = 0]
    /\ UNCHANGED <<online, phase, table, glued, ttl, left, attached, live, age,
                   closed, ending, hooked, finished, doomed, lease, stealAge>>

\* A leg of the pump fails (peer gone, write timeout): NotifyClose("peer-disconnect").
PumpError(s) ==
    /\ Legs(s) \subseteq attached
    /\ s \in table
    /\ NotifyClose(s)
    /\ UNCHANGED <<online, phase, glued, left, attached, live, idle, age,
                   finished, doomed, stealAge>>

\* SESSION_REFUSED from the agent, or RELAY_SESSION_CLOSED from the relay.
PeerClose(s) ==
    /\ phase[s] = "open"
    /\ s \in table
    /\ NotifyClose(s)
    /\ UNCHANGED <<online, phase, glued, left, attached, live, idle, age,
                   finished, doomed, stealAge>>

\* TouchActivity: a viewer control frame, or the relay's STATS.  A desktop
\* session is glued by it; the Opening timer is left armed.
TouchActivity(s) ==
    /\ phase[s] = "open"
    /\ s \in table
    /\ glued' = IF KindOf[s] = "desktop" THEN glued \cup {s} ELSE glued
    /\ idle' = [idle EXCEPT ![s] = 0]
    /\ UNCHANGED <<online, phase, table, ttl, left, attached, live, age, closed,
                   ending, hooked, finished, doomed, lease, stealAge>>

-----------------------------------------------------------------------------
(* The Opening timer, the rest of close, the janitor, the clock. *)

\* time.AfterFunc starts expire in a goroutine of its own.
TimerFires(s) ==
    /\ ttl[s] = "armed"
    /\ left[s] <= 0
    /\ ttl' = [ttl EXCEPT ![s] = "fired"]
    /\ UNCHANGED <<online, phase, table, glued, left, attached, live, idle, age,
                   closed, ending, hooked, finished, doomed, lease, stealAge>>

\* Mutant: expire leaves expiresAt as it is.
ExpireKeepsDeadline(s) ==
    /\ ttl[s] = "fired"
    /\ ttl' = [ttl EXCEPT ![s] = IF s \in glued THEN "off" ELSE "expiring"]
    /\ UNCHANGED <<online, phase, table, glued, left, attached, live, idle, age,
                   closed, ending, hooked, finished, doomed, lease, stealAge>>

\* expire under mu: a glued session is left alone, another one expires now
\* (every later reading of the clock is after this one).
Expire(s) ==
    /\ ttl[s] = "fired"
    /\ IF s \in glued
       THEN /\ ttl' = [ttl EXCEPT ![s] = "off"]
            /\ UNCHANGED left
       ELSE /\ ttl' = [ttl EXCEPT ![s] = "expiring"]
            /\ left' = [left EXCEPT ![s] = -1]
    /\ UNCHANGED <<online, phase, table, glued, attached, live, idle, age,
                   closed, ending, hooked, finished, doomed, lease, stealAge>>

\* expire calls close(s, "opening-timeout", false) and keeps the table entry.
ExpireClose(s) ==
    /\ ttl[s] = "expiring"
    /\ s \notin ending
    /\ CloseLocked(s, FALSE, "retained")
    /\ UNCHANGED <<online, phase, glued, left, attached, live, idle, age,
                   finished, doomed, stealAge>>

\* The delayed delete, expiredRetention later.
Reclaim(s) ==
    /\ ttl[s] = "retained"
    /\ s \notin ending
    /\ ttl' = [ttl EXCEPT ![s] = "off"]
    /\ table' = table \ {s}
    /\ UNCHANGED <<online, phase, glued, left, attached, live, idle, age,
                   closed, ending, hooked, finished, doomed, lease, stealAge>>

\* close after its Unlock: CloseNow on the legs it saw, then notify and finish.
CloseEnds(s) ==
    /\ s \in ending
    /\ ending' = ending \ {s}
    /\ live' = live \ Legs(s)
    /\ finished' = IF s \in hooked THEN finished \cup {s} ELSE finished
    /\ UNCHANGED <<online, phase, table, glued, ttl, left, attached, idle, age,
                   closed, hooked, doomed, lease, stealAge>>

\* Mutant: the janitor looks at idle shells only.
SweepDueIdleShell(s) == KindOf[s] = "shell" /\ idle[s] > ShellIdleTimeout

\* Mutant: the janitor passes over sessions without local legs.
SweepDueLocalLegs(s) ==
    /\ KindOf[s] = "shell" /\ Legs(s) \subseteq attached
    /\ idle[s] > ShellIdleTimeout \/ age[s] > ShellMaxLifetime

\* What one sweep finds due, reading the table under mu.
SweepDue(s) ==
    \/ KindOf[s] = "shell"
       /\ \/ ShellMaxLifetime > 0 /\ age[s] > ShellMaxLifetime
          \/ ShellIdleTimeout > 0 /\ idle[s] > ShellIdleTimeout
    \/ KindOf[s] = "desktop"
       /\ DesktopIdleTimeout > 0 /\ idle[s] > DesktopIdleTimeout

\* sweep under mu: revoke the leases of dead or silent holders, list what is due.
Sweep ==
    /\ doomed = {}
    /\ lease' = [n \in Node |-> IF holderAlive(n) THEN lease[n] ELSE NoSession]
    /\ doomed' = {s \in table : SweepDue(s)}
    /\ UNCHANGED <<online, phase, table, glued, ttl, left, attached, live, idle,
                   age, closed, ending, hooked, finished, stealAge>>

\* sweep after its Unlock: NotifyClose on the listed sessions, one by one.
SweepClose(s) ==
    /\ s \in doomed
    /\ s \in table => s \notin ending
    /\ doomed' = doomed \ {s}
    /\ NotifyClose(s)
    /\ UNCHANGED <<online, phase, glued, left, attached, live, idle, age,
                   finished, stealAge>>

\* registry: a node's control connection comes and goes.
Reconnect(n) ==
    /\ online' = IF n \in online THEN online \ {n} ELSE online \cup {n}
    /\ UNCHANGED <<phase, table, glued, ttl, left, attached, live, idle, age,
                   closed, ending, hooked, finished, doomed, lease, stealAge>>

\* Nothing blocks in startSession between Create and SetNotifyFn: no timeout
\* elapses there.
HandlerBusy == \E s \in Session : phase[s] \in {"created", "routed"}

Tick ==
    /\ ~HandlerBusy
    /\ left' = [s \in Session |-> IF s \in table /\ left[s] >= 0
                                  THEN left[s] - 1 ELSE left[s]]
    /\ idle' = [s \in Session |-> IF s \in table THEN Older(idle[s]) ELSE idle[s]]
    /\ age' = [s \in Session |-> IF s \in table /\ KindOf[s] = "shell"
                                 THEN Older(age[s]) ELSE age[s]]
    /\ stealAge' = [n \in Node |-> Older(stealAge[n])]
    /\ UNCHANGED <<online, phase, table, glued, ttl, attached, live, closed,
                   ending, hooked, finished, doomed, lease>>

-----------------------------------------------------------------------------
(* Exported operations that the deployed relay plane no longer calls. *)

\* AttachClientRTV: the viewer's token is not burnt; the session is glued.
AttachClientRTV(s) ==
    /\ phase[s] = "open"
    /\ s \in table
    /\ left[s] >= 0
    /\ glued' = glued \cup {s}
    /\ ttl' = [ttl EXCEPT ![s] = IF s \in glued THEN ttl[s] ELSE Stopped(s)]
    /\ idle' = [idle EXCEPT ![s] = 0]
    /\ UNCHANGED <<online, phase, table, left, attached, live, age, closed,
                   ending, hooked, finished, doomed, lease, stealAge>>

\* TakeDesktopControl: take a free lease, or steal one outside the cooldown.
TakeDesktopControl(s) ==
    LET n == NodeOf[s] IN
    /\ KindOf[s] = "desktop"
    /\ s \in table
    /\ lease[n] # s
    /\ holderAlive(n) => stealAge[n] >= DesktopStealCooldown
    /\ lease' = [lease EXCEPT ![n] = s]
    /\ stealAge' = [stealAge EXCEPT ![n] =
                       IF lease[n] = NoSession THEN AgeCap
                       ELSE IF holderAlive(n) THEN 0 ELSE stealAge[n]]
    /\ UNCHANGED <<online, phase, table, glued, ttl, left, attached, live, idle,
                   age, closed, ending, hooked, finished, doomed>>

\* ReleaseDesktopControl by the holder.
ReleaseDesktopControl(s) ==
    /\ lease[NodeOf[s]] = s
    /\ lease' = [lease EXCEPT ![NodeOf[s]] = NoSession]
    /\ UNCHANGED <<online, phase, table, glued, ttl, left, attached, live, idle,
                   age, closed, ending, hooked, finished, doomed, stealAge>>

-----------------------------------------------------------------------------
Handler(s) ==
    \/ Create(s) \/ MarkRelayRouted(s) \/ InstallHooks(s)
    \/ SendOpen(s) \/ SendOpenFails(s)

Peers(s) ==
    \/ \E side \in Side : Attach(s, side)
    \/ PumpFrame(s) \/ PumpError(s) \/ PeerClose(s) \/ TouchActivity(s)

Background(s) ==
    \/ TimerFires(s) \/ Expire(s) \/ ExpireClose(s) \/ Reclaim(s)
    \/ CloseEnds(s) \/ SweepClose(s)

Next ==
    \/ \E s \in Session : Handler(s) \/ Peers(s) \/ Background(s)
    \/ \E n \in Node : Reconnect(n)
    \/ Sweep
    \/ Tick

\* Next and the exported lease operations.
ControlNext ==
    \/ Next
    \/ \E s \in Session : \/ AttachClientRTV(s)
                          \/ TakeDesktopControl(s)
                          \/ ReleaseDesktopControl(s)

Spec == Init /\ [][Next]_vars

ControlSpec == Init /\ [][ControlNext]_vars

(***************************************************************************)
(* What the Go runtime guarantees: time passes, a running handler and a    *)
(* started goroutine get on, timers fire, the janitor keeps sweeping.      *)
(* Nothing is assumed of the peers.                                        *)
(***************************************************************************)
Fairness ==
    /\ WF_vars(Tick) /\ WF_vars(Sweep)
    /\ \A s \in Session :
          /\ WF_vars(InstallHooks(s))
          /\ WF_vars(SendOpen(s) \/ SendOpenFails(s))
          /\ WF_vars(TimerFires(s)) /\ WF_vars(Expire(s)) /\ WF_vars(ExpireClose(s))
          /\ WF_vars(Reclaim(s)) /\ WF_vars(CloseEnds(s)) /\ WF_vars(SweepClose(s))

FairSpec == Spec /\ Fairness

\* The same with the exported lease operations in play.
FairControlSpec == ControlSpec /\ Fairness

-----------------------------------------------------------------------------
(***************************************************************************)
(* Properties.                                                             *)
(***************************************************************************)

\* No websocket outlives the close of its session: once close has ended, no
\* leg that attach stored is still open, although attach, the Opening timer,
\* the pump and NotifyClose race (manager.go: attach, expire, close).
NoLegOutlivesClose ==
    \A s \in closed \ ending : Legs(s) \cap live = {}

\* A node's input lease names a desktop session of that node that is in the
\* table and not closed: close releases the lease of the session it ends, and
\* the delayed delete of an expired one leaves no dangling lease.
LeaseHolderLive ==
    \A n \in Node : lease[n] # NoSession =>
        /\ lease[n] \in table \ closed
        /\ NodeOf[lease[n]] = n
        /\ KindOf[lease[n]] = "desktop"

\* Every session that has ended ran its finish hook: no path closes a session
\* before startSession has installed the hooks (exec_handlers.go:238).
EndAudited == closed \ ending \subseteq finished

\* The Opening timeout never takes a session whose two legs are attached,
\* however the second attach races the timer goroutine.
ExpiryNeverCutsPumped ==
    \A s \in Session : ttl[s] \in {"expiring", "retained"} => ~(Legs(s) \subseteq attached)

\* The number of shells and desktops in the table stays within the node's
\* limits, whoever creates concurrently; expired sessions still count.
NodeLimits ==
    \A n \in Node :
        /\ ShellPerNode > 0 => countByNode(n, "shell") <= ShellPerNode
        /\ DesktopPerNode > 0 => countByNode(n, "desktop") <= DesktopPerNode

\* A holder that was active within the lease TTL loses its lease only by its
\* own end: a passive grant and the janitor never take a live lease.
ActiveHolderKeepsLease ==
    [][\A n \in Node : \A s \in table \ closed :
          lease[n] = s /\ idle[s] <= DesktopLeaseTTL
             => lease'[n] = s \/ s \in closed']_vars

\* A session that is not glued is glued or closed in the end: a peer that
\* never dials, or one of two legs alone, cannot keep it open.
OpeningResolves ==
    \A s \in Session :
        (s \in table /\ s \notin glued) ~> (s \in glued \/ s \in closed)

\* A shell leaves the table in the end whatever its peers send: the lifetime
\* bound and the delayed delete do not depend on activity.
ShellsEnd ==
    \A s \in Session : KindOf[s] = "shell" => (s \in table ~> s \notin table)

\* A desktop session without activity leaves the table in the end.
IdleDesktopsEnd ==
    \A s \in Session : KindOf[s] = "desktop" =>
        ((s \in table /\ idle[s] > 0) ~> (s \notin table \/ idle[s] = 0))

\* Nothing that the janitor governs stays for ever, silent or busy: shells end
\* by their lifetime, desktops when nobody is active (sweep, reclaim).
GovernedEnd == ShellsEnd /\ IdleDesktopsEnd
=============================================================================
