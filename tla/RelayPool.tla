------------------------------ MODULE RelayPool -----------------------------
(***************************************************************************)
(* The pool of external relays: the manager of the server (rtvpool) with   *)
(* its control connections, the rows of the relays and their status, the   *)
(* administrator who moves it, the probes of the host leg and the          *)
(* assignment of nodes; and, in the relay process, the control session     *)
(* that registers the relay's endpoints with the fingerprint of its        *)
(* certificate, and the manager that rotates the certificate.              *)
(*                                                                         *)
(* A control connection is a slot that is used again once its handler has  *)
(* ended.  What the relay and the server say of sessions on it is the      *)
(* subject of SessionPlane.                                                *)
(***************************************************************************)
EXTENDS Naturals, FiniteSets

CONSTANTS
    Relay,      \* relays, each with its key
    Conn,       \* slots for control connections
    Node,       \* nodes that are assigned to relays
    RelayOf,    \* the relay that dials on a slot
    Allowed,    \* keys of XNC_RTV_RELAY_ALLOWLIST
    HasData,    \* relays that announce a session data endpoint
    MaxCerts,   \* bound: rotations of a certificate
    MaxFaults,  \* bound: lost links, restarts, unreachable legs
    MaxEdits,   \* bound: status changes by administrators
    None

ASSUME PoolAssumption ==
    /\ RelayOf \in [Conn -> Relay] /\ Allowed \subseteq Relay /\ HasData \subseteq Relay
    /\ MaxCerts \in Nat /\ MaxFaults \in Nat /\ MaxEdits \in Nat
    /\ None \notin Relay \cup Conn

VARIABLES
    row,        \* relays.status, None before the first registration
    approved,   \* history: relays that were admitted by list or administrator
    notices,    \* status changes in the database, not yet told to the pool
    table,      \* Manager.conns
    sticky,     \* Manager.sticky and Manager.dataSticky
    handler,    \* where serveRelay of a connection stands
    mirror,     \* relayConn.status
    told,       \* the fingerprint in relayConn.endpoints
    fails,      \* relayConn.probeFails
    probe,      \* a probe's result on its way
    config,     \* connections with a RELAY_CONFIG the relay has not read
    drift,      \* connections whose last heartbeat showed a clock that is off
    up,         \* relays whose process has been started
    client,     \* where controlSession of a connection stands
    cert,       \* certManager: the certificate in use, counted
    watched,    \* the certificate whose Changed channel a session watches
    keyed,      \* the relay's Verifier has the server's key
    alive,      \* relays whose host leg answers
    skewed,     \* relays whose clock is off by more than driftLimit
    edits, faults

pool == <<table, sticky, handler, mirror, told, fails, probe, config, drift>>
relays == <<up, client, cert, watched, keyed, alive, skewed>>
admin == <<row, approved, notices, edits>>
vars == <<pool, relays, admin, faults>>

Status == {"pending", "active", "draining", "retired"}

TypeOK ==
    /\ row \in [Relay -> Status \cup {None}] /\ approved \subseteq Relay
    /\ notices \subseteq Relay \X Status
    /\ table \in [Relay -> Conn \cup {None}]
    /\ sticky \in [{"media", "data"} -> [Node -> Relay \cup {None}]]
    /\ handler \in [Conn -> {"off", "registered", "proved", "serving"}]
    /\ mirror \in [Conn -> Status \cup {None}]
    /\ \A c \in Conn : handler[c] # "off" => mirror[c] # None
    /\ told \in [Conn -> 0..MaxCerts]
    /\ fails \in [Conn -> 0..2]
    /\ probe \in [Relay -> {"idle", "ok", "failed"}]
    /\ client \in [Conn -> {"off", "sent", "answered", "watching", "closed"}]
    /\ up \subseteq Relay /\ cert \in [Relay -> 0..MaxCerts] /\ watched \in [Conn -> 0..MaxCerts]
    /\ keyed \subseteq Relay /\ alive \subseteq Relay
    /\ skewed \subseteq Relay /\ config \cup drift \subseteq Conn
    /\ edits \in 0..MaxEdits /\ faults \in 0..MaxFaults

Init ==
    /\ row = [r \in Relay |-> None] /\ approved = {} /\ notices = {}
    /\ table = [r \in Relay |-> None]
    /\ sticky = [k \in {"media", "data"} |-> [n \in Node |-> None]]
    /\ handler = [c \in Conn |-> "off"] /\ mirror = [c \in Conn |-> None]
    /\ told = [c \in Conn |-> 0] /\ fails = [c \in Conn |-> 0]
    /\ probe = [r \in Relay |-> "idle"]
    /\ up = {} /\ client = [c \in Conn |-> "off"] /\ cert = [r \in Relay |-> 0]
    /\ watched = [c \in Conn |-> 0] /\ keyed = {} /\ alive = Relay
    /\ skewed = {} /\ config = {} /\ drift = {}
    /\ edits = 0 /\ faults = 0

(* The relay process. *)

\* main: the relay is put into operation; identity and certificate are made.
RelayStarts(r) ==
    /\ r \notin up /\ up' = up \cup {r}
    /\ UNCHANGED <<pool, client, cert, watched, keyed, alive, skewed, admin, faults>>

\* endpointConfig.build: the endpoints carry the fingerprint in use.
Endpoints(r) == cert[r]

\* controlSession: dials, and registers with the endpoints of this moment.  The
\* loop runs one session at a time.
Register(c) ==
    /\ RelayOf[c] \in up /\ client[c] = "off" /\ handler[c] = "off"
    /\ \A d \in Conn : RelayOf[d] = RelayOf[c] => client[d] \in {"off", "closed"}
    /\ client' = [client EXCEPT ![c] = "sent"]
    /\ told' = [told EXCEPT ![c] = Endpoints(RelayOf[c])]
    /\ UNCHANGED <<table, sticky, handler, mirror, fails, probe, up, cert, watched, keyed, alive,
                   skewed, config, drift, admin, faults>>

\* The challenge is answered (the server waits for it).
Answer(c) ==
    /\ client[c] = "sent" /\ handler[c] = "registered"
    /\ client' = [client EXCEPT ![c] = "answered"]
    /\ UNCHANGED <<pool, up, cert, watched, keyed, alive, skewed, admin, faults>>

\* The session is in service: its goroutine takes the channel that the next
\* rotation closes.
Watch(c) ==
    /\ client[c] = "answered"
    /\ client' = [client EXCEPT ![c] = "watching"]
    /\ watched' = [watched EXCEPT ![c] = cert[RelayOf[c]]]
    /\ UNCHANGED <<pool, up, cert, keyed, alive, skewed, admin, faults>>

\* The session goes on with the fingerprint it has registered.
RotatedIgnored(c) ==
    /\ client[c] = "watching" /\ watched[c] # cert[RelayOf[c]]
    /\ UNCHANGED vars

\* The channel is closed: the session ends, to register again.
Rotated(c) ==
    /\ client[c] = "watching" /\ watched[c] # cert[RelayOf[c]]
    /\ client' = [client EXCEPT ![c] = "closed"]
    /\ UNCHANGED <<pool, up, cert, watched, keyed, alive, skewed, admin, faults>>

\* certManager.rotate, when watch finds the certificate close to its end.
Rotate(r) ==
    /\ r \in up /\ cert[r] < MaxCerts
    /\ cert' = [cert EXCEPT ![r] = @ + 1]
    /\ UNCHANGED <<pool, up, client, watched, keyed, alive, skewed, admin, faults>>

\* The link of a session is lost: the relay closes it and dials again.
LinkLost(c) ==
    /\ client[c] \in {"sent", "answered", "watching"} /\ faults < MaxFaults
    /\ client' = [client EXCEPT ![c] = "closed"]
    /\ faults' = faults + 1
    /\ UNCHANGED <<pool, up, cert, watched, keyed, alive, skewed, admin>>

\* The relay process starts again: identity and relay id are on its disk, the
\* keys of the Verifier are not; newCertManager takes a certificate from the
\* disk or makes one.
RelayRestarts(r) ==
    /\ r \in up /\ faults < MaxFaults
    /\ client' = [c \in Conn |-> IF RelayOf[c] = r /\ client[c] # "off" THEN "closed"
                                 ELSE client[c]]
    /\ keyed' = keyed \ {r}
    /\ cert' \in {cert, [cert EXCEPT ![r] = IF @ < MaxCerts THEN @ + 1 ELSE @]}
    /\ faults' = faults + 1
    /\ UNCHANGED <<pool, up, watched, alive, skewed, admin>>

\* The host leg stops answering, or answers again.
LegFails(r) ==
    /\ r \in alive /\ faults < MaxFaults
    /\ alive' = alive \ {r} /\ faults' = faults + 1
    /\ UNCHANGED <<pool, up, client, cert, watched, keyed, skewed, admin>>
LegReturns(r) ==
    /\ r \notin alive /\ alive' = alive \cup {r}
    /\ UNCHANGED <<pool, up, client, cert, watched, keyed, skewed, admin, faults>>

\* The clock of the relay drifts off, or is set.
ClockDrifts(r) ==
    /\ r \notin skewed /\ faults < MaxFaults
    /\ skewed' = skewed \cup {r} /\ faults' = faults + 1
    /\ UNCHANGED <<pool, up, client, cert, watched, keyed, alive, admin>>
ClockSet(r) ==
    /\ r \in skewed /\ skewed' = skewed \ {r}
    /\ UNCHANGED <<pool, up, client, cert, watched, keyed, alive, admin, faults>>

(* serveRelay. *)

\* The status of a relay that registers: a new one is admitted by the list or
\* waits for approval, a known one keeps what it has.
Admission(r) == IF row[r] # None THEN row[r] ELSE IF r \in Allowed THEN "active" ELSE "pending"

\* register: the row is inserted or its profile refreshed; the status that goes
\* with the connection is read here.
ServerRegister(c) ==
    LET r == RelayOf[c] IN
    /\ client[c] = "sent" /\ handler[c] = "off"
    /\ handler' = [handler EXCEPT ![c] = "registered"]
    /\ row' = [row EXCEPT ![r] = Admission(r)]
    /\ mirror' = [mirror EXCEPT ![c] = Admission(r)]
    /\ approved' = IF r \in Allowed THEN approved \cup {r} ELSE approved
    /\ UNCHANGED <<table, sticky, told, fails, probe, config, drift, relays, notices, edits, faults>>

\* The nonce came back with the signature of the relay's key.
challengeOK(c) == client[c] \in {"answered", "watching"}

\* Once it is, RELAY_CONFIG is sent: the key that tickets are verified with.
Prove(c) ==
    /\ handler[c] = "registered" /\ challengeOK(c)
    /\ handler' = [handler EXCEPT ![c] = "proved"]
    /\ config' = config \cup {c}
    /\ UNCHANGED <<table, sticky, mirror, told, fails, probe, drift, relays, admin, faults>>

\* The relay reads it: Verifier.SetKeys.
SetKeys(c) ==
    /\ c \in config /\ client[c] \in {"answered", "watching"}
    /\ config' = config \ {c} /\ keyed' = keyed \cup {RelayOf[c]}
    /\ UNCHANGED <<table, sticky, handler, mirror, told, fails, probe, drift, up, client, cert,
                   watched, alive, skewed, admin, faults>>

\* attach: the new connection of a relay takes the place of the old, which is
\* told REPLACED and stays open.
Attach(c) ==
    /\ handler[c] = "proved"
    /\ handler' = [handler EXCEPT ![c] = "serving"]
    /\ table' = [table EXCEPT ![RelayOf[c]] = c]
    /\ fails' = [fails EXCEPT ![c] = 0] /\ drift' = drift \ {c}
    /\ UNCHANGED <<sticky, mirror, told, probe, config, relays, admin, faults>>

\* RELAY_HEARTBEAT carries the relay's clock.
Heartbeat(c) ==
    /\ handler[c] = "serving" /\ client[c] = "watching"
    /\ drift' = IF RelayOf[c] \in skewed THEN drift \cup {c} ELSE drift \ {c}
    /\ UNCHANGED <<table, sticky, handler, mirror, told, fails, probe, config, relays, admin, faults>>

\* The handler of a closed connection ends, in the handshake or with detach,
\* which removes the connection if it is the one in the table.
DetachAny(t, r, c) == [t EXCEPT ![r] = None]
Detach(t, r, c) == IF t[r] = c THEN [t EXCEPT ![r] = None] ELSE t

HandlerEnds(c) ==
    /\ client[c] = "closed"
    /\ handler' = [handler EXCEPT ![c] = "off"] /\ client' = [client EXCEPT ![c] = "off"]
    /\ table' = IF handler[c] = "serving" THEN Detach(table, RelayOf[c], c) ELSE table
    /\ mirror' = [mirror EXCEPT ![c] = None] /\ config' = config \ {c}
    /\ UNCHANGED <<sticky, told, fails, probe, drift, up, cert, watched, keyed, alive, skewed, admin, faults>>

(* Administrators. *)

\* relayStatusLegal.
RelayStatusLegal(from, to) ==
    /\ to \in {"active", "draining", "retired"}
    /\ from = "pending" => to # "draining"

\* adminSetRelayStatus: the row is checked and written ...
SetRelayStatus(r, to) ==
    /\ row[r] # None /\ RelayStatusLegal(row[r], to) /\ edits < MaxEdits
    /\ row' = [row EXCEPT ![r] = to]
    /\ approved' = IF to = "active" THEN approved \cup {r} ELSE approved
    /\ notices' = notices \cup {<<r, to>>}
    /\ edits' = edits + 1
    /\ UNCHANGED <<pool, relays, faults>>

\* ... and then the pool is told: RelayStatusChanged.
RelayStatusChanged(r, to) ==
    /\ <<r, to>> \in notices
    /\ notices' = notices \ {<<r, to>>}
    /\ mirror' = IF table[r] = None THEN mirror ELSE [mirror EXCEPT ![table[r]] = to]
    /\ sticky' = IF to # "retired" THEN sticky
                 ELSE [sticky EXCEPT !["media"] =
                          [n \in Node |-> IF @[n] = r THEN None ELSE @[n]]]
    /\ UNCHANGED <<table, handler, told, fails, probe, config, drift, relays, row, approved, edits, faults>>

(* Probes and assignment. *)

\* ProbeHostLeg: the host leg of the relay is dialled.
ProbeHostLeg(r) == IF r \in alive THEN "ok" ELSE "failed"

\* probeOnce: the addresses are taken from the table, each is dialled ...
ProbeOnce(r) ==
    /\ probe[r] = "idle" /\ table[r] # None
    /\ probe' = [probe EXCEPT ![r] = ProbeHostLeg(r)]
    /\ UNCHANGED <<table, sticky, handler, mirror, told, fails, config, drift, relays, admin, faults>>

\* ... and the result is booked on the connection the relay has by then.
BookProbe(r) ==
    /\ probe[r] # "idle"
    /\ probe' = [probe EXCEPT ![r] = "idle"]
    /\ fails' = IF table[r] = None THEN fails
                ELSE [fails EXCEPT ![table[r]] =
                         IF probe[r] = "ok" THEN 0 ELSE IF @ < 2 THEN @ + 1 ELSE @]
    /\ UNCHANGED <<table, sticky, handler, mirror, told, config, drift, relays, admin, faults>>

\* eligibleLocked.
Eligible(r) == table[r] # None /\ mirror[table[r]] = "active" /\ fails[table[r]] < 2
               /\ table[r] \notin drift

hasSdata(r) == r \in HasData

\* Assign and AssignData: the node's last relay while it is eligible, else one
\* of the eligible (the least loaded; loads are left out).
Candidates(k) == {r \in Relay : Eligible(r) /\ (k = "data" => hasSdata(r))}
Assign(k, n) ==
    /\ sticky[k][n] \notin Candidates(k)
    /\ \E r \in Candidates(k) : sticky' = [sticky EXCEPT ![k][n] = r]
    /\ UNCHANGED <<table, handler, mirror, told, fails, probe, config, drift, relays, admin, faults>>

Next ==
    \/ \E c \in Conn :
          \/ Register(c) \/ Answer(c) \/ Watch(c) \/ Rotated(c) \/ LinkLost(c)
          \/ ServerRegister(c) \/ Prove(c) \/ SetKeys(c) \/ Attach(c) \/ Heartbeat(c) \/ HandlerEnds(c)
    \/ \E r \in Relay :
          \/ RelayStarts(r) \/ Rotate(r) \/ RelayRestarts(r) \/ LegFails(r) \/ LegReturns(r)
          \/ ClockDrifts(r) \/ ClockSet(r)
          \/ ProbeOnce(r) \/ BookProbe(r)
          \/ \E to \in Status : SetRelayStatus(r, to) \/ RelayStatusChanged(r, to)
    \/ \E k \in {"media", "data"}, n \in Node : Assign(k, n)

Spec == Init /\ [][Next]_vars

\* Relay and server carry on with a session, the relay dials again after a lost
\* one, the probes go on, and an administrator's request runs to its end.
FairSpec ==
    /\ Spec
    /\ \A c \in Conn :
          /\ WF_vars(Answer(c)) /\ WF_vars(Watch(c)) /\ WF_vars(Rotated(c))
          /\ WF_vars(ServerRegister(c)) /\ WF_vars(Prove(c)) /\ WF_vars(SetKeys(c))
          /\ WF_vars(Attach(c))
          /\ WF_vars(Heartbeat(c)) /\ WF_vars(HandlerEnds(c))
    /\ \A r \in Relay :
          /\ WF_vars(\E c \in Conn : RelayOf[c] = r /\ Register(c))
          /\ WF_vars(ProbeOnce(r)) /\ WF_vars(BookProbe(r))
          /\ WF_vars(\E to \in Status : RelayStatusChanged(r, to))

(* What holds. *)

\* A node is only ever assigned to a relay that the list or an administrator
\* admitted: that a relay proves its key gives it nothing.
AssignedWasApproved == \A k \in {"media", "data"}, n \in Node : sticky[k][n] \in approved \cup {None}

\* A relay that can be assigned gets the key it needs to accept the tickets, also
\* after a restart that lost it, or its connection leaves the table.
ListedGetsKeys ==
    \A r \in Relay : table[r] # None /\ r \notin keyed ~> r \in keyed \/ table[r] = None

\* A rotation reaches the server: at rest, the fingerprint it hands out is the
\* one of the relay's certificate.  (Except if the rotation fell between the
\* registration of a session and its watch, see FingerprintCurrent.)
FingerprintFollows ==
    \A r \in Relay :
        <>[](table[r] # None /\ watched[table[r]] = told[table[r]] => told[table[r]] = cert[r])

\* A relay that is active goes on being listed,
\* however its connections replace each other.
ListedAgain ==
    \A r \in Relay : <>[](row[r] = "active") => <>[](table[r] # None)

(* What does not hold. *)

\* Once it is at rest, the fingerprint the server hands out is the one of the
\* relay's certificate.
FingerprintCurrent ==
    \A r \in Relay : <>[](table[r] # None => told[table[r]] = cert[r])

\* A relay that is not active in the database is not eligible for long.
MirrorFollows == \A r \in Relay : <>[](Eligible(r) => row[r] = "active")
=============================================================================
