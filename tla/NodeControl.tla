----------------------------- MODULE NodeControl -----------------------------
(***************************************************************************)
(* The control connection of one machine and its registration: the         *)
(* handler agentConnect with the registry, NODE_DELETE and the admin's     *)
(* node operations on the server; connect.Client, Register, Deregister     *)
(* and the run loop on the agent.                                          *)
(*                                                                         *)
(* A connection is served by one goroutine of the server, which touches    *)
(* two things nobody locks together, the row of the node in the database   *)
(* and the entry in the registry; connections of the same node overlap     *)
(* whenever the agent redials before the server has noticed the loss, and  *)
(* whenever Deregister opens its own.  The identity key is one that never  *)
(* changes (no adoption), and the machine belongs to one cluster.          *)
(***************************************************************************)
EXTENDS Integers, FiniteSets

CONSTANTS
    Nodes,       \* node ids the server can hand out
    Conns,       \* bound: connections that exist at the same time
    NoNode, NoConn,
    AdminOps,    \* what administrators do: subset of {"disable", "enable", "delete"}
    ServerFlag,  \* the agent was started with an explicit --server
    MaxFaults    \* bound: lost links, failed deletions, restarts of either side

ASSUME NodeControlAssumption ==
    /\ NoNode \notin Nodes /\ NoConn \notin Conns /\ "admin" \notin Conns
    /\ AdminOps \subseteq {"disable", "enable", "delete"}
    /\ ServerFlag \in BOOLEAN /\ MaxFaults \in Nat

VARIABLES
    row,     \* nodes.status in the database; "unused" ids were never handed out
    reg,     \* Registry.conns
    conn,    \* the connections: the goroutine at the server and the client's end
    job,     \* deletions under way, by the connection or the administrator
    agent,   \* binding.json, identity.json, the run loop and its rebind channel
    ctl,     \* the agentctl operation under way (dispatch runs one at a time)
    faults

vars == <<row, reg, conn, job, agent, ctl, faults>>

Exists(n) == row[n] \in {"offline", "online", "disabled"}
Holders == Conns \cup {"admin"}

Closed == [role |-> "none", node |-> NoNode, srv |-> "done", cli |-> "closed",
           cancelled |-> FALSE, asked |-> FALSE, frames |-> {}, link |-> "closed"]
\* Nothing is remembered of a connection that is over at both ends, and nothing
\* is delivered to an end that is gone.
Over(c) ==
    IF c.srv = "done" /\ c.cli = "closed" THEN Closed
    ELSE [c EXCEPT !.frames = IF c.cli = "closed" THEN {} ELSE @,
                   !.asked = @ /\ c.srv # "done"]
NoJob == [pc |-> "none", node |-> NoNode, live |-> NoConn]
NoOp == [pc |-> "idle", node |-> NoNode]

TypeOK ==
    /\ row \in [Nodes -> {"unused", "offline", "online", "disabled", "deleted"}]
    /\ reg \in [Nodes -> Conns \cup {NoConn}]
    /\ conn \in [Conns -> [role : {"none", "resident", "delete"},
                           node : Nodes \cup {NoNode},
                           srv : {"challenge", "authed", "greeted", "added", "loop",
                                  "deleting", "clean", "done"},
                           cli : {"shake", "ready", "sent", "closed"},
                           cancelled : BOOLEAN, asked : BOOLEAN,
                           frames : SUBSET {"ack", "error"},
                           link : {"up", "closed", "lost"}]]
    /\ job \in [Holders -> [pc : {"none", "row", "get", "remove", "cancel", "end"},
                            node : Nodes \cup {NoNode}, live : Conns \cup {NoConn}]]
    /\ agent \in [binding : Nodes \cup {NoNode}, identity : Nodes \cup {NoNode},
                  run : {"await", "idle", "cycle"}, cycle : Nodes \cup {NoNode},
                  rebind : BOOLEAN]
    /\ agent.run = "cycle" => agent.cycle \in Nodes
    /\ ctl \in [pc : {"idle", "identity", "binding", "delete", "unbind", "notify"},
                node : Nodes \cup {NoNode}]
    /\ faults \in 0..MaxFaults

\* A machine that was never registered.
Init ==
    /\ row = [n \in Nodes |-> "unused"]
    /\ reg = [n \in Nodes |-> NoConn]
    /\ conn = [c \in Conns |-> Closed]
    /\ job = [h \in Holders |-> NoJob]
    /\ agent = [binding |-> NoNode, identity |-> NoNode, run |-> "await",
                cycle |-> NoNode, rebind |-> FALSE]
    /\ ctl = NoOp
    /\ faults = 0

-----------------------------------------------------------------------------
(* The server's goroutine of a connection: agentConnect. *)

Serves(c, pc) == conn[c].srv = pc

\* GetNodeByID and the signature; an unknown node is cut off.
Authenticate(c) ==
    /\ Serves(c, "challenge")
    /\ conn' = [conn EXCEPT ![c] =
            IF Exists(@.node) THEN [@ EXCEPT !.srv = "authed"]
                              ELSE Over([@ EXCEPT !.srv = "done", !.link = "closed"])]
    /\ UNCHANGED <<row, reg, job, agent, ctl, faults>>

\* A read of the handshake fails or times out.
HandshakeFails(c) ==
    /\ conn[c].srv \in {"challenge", "authed"} /\ conn[c].link # "up"
    /\ conn' = [conn EXCEPT ![c] = Over([@ EXCEPT !.srv = "done", !.link = "closed"])]
    /\ UNCHANGED <<row, reg, job, agent, ctl, faults>>

\* SetNodeStatus: UPDATE ... WHERE id, which does nothing to a deleted row.
SetNodeStatus(n, status) ==
    row' = [row EXCEPT ![n] = IF Exists(n) THEN status ELSE @]

\* HELLO: the metadata and the status are written.
Hello(c) ==
    /\ Serves(c, "authed")
    /\ SetNodeStatus(conn[c].node, "online")
    /\ conn' = [conn EXCEPT ![c].srv = "greeted"]
    /\ UNCHANGED <<reg, job, agent, ctl, faults>>

\* Registry.Add: the entry is taken over and its old connection cancelled.
Add(c) ==
    LET n == conn[c].node IN
    /\ Serves(c, "greeted")
    /\ reg' = [reg EXCEPT ![n] = c]
    /\ conn' = [d \in Conns |->
            IF d = c THEN [conn[c] EXCEPT !.srv = "added"]
            ELSE IF d = reg[n] THEN [conn[d] EXCEPT !.cancelled = TRUE] ELSE conn[d]]
    /\ UNCHANGED <<row, job, agent, ctl, faults>>

\* HELLO_ACK; a cancelled connection can no longer write.
HelloAck(c) ==
    /\ Serves(c, "added")
    /\ conn' = [conn EXCEPT ![c].srv = "loop",
                            ![c].frames = IF conn[c].cancelled \/ conn[c].cli = "closed"
                                          THEN @ ELSE @ \cup {"ack"}]
    /\ UNCHANGED <<row, reg, job, agent, ctl, faults>>

\* Mutant: Remove in the place of RemoveIf.
CleanupRemoves(c) ==
    LET n == conn[c].node IN
    /\ reg' = [reg EXCEPT ![n] = NoConn]
    /\ conn' = [conn EXCEPT ![c] = Over([@ EXCEPT !.link = "closed",
                            !.srv = IF reg[n] # NoConn THEN "clean" ELSE "done"])]

\* The deferred cleanup up to RemoveIf; only the current connection goes on to
\* write the status.
Cleanup(c) ==
    LET n == conn[c].node IN
    /\ reg' = [reg EXCEPT ![n] = IF @ = c THEN NoConn ELSE @]
    /\ conn' = [conn EXCEPT ![c] = Over([@ EXCEPT !.link = "closed",
                            !.srv = IF reg[n] = c THEN "clean" ELSE "done"])]

\* The heartbeat loop ends: cancelled, closed by the client, or silent for
\* HeartbeatTimeout.
LoopEnds(c) ==
    /\ Serves(c, "loop") /\ (conn[c].cancelled \/ conn[c].link # "up")
    /\ Cleanup(c)
    /\ UNCHANGED <<row, job, agent, ctl, faults>>

\* The rest of the cleanup: the status in the database.
WriteOffline(c) ==
    /\ Serves(c, "clean")
    /\ SetNodeStatus(conn[c].node, "offline")
    /\ conn' = [conn EXCEPT ![c] = Over([@ EXCEPT !.srv = "done"])]
    /\ UNCHANGED <<reg, job, agent, ctl, faults>>

-----------------------------------------------------------------------------
(* Deletion: NODE_DELETE on a connection, DELETE /api/nodes/{id}. *)

\* The loop reads NODE_DELETE.
NodeDelete(c) ==
    /\ Serves(c, "loop") /\ conn[c].asked
    /\ conn' = [conn EXCEPT ![c].srv = "deleting", ![c].asked = FALSE]
    /\ job' = [job EXCEPT ![c] = [pc |-> "row", node |-> conn[c].node, live |-> NoConn]]
    /\ UNCHANGED <<row, reg, agent, ctl, faults>>

Delete(n) == row' = [row EXCEPT ![n] = "deleted"]

\* nodeDelete: DeleteNode runs under the context of the connection.
DeleteRow(c) ==
    /\ job[c].pc = "row" /\ ~conn[c].cancelled
    /\ Delete(job[c].node)
    /\ job' = [job EXCEPT ![c].pc = "get"]
    /\ UNCHANGED <<reg, conn, agent, ctl, faults>>

\* DeleteNode fails: in the database, with an ERROR frame, or because the
\* connection was cancelled, when the query may have been executed and the ERROR
\* frame can no longer be written.
DeleteRowFails(c) ==
    /\ job[c].pc = "row"
    /\ \/ /\ ~conn[c].cancelled /\ faults < MaxFaults
          /\ faults' = faults + 1
          /\ conn' = [conn EXCEPT ![c].frames = IF conn[c].cli = "closed" THEN @ ELSE @ \cup {"error"}]
          /\ UNCHANGED row
       \/ /\ conn[c].cancelled
          /\ Delete(job[c].node) \/ UNCHANGED row
          /\ UNCHANGED <<conn, faults>>
    /\ job' = [job EXCEPT ![c].pc = "end"]
    /\ UNCHANGED <<reg, agent, ctl>>

\* evictNodeConn: Get, then Remove, then Cancel of what Get returned.
EvictGet(h) ==
    LET live == reg[job[h].node] IN
    /\ job[h].pc = "get"
    /\ job' = [job EXCEPT ![h].live = live,
                          ![h].pc = IF live = NoConn THEN "end" ELSE "remove"]
    /\ UNCHANGED <<row, reg, conn, agent, ctl, faults>>

\* Mutant: the connection is cancelled before its entry is removed.
EvictCancelsFirst(h) ==
    /\ job[h].pc = "remove"
    /\ conn' = [conn EXCEPT ![job[h].live].cancelled = TRUE]
    /\ job' = [job EXCEPT ![h].pc = "cancel"]
    /\ UNCHANGED <<row, reg, agent, ctl, faults>>

EvictRemove(h) ==
    /\ job[h].pc = "remove"
    /\ reg' = [reg EXCEPT ![job[h].node] = NoConn]
    /\ job' = [job EXCEPT ![h].pc = "cancel"]
    /\ UNCHANGED <<row, conn, agent, ctl, faults>>

EvictCancel(h) ==
    /\ job[h].pc = "cancel"
    /\ conn' = [conn EXCEPT ![job[h].live] = Over([@ EXCEPT !.cancelled = TRUE])]
    /\ job' = [job EXCEPT ![h].pc = "end", ![h].live = NoConn]
    /\ UNCHANGED <<row, reg, agent, ctl, faults>>

\* After nodeDelete, successful or not, the connection is closed and cleaned up.
DeleteCloses(c) ==
    /\ job[c].pc = "end"
    /\ job' = [job EXCEPT ![c] = NoJob]
    /\ Cleanup(c)
    /\ UNCHANGED <<row, agent, ctl, faults>>

\* adminDeleteNode.
AdminDelete(n) ==
    /\ "delete" \in AdminOps /\ job["admin"] = NoJob /\ Exists(n)
    /\ Delete(n)
    /\ job' = [job EXCEPT !["admin"] = [pc |-> "get", node |-> n, live |-> NoConn]]
    /\ UNCHANGED <<reg, conn, agent, ctl, faults>>

AdminDeleted ==
    /\ job["admin"].pc = "end"
    /\ job' = [job EXCEPT !["admin"] = NoJob]
    /\ UNCHANGED <<row, reg, conn, agent, ctl, faults>>

\* nodeDisable and nodeEnable.
NodeDisable(n) ==
    /\ "disable" \in AdminOps /\ Exists(n)
    /\ SetNodeStatus(n, "disabled")
    /\ UNCHANGED <<reg, conn, job, agent, ctl, faults>>

NodeEnable(n) ==
    /\ "enable" \in AdminOps /\ Exists(n)
    /\ SetNodeStatus(n, "offline")
    /\ UNCHANGED <<reg, conn, job, agent, ctl, faults>>

-----------------------------------------------------------------------------
(* The agent's end of a connection: handshake, once, drain, DeleteNode. *)

\* A slot of a connection that is over at both ends and that no eviction holds.
Free(c) == conn[c] = Closed /\ \A h \in Holders : job[h].live # c

Dialed(role, n) == [Closed EXCEPT !.role = role, !.node = n, !.srv = "challenge",
                                  !.cli = "shake", !.link = "up"]
Hangup(c) == [conn EXCEPT ![c] = Over([@ EXCEPT !.cli = "closed", !.link = "closed"])]

InUse(role) == \E c \in Conns : conn[c].role = role /\ conn[c].cli # "closed"

\* Client.Run dials, after whatever backoff.
Dial(c) ==
    /\ agent.run = "cycle" /\ ~InUse("resident") /\ Free(c)
    /\ conn' = [conn EXCEPT ![c] = Dialed("resident", agent.cycle)]
    /\ UNCHANGED <<row, reg, job, agent, ctl, faults>>

\* HELLO_ACK arrives at the resident client.
Ready(c) ==
    /\ conn[c].role = "resident" /\ conn[c].cli = "shake" /\ "ack" \in conn[c].frames
    /\ conn' = [conn EXCEPT ![c].cli = "ready", ![c].frames = @ \ {"ack"}]
    /\ UNCHANGED <<row, reg, job, agent, ctl, faults>>

\* The resident client notices that the connection is dead.
ConnDead(c) ==
    /\ conn[c].role = "resident" /\ conn[c].cli # "closed" /\ conn[c].link # "up"
    /\ conn' = Hangup(c)
    /\ UNCHANGED <<row, reg, job, agent, ctl, faults>>

\* DeleteNode: the handshake is through and NODE_DELETE written; on a connection
\* that is going down the write may succeed and get nowhere.
SendNodeDelete(c) ==
    /\ conn[c].role = "delete" /\ conn[c].cli = "shake" /\ "ack" \in conn[c].frames
    /\ conn' = [conn EXCEPT ![c].cli = "sent", ![c].frames = @ \ {"ack"},
                            ![c].asked = conn[c].link = "up"]
    /\ UNCHANGED <<row, reg, job, agent, ctl, faults>>

\* The close of the peer is the confirmation.
DeleteConfirmed(c) ==
    /\ conn[c].cli = "sent" /\ conn[c].frames = {} /\ conn[c].link = "closed"
    /\ conn' = Hangup(c)
    /\ ctl' = [ctl EXCEPT !.pc = "unbind"]
    /\ UNCHANGED <<row, reg, job, agent, faults>>

\* An ERROR frame, a failed handshake or write, or no answer in time.
DeleteFails(c) ==
    /\ conn[c].role = "delete"
    /\ \/ conn[c].cli = "sent" /\ ("error" \in conn[c].frames \/ conn[c].link # "closed")
       \/ conn[c].cli = "shake" /\ conn[c].link # "up"
    /\ conn' = Hangup(c)
    /\ ctl' = NoOp
    /\ UNCHANGED <<row, reg, job, agent, faults>>

-----------------------------------------------------------------------------
(* The agent: Register and Deregister of agentctl, the run loop. *)

\* Register: POST .../nodes/register; enrollNode returns the machine's row, or
\* makes one.  The answer may be lost.
RegisterPost(n) ==
    /\ ctl = NoOp
    /\ \/ Exists(n) /\ UNCHANGED row
       \/ /\ row[n] = "unused" /\ \A m \in Nodes : ~Exists(m)
          /\ row' = [row EXCEPT ![n] = "offline"]
    /\ \/ ctl' = [pc |-> "identity", node |-> n] /\ UNCHANGED faults
       \/ faults < MaxFaults /\ faults' = faults + 1 /\ UNCHANGED ctl
    /\ UNCHANGED <<reg, conn, job, agent>>

RegisterIdentity ==
    /\ ctl.pc = "identity"
    /\ agent' = [agent EXCEPT !.identity = ctl.node]
    /\ ctl' = [ctl EXCEPT !.pc = "binding"]
    /\ UNCHANGED <<row, reg, conn, job, faults>>

\* Mutant: the run loop is not told.
RegisterBindingQuietly ==
    /\ ctl.pc = "binding"
    /\ agent' = [agent EXCEPT !.binding = ctl.node]
    /\ ctl' = NoOp
    /\ UNCHANGED <<row, reg, conn, job, faults>>

RegisterBinding ==
    /\ ctl.pc = "binding"
    /\ agent' = [agent EXCEPT !.binding = ctl.node]
    /\ ctl' = [NoOp EXCEPT !.pc = "notify"]
    /\ UNCHANGED <<row, reg, conn, job, faults>>

\* Deregister: with a binding and an identity it dials its own connection.
Deregister(c) ==
    /\ ctl = NoOp /\ agent.binding # NoNode /\ agent.identity # NoNode /\ Free(c)
    /\ conn' = [conn EXCEPT ![c] = Dialed("delete", agent.identity)]
    /\ ctl' = [pc |-> "delete", node |-> agent.identity]
    /\ UNCHANGED <<row, reg, job, agent, faults>>

\* Mutant: the run loop is not told.
RemoveBindingQuietly ==
    /\ ctl.pc = "unbind"
    /\ agent' = [agent EXCEPT !.binding = NoNode]
    /\ ctl' = NoOp
    /\ UNCHANGED <<row, reg, conn, job, faults>>

RemoveBinding ==
    /\ ctl.pc = "unbind"
    /\ agent' = [agent EXCEPT !.binding = NoNode]
    /\ ctl' = [NoOp EXCEPT !.pc = "notify"]
    /\ UNCHANGED <<row, reg, conn, job, faults>>

\* Upgrade writes another channel into the binding, and restarts the cycle.
Upgrade ==
    /\ ctl = NoOp /\ agent.binding # NoNode
    /\ ctl' = [NoOp EXCEPT !.pc = "notify"]
    /\ UNCHANGED <<row, reg, conn, job, agent, faults>>

\* notifyRebind: a channel of one slot, never blocking.
NotifyRebind ==
    /\ ctl.pc = "notify"
    /\ agent' = [agent EXCEPT !.rebind = TRUE]
    /\ ctl' = NoOp
    /\ UNCHANGED <<row, reg, conn, job, faults>>

\* A cycle runs with the identity, which wins over the binding.
StartCycle(a) == [a EXCEPT !.run = "cycle", !.cycle = a.identity]

\* awaitBinding: a binding, one made from --server and the identity, or idling.
AwaitBinding ==
    /\ agent.run = "await"
    /\ agent' = IF agent.binding # NoNode THEN StartCycle(agent)
                ELSE IF ServerFlag /\ agent.identity # NoNode
                     THEN StartCycle([agent EXCEPT !.binding = agent.identity])
                     ELSE [agent EXCEPT !.run = "idle"]
    /\ UNCHANGED <<row, reg, conn, job, ctl, faults>>

\* idleAwaitRegistration: woken by rebind, or by its ticker.
IdleWakes ==
    /\ agent.run = "idle"
    /\ \/ agent.rebind
       \/ agent.binding # NoNode
    /\ \E woken \in BOOLEAN :
          /\ woken => agent.rebind
          /\ LET a == IF woken THEN [agent EXCEPT !.rebind = FALSE] ELSE agent
             IN  agent' = IF agent.binding # NoNode THEN StartCycle(a) ELSE a
    /\ UNCHANGED <<row, reg, conn, job, ctl, faults>>

\* runConnected: the watcher takes the rebind signal and cancels the cycle, which
\* closes the resident connection.
CycleInterrupted ==
    /\ agent.run = "cycle" /\ agent.rebind
    /\ agent' = [agent EXCEPT !.run = "await", !.rebind = FALSE, !.cycle = NoNode]
    /\ conn' = [c \in Conns |-> IF conn[c].role = "resident" /\ conn[c].cli # "closed"
                                THEN Hangup(c)[c] ELSE conn[c]]
    /\ UNCHANGED <<row, reg, job, ctl, faults>>

-----------------------------------------------------------------------------
(* Faults. *)

Fault == faults < MaxFaults /\ faults' = faults + 1

LinkLost(c) ==
    /\ Fault /\ conn[c].link = "up"
    /\ conn' = [conn EXCEPT ![c].link = "lost"]
    /\ UNCHANGED <<row, reg, job, agent, ctl>>

\* Only the database survives.
ServerRestarts ==
    /\ Fault
    /\ reg' = [n \in Nodes |-> NoConn]
    /\ conn' = [c \in Conns |-> Over([conn[c] EXCEPT !.srv = "done", !.link = "closed"])]
    /\ job' = [h \in Holders |-> NoJob]
    /\ UNCHANGED <<row, agent, ctl>>

\* Only binding.json and identity.json survive.
AgentRestarts ==
    /\ Fault
    /\ conn' = [c \in Conns |-> Hangup(c)[c]]
    /\ agent' = [agent EXCEPT !.run = "await", !.cycle = NoNode, !.rebind = FALSE]
    /\ ctl' = NoOp
    /\ UNCHANGED <<row, reg, job>>

-----------------------------------------------------------------------------

ServerStep(c) ==
    \/ Authenticate(c) \/ HandshakeFails(c) \/ Hello(c) \/ Add(c) \/ HelloAck(c)
    \/ LoopEnds(c) \/ WriteOffline(c)
    \/ NodeDelete(c) \/ DeleteRow(c) \/ DeleteRowFails(c) \/ DeleteCloses(c)
Evict(h) == EvictGet(h) \/ EvictRemove(h) \/ EvictCancel(h)
ClientStep(c) ==
    \/ Dial(c) \/ Ready(c) \/ ConnDead(c)
    \/ SendNodeDelete(c) \/ DeleteConfirmed(c) \/ DeleteFails(c)
CtlStep == RegisterIdentity \/ RegisterBinding \/ RemoveBinding \/ NotifyRebind
RunStep == AwaitBinding \/ IdleWakes \/ CycleInterrupted

Next ==
    \/ \E c \in Conns : ServerStep(c) \/ ClientStep(c) \/ Deregister(c) \/ LinkLost(c)
    \/ \E h \in Holders : Evict(h)
    \/ \E n \in Nodes : RegisterPost(n) \/ AdminDelete(n) \/ NodeDisable(n) \/ NodeEnable(n)
    \/ Upgrade \/ AdminDeleted \/ CtlStep \/ RunStep
    \/ ServerRestarts \/ AgentRestarts

Spec == Init /\ [][Next]_vars

\* Goroutines that can run do run, and clients redial; nobody has to register,
\* to deregister, to upgrade, to administrate or to fail.
Fairness ==
    /\ \A c \in Conns : WF_vars(ServerStep(c)) /\ WF_vars(ClientStep(c))
    /\ \A h \in Holders : WF_vars(Evict(h))
    /\ WF_vars(AdminDeleted) /\ WF_vars(CtlStep) /\ WF_vars(RunStep)

FairSpec == Spec /\ Fairness

-----------------------------------------------------------------------------
(* Properties. *)

\* A connection that the server reads heartbeats from, and that nobody has
\* cancelled, is the one in the registry as long as its node exists: the cleanup
\* of an older connection does not take the entry of a newer one (RemoveIf), and
\* sessions find the node.
LiveIsRegistered ==
    \A c \in Conns :
        conn[c].srv \in {"added", "loop"} /\ ~conn[c].cancelled /\ Exists(conn[c].node)
            => reg[conn[c].node] = c

\* The registry never offers a cancelled connection: Add replaces the entry it
\* cancels, and evictNodeConn removes the entry first, so that the cleanup of an
\* evicted connection finds RemoveIf = false.
CancelledIsUnregistered ==
    \A n \in Nodes : reg[n] # NoConn => ~conn[reg[n]].cancelled

\* Once Deregister has its confirmation, the run loop comes to rest without a
\* connection, whatever signals are in the channel, unless the machine is
\* registered again ("binding removed before rebind" in Deregister).
DeregisterGoesIdle ==
    ctl.pc = "unbind" ~> (agent.run = "idle" \/ ctl.pc \in {"identity", "binding"})

\* A machine whose binding names a node that exists gets into the registry,
\* whatever cycle the run loop was in when the binding was written, unless
\* another operation of agentctl comes in between.
BoundGoesOnline ==
    \A n \in Nodes :
        (agent.binding = n /\ Exists(n) /\ ctl = NoOp)
            ~> (reg[n] # NoConn \/ ~Exists(n) \/ ctl # NoOp)

\* "the cleanup must not flip a node that is still heartbeating to offline": the
\* comment on the deferred cleanup of agentConnect.
HeartbeatingNotOffline ==
    \A n \in Nodes : reg[n] # NoConn /\ conn[reg[n]].srv = "loop" => row[n] # "offline"

\* A disabled node stays disabled until it is enabled or deleted: nodeDisable
\* says that sessions are refused from then on, and nodeEnable lifts it.
DisableHolds ==
    [][\A n \in Nodes : row[n] = "disabled" =>
            row'[n] \in {"disabled", "deleted"} \/ NodeEnable(n)]_vars

\* DeleteNode never takes an unknown state for a success: when it reports the
\* confirmation, the server has deleted the node.
ConfirmedIsDeleted == ctl.pc = "unbind" => ~Exists(ctl.node)

\* When a deletion is complete, no connection of the node is served any more.
DeletedIsEvicted ==
    \A c \in Conns :
        conn[c].srv \in {"added", "loop"} /\ ~conn[c].cancelled
            => Exists(conn[c].node) \/ \E h \in Holders : job[h].node = conn[c].node

\* A node that is enabled while its agent is connected becomes online again: its
\* status follows the heartbeats (comment on nodeEnable).
EnabledComesOnline ==
    \A n \in Nodes : (row[n] = "offline" /\ reg[n] # NoConn)
                        ~> ~(row[n] = "offline" /\ reg[n] # NoConn)
=============================================================================
