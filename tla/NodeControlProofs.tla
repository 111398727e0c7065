-------------------------- MODULE NodeControlProofs --------------------------
(***************************************************************************)
(* TLAPS proofs about the control connection: the registry names the       *)
(* connection that is served, and never one that was cancelled.            *)
(***************************************************************************)
EXTENDS NodeControl, TLAPS

USE NodeControlAssumption

\* A machine with a binding has an identity: Register writes it first.
BoundHasIdentity ==
    /\ agent.binding # NoNode => agent.identity \in Nodes
    /\ ctl.pc \in {"identity", "binding"} => ctl.node \in Nodes
    /\ ctl.pc = "binding" => agent.identity \in Nodes

\* What is served is of a node that was handed out once.
ServedIsKnown ==
    \A c \in Conns :
        /\ conn[c].srv # "done" => conn[c].node \in Nodes
        /\ conn[c].srv \notin {"challenge", "done"} => row[conn[c].node] # "unused"

\* The registry lists connections that came through Add and not yet through
\* the cleanup, under their own node.
EntryIsServed ==
    \A n \in Nodes : reg[n] # NoConn =>
        conn[reg[n]].node = n /\ conn[reg[n]].srv \in {"added", "loop", "deleting"}

\* Only a connection that was in the registry is cancelled, or about to be.
CancelledWasAdded ==
    /\ \A c \in Conns : conn[c].srv \in {"challenge", "authed", "greeted"} => ~conn[c].cancelled
    /\ \A h \in Holders : job[h].live # NoConn =>
            conn[job[h].live].srv \notin {"challenge", "authed", "greeted"}

\* A deletion of a connection goes on while that connection waits for it.
DeletionIsServed ==
    \A c \in Conns : job[c].pc # "none" =>
        conn[c].srv = "deleting" /\ job[c].node = conn[c].node

\* An eviction is of a node whose row is gone; its target is of that node, and
\* when it is to be cancelled it is no longer in the registry.
EvictionFollowsDelete ==
    \A h \in Holders :
        /\ job[h].pc # "none" => job[h].node \in Nodes
        /\ job[h].pc \in {"get", "remove", "cancel"} => row[job[h].node] = "deleted"
        /\ job[h].pc \in {"remove", "cancel"} => job[h].live \in Conns
        /\ job[h].pc = "remove" =>
              conn[job[h].live].srv = "done" \/ conn[job[h].live].node = job[h].node
        /\ job[h].pc = "cancel" => \A n \in Nodes : reg[n] # job[h].live

NodeInv ==
    /\ TypeOK /\ BoundHasIdentity /\ ServedIsKnown /\ EntryIsServed /\ CancelledWasAdded
    /\ DeletionIsServed /\ EvictionFollowsDelete
    /\ LiveIsRegistered /\ CancelledIsUnregistered

-----------------------------------------------------------------------------
(* Types. *)

Status == {"unused", "offline", "online", "disabled", "deleted"}
ConnRec == [role : {"none", "resident", "delete"}, node : Nodes \cup {NoNode},
            srv : {"challenge", "authed", "greeted", "added", "loop", "deleting", "clean", "done"},
            cli : {"shake", "ready", "sent", "closed"},
            cancelled : BOOLEAN, asked : BOOLEAN,
            frames : SUBSET {"ack", "error"}, link : {"up", "closed", "lost"}]
JobRec == [pc : {"none", "row", "get", "remove", "cancel", "end"},
           node : Nodes \cup {NoNode}, live : Conns \cup {NoConn}]

AgentRec == [binding : Nodes \cup {NoNode}, identity : Nodes \cup {NoNode},
             run : {"await", "idle", "cycle"}, cycle : Nodes \cup {NoNode}, rebind : BOOLEAN]

\* The server's half of the type invariant.
ServerType ==
    /\ row \in [Nodes -> Status]
    /\ reg \in [Nodes -> Conns \cup {NoConn}]
    /\ conn \in [Conns -> ConnRec]
    /\ job \in [Holders -> JobRec]

\* The agent's half.
AgentType ==
    /\ agent \in AgentRec
    /\ agent.run = "cycle" => agent.cycle \in Nodes
    /\ ctl \in [pc : {"idle", "identity", "binding", "delete", "unbind", "notify"},
                node : Nodes \cup {NoNode}]
    /\ faults \in 0..MaxFaults

LEMMA TypeSplit == (TypeOK <=> ServerType /\ AgentType) /\ (TypeOK' <=> ServerType' /\ AgentType')
BY DEF TypeOK, ServerType, AgentType, ConnRec, JobRec, AgentRec, Status

LEMMA ClosedType == Closed \in ConnRec /\ Closed.srv = "done"
BY DEF Closed, ConnRec

\* Forgetting a connection that is over does not move the server's goroutine.
LEMMA OverKeeps ==
    ASSUME NEW x \in ConnRec
    PROVE  /\ Over(x) \in ConnRec
           /\ Over(x).srv = x.srv
           /\ x.srv # "done" => Over(x).node = x.node /\ Over(x).cancelled = x.cancelled
<1>1. CASE x.srv = "done" /\ x.cli = "closed"
  BY <1>1, ClosedType DEF Over
<1>2. CASE ~(x.srv = "done" /\ x.cli = "closed")
  BY <1>2 DEF Over, ConnRec
<1> QED BY <1>1, <1>2

LEMMA CancelType ==
    ASSUME NEW x \in ConnRec
    PROVE  LET y == [x EXCEPT !.cancelled = TRUE]
           IN  y \in ConnRec /\ y.srv = x.srv /\ y.node = x.node /\ y.cancelled = TRUE
BY DEF ConnRec

-----------------------------------------------------------------------------
(* The server. *)

ServerInv ==
    /\ ServedIsKnown /\ EntryIsServed /\ CancelledWasAdded /\ DeletionIsServed
    /\ EvictionFollowsDelete /\ LiveIsRegistered /\ CancelledIsUnregistered

\* A step that moves no goroutine of the server, cancels nothing and writes
\* neither the rows nor the registry.
Bystander ==
    /\ conn' \in [Conns -> ConnRec]
    /\ \A d \in Conns :
          /\ conn'[d].srv = conn[d].srv
          /\ conn[d].srv # "done" =>
                conn'[d].node = conn[d].node /\ conn'[d].cancelled = conn[d].cancelled
    /\ UNCHANGED <<row, reg, job>>

LEMMA BystanderKeeps ==
    ASSUME ServerType, ServerInv, Bystander
    PROVE  ServerType' /\ ServerInv'
<1> USE DEF Bystander, ServerType
<1>1. ServerType'
  OBVIOUS
<1>2. ServedIsKnown'
  BY DEF ServerInv, ServedIsKnown
<1>3. EntryIsServed' /\ CancelledIsUnregistered'
  BY DEF ServerInv, EntryIsServed, CancelledIsUnregistered
<1>4. CancelledWasAdded'
  BY DEF ServerInv, CancelledWasAdded, JobRec
<1>5. DeletionIsServed'
  BY DEF ServerInv, DeletionIsServed
<1>6. EvictionFollowsDelete'
  BY DEF ServerInv, EvictionFollowsDelete
<1>7. LiveIsRegistered'
  BY DEF ServerInv, LiveIsRegistered, Exists
<1> QED BY <1>1, <1>2, <1>3, <1>4, <1>5, <1>6, <1>7 DEF ServerInv

\* A row is handed out once and deleted once.
RowStep ==
    \A n \in Nodes :
        /\ row[n] # "unused" => row'[n] # "unused"
        /\ row[n] = "deleted" => row'[n] = "deleted"
        /\ row[n] = "unused" => row'[n] \in {"unused", "offline"}

\* Writing a row disturbs nothing else.
LEMMA RowKeeps ==
    ASSUME ServerType, ServerInv, RowStep, row' \in [Nodes -> Status],
           UNCHANGED <<reg, conn, job>>
    PROVE  ServerType' /\ ServerInv'
<1> USE DEF ServerType
<1>1. ServerType'
  OBVIOUS
<1>2. ServedIsKnown'
  BY DEF ServerInv, ServedIsKnown, RowStep
<1>3. EntryIsServed' /\ CancelledIsUnregistered' /\ CancelledWasAdded' /\ DeletionIsServed'
  BY DEF ServerInv, EntryIsServed, CancelledIsUnregistered, CancelledWasAdded, DeletionIsServed
<1>4. EvictionFollowsDelete'
  BY DEF ServerInv, EvictionFollowsDelete, RowStep
<1>5. LiveIsRegistered'
  BY DEF ServerInv, LiveIsRegistered, ServedIsKnown, Exists, RowStep, Status
<1> QED BY <1>1, <1>2, <1>3, <1>4, <1>5 DEF ServerInv

LEMMA SetStatusIsRowStep ==
    ASSUME ServerType, NEW n \in Nodes, NEW st \in {"offline", "online", "disabled"},
           SetNodeStatus(n, st)
    PROVE  RowStep /\ row' \in [Nodes -> Status]
BY DEF ServerType, SetNodeStatus, RowStep, Exists, Status

LEMMA DeleteIsRowStep ==
    ASSUME ServerType, NEW n \in Nodes, Delete(n), row[n] # "unused"
    PROVE  RowStep /\ row' \in [Nodes -> Status] /\ row'[n] = "deleted"
BY DEF ServerType, Delete, RowStep, Status

\* The cleanup of a connection, from the loop or at the end of its deletion.
LEMMA CleanupKeeps ==
    ASSUME ServerType, ServerInv, NEW c \in Conns, conn[c].srv \in {"loop", "deleting"},
           Cleanup(c), UNCHANGED row,
           job' \in [Holders -> JobRec], job'[c].pc = "none",
           \A h \in Holders : job'[h] = job[h] \/ job'[h] = NoJob
    PROVE  ServerType' /\ ServerInv'
<1> USE DEF ServerType
<1> DEFINE n == conn[c].node
           x == [conn[c] EXCEPT !.link = "closed", !.srv = IF reg[n] = c THEN "clean" ELSE "done"]
           o == Over(x)
<1>n. n \in Nodes /\ row[n] # "unused"
  BY DEF ServerInv, ServedIsKnown
<1>1. /\ x \in ConnRec /\ x.node = n /\ x.cancelled = conn[c].cancelled
      /\ x.srv = IF reg[n] = c THEN "clean" ELSE "done"
  <2> DEFINE v == IF reg[n] = c THEN "clean" ELSE "done"
  <2>1. conn[c] \in ConnRec /\ v \in {"clean", "done"}
    OBVIOUS
  <2> HIDE DEF v, n
  <2>2. LET z == [conn[c] EXCEPT !.link = "closed", !.srv = v]
        IN  z \in ConnRec /\ z.node = conn[c].node /\ z.cancelled = conn[c].cancelled /\ z.srv = v
    BY <2>1 DEF ConnRec
  <2> QED BY <2>2 DEF v, n
<1> HIDE DEF x
<1>2. o \in ConnRec /\ o.srv = x.srv /\ (o.srv # "done" => o.node = n)
  BY <1>1, OverKeeps
<1>3. /\ conn' = [conn EXCEPT ![c] = o]
      /\ reg' = [reg EXCEPT ![n] = IF reg[n] = c THEN NoConn ELSE reg[n]]
  BY DEF Cleanup, x
<1>j. NoJob.pc = "none" /\ NoJob.live = NoConn
  BY DEF NoJob
<1> HIDE DEF o, n
<1>4. ServerType' /\ ServedIsKnown'
  BY <1>n, <1>1, <1>2, <1>3 DEF ServerInv, ServedIsKnown
<1>5. \A m \in Nodes : reg'[m] # NoConn => reg'[m] = reg[m] /\ reg[m] # c
  BY <1>n, <1>3 DEF ServerInv, EntryIsServed, n
<1>6. EntryIsServed' /\ CancelledIsUnregistered'
  BY <1>3, <1>5 DEF ServerInv, EntryIsServed, CancelledIsUnregistered
<1>7. CancelledWasAdded'
  BY <1>1, <1>2, <1>3, <1>j DEF ServerInv, CancelledWasAdded, JobRec
<1>8. DeletionIsServed'
  BY <1>2, <1>3, <1>j DEF ServerInv, DeletionIsServed, Holders
<1>9. EvictionFollowsDelete'
  BY <1>1, <1>2, <1>3, <1>5, <1>j DEF ServerInv, EvictionFollowsDelete, n
<1>10. LiveIsRegistered'
  BY <1>n, <1>1, <1>2, <1>3 DEF ServerInv, LiveIsRegistered, Exists
<1> QED BY <1>4, <1>6, <1>7, <1>8, <1>9, <1>10 DEF ServerInv

\* The steps of the handshake, the loop and the deletion, one connection each.
LEMMA ServerStepKeeps ==
    ASSUME ServerType, ServerInv, NEW c \in Conns, ServerStep(c)
    PROVE  ServerType' /\ ServerInv'
<1> USE DEF ServerType
<1>c. conn[c] \in ConnRec /\ job[c] \in JobRec
  BY DEF Holders
<1>1. CASE Authenticate(c) \/ HandshakeFails(c)
  <2>n. conn[c].srv \in {"challenge", "authed"} /\ conn[c].node \in Nodes
    BY <1>1 DEF Authenticate, HandshakeFails, Serves, ServerInv, ServedIsKnown
  <2> DEFINE x == [conn[c] EXCEPT !.srv = "done", !.link = "closed"]
             y == [conn[c] EXCEPT !.srv = "authed"]
  <2>1. x \in ConnRec /\ x.srv = "done" /\ y \in ConnRec /\ y.srv = "authed"
        /\ y.node = conn[c].node /\ y.cancelled = conn[c].cancelled
    BY <1>c DEF ConnRec
  <2>2. Over(x) \in ConnRec /\ Over(x).srv = "done"
    BY <2>1, OverKeeps
  <2>3. \/ conn' = [conn EXCEPT ![c] = Over(x)]
        \/ conn' = [conn EXCEPT ![c] = y] /\ Exists(conn[c].node)
    BY <1>1 DEF Authenticate, HandshakeFails
  <2>4. UNCHANGED <<row, reg, job>>
    BY <1>1 DEF Authenticate, HandshakeFails
  <2> HIDE DEF x, y
  <2>5. ServerType' /\ ServedIsKnown'
    BY <2>n, <2>1, <2>2, <2>3, <2>4 DEF ServerInv, ServedIsKnown, Exists
  <2>6. EntryIsServed' /\ CancelledIsUnregistered'
    BY <2>n, <2>1, <2>2, <2>3, <2>4 DEF ServerInv, EntryIsServed, CancelledIsUnregistered
  <2>7. CancelledWasAdded'
    BY <2>n, <2>1, <2>2, <2>3, <2>4 DEF ServerInv, CancelledWasAdded, JobRec
  <2>8. DeletionIsServed'
    BY <2>n, <2>1, <2>2, <2>3, <2>4 DEF ServerInv, DeletionIsServed
  <2>9. EvictionFollowsDelete'
    BY <2>n, <2>1, <2>2, <2>3, <2>4 DEF ServerInv, EvictionFollowsDelete, CancelledWasAdded
  <2>10. LiveIsRegistered'
    BY <2>n, <2>1, <2>2, <2>3, <2>4 DEF ServerInv, LiveIsRegistered, Exists
  <2> QED BY <2>5, <2>6, <2>7, <2>8, <2>9, <2>10 DEF ServerInv
<1>2. CASE Hello(c)
  <2>n. conn[c].srv = "authed" /\ conn[c].node \in Nodes /\ row[conn[c].node] # "unused"
    BY <1>2 DEF Hello, Serves, ServerInv, ServedIsKnown
  <2>r. RowStep /\ row' \in [Nodes -> Status]
    BY <1>2, <2>n, SetStatusIsRowStep DEF Hello
  <2> DEFINE x == [conn[c] EXCEPT !.srv = "greeted"]
  <2>1. x \in ConnRec /\ x.srv = "greeted" /\ x.node = conn[c].node
        /\ x.cancelled = conn[c].cancelled
    BY <1>c DEF ConnRec
  <2>2. conn' = [conn EXCEPT ![c] = x] /\ UNCHANGED <<reg, job>>
    BY <1>2 DEF Hello
  <2> HIDE DEF x
  <2>3. ServerType' /\ ServedIsKnown'
    BY <2>n, <2>r, <2>1, <2>2 DEF ServerInv, ServedIsKnown, RowStep
  <2>4. EntryIsServed' /\ CancelledIsUnregistered'
    BY <2>n, <2>1, <2>2 DEF ServerInv, EntryIsServed, CancelledIsUnregistered
  <2>5. CancelledWasAdded'
    BY <2>n, <2>1, <2>2 DEF ServerInv, CancelledWasAdded, JobRec
  <2>6. DeletionIsServed'
    BY <2>n, <2>1, <2>2 DEF ServerInv, DeletionIsServed
  <2>7. EvictionFollowsDelete'
    BY <2>n, <2>r, <2>1, <2>2 DEF ServerInv, EvictionFollowsDelete, CancelledWasAdded, RowStep
  <2>8. LiveIsRegistered'
    BY <2>n, <2>r, <2>1, <2>2 DEF ServerInv, LiveIsRegistered, ServedIsKnown, Exists, RowStep, Status
  <2> QED BY <2>3, <2>4, <2>5, <2>6, <2>7, <2>8 DEF ServerInv
<1>3. CASE Add(c)
  <2> DEFINE n == conn[c].node
             x == [conn[c] EXCEPT !.srv = "added"]
             y(d) == [conn[d] EXCEPT !.cancelled = TRUE]
  <2>n. conn[c].srv = "greeted" /\ n \in Nodes /\ row[n] # "unused" /\ ~conn[c].cancelled
    BY <1>3 DEF Add, Serves, ServerInv, ServedIsKnown, CancelledWasAdded
  <2>o. reg[n] # c
    BY <2>n DEF ServerInv, EntryIsServed
  <2>1. x \in ConnRec /\ x.srv = "added" /\ x.node = n /\ x.cancelled = conn[c].cancelled
    BY <1>c DEF ConnRec
  <2>2. \A d \in Conns : /\ y(d) \in ConnRec /\ y(d).srv = conn[d].srv
                         /\ y(d).node = conn[d].node /\ y(d).cancelled = TRUE
    BY CancelType
  <2>3. /\ conn' = [d \in Conns |-> IF d = c THEN x ELSE IF d = reg[n] THEN y(d) ELSE conn[d]]
        /\ reg' = [reg EXCEPT ![n] = c]
        /\ UNCHANGED <<row, job>>
    BY <1>3 DEF Add
  <2> HIDE DEF x, y, n
  <2>4. ServerType' /\ ServedIsKnown'
    BY <2>n, <2>1, <2>2, <2>3 DEF ServerInv, ServedIsKnown
  <2>5. EntryIsServed'
    BY <2>n, <2>1, <2>2, <2>3 DEF ServerInv, EntryIsServed
  <2>6. CancelledIsUnregistered'
    BY <2>n, <2>o, <2>1, <2>2, <2>3 DEF ServerInv, CancelledIsUnregistered, EntryIsServed
  <2>7. CancelledWasAdded'
    <3>1. reg[n] # NoConn => conn[reg[n]].srv \in {"added", "loop", "deleting"}
      BY <2>n DEF ServerInv, EntryIsServed
    <3> QED BY <2>n, <2>1, <2>2, <2>3, <3>1 DEF ServerInv, CancelledWasAdded, JobRec
  <2>8. DeletionIsServed'
    BY <2>n, <2>1, <2>2, <2>3 DEF ServerInv, DeletionIsServed
  <2>9. EvictionFollowsDelete'
    BY <2>n, <2>1, <2>2, <2>3 DEF ServerInv, EvictionFollowsDelete, CancelledWasAdded
  <2>10. LiveIsRegistered'
    BY <2>n, <2>1, <2>2, <2>3 DEF ServerInv, LiveIsRegistered, Exists, n
  <2> QED BY <2>4, <2>5, <2>6, <2>7, <2>8, <2>9, <2>10 DEF ServerInv
<1>4. CASE HelloAck(c)
  <2> DEFINE f == IF conn[c].cancelled \/ conn[c].cli = "closed"
                  THEN conn[c].frames ELSE conn[c].frames \cup {"ack"}
             x == [conn[c] EXCEPT !.srv = "loop", !.frames = f]
  <2>n. conn[c].srv = "added"
    BY <1>4 DEF HelloAck, Serves
  <2>1. x \in ConnRec /\ x.srv = "loop" /\ x.node = conn[c].node
        /\ x.cancelled = conn[c].cancelled
    BY <1>c DEF ConnRec
  <2>2. conn' = [conn EXCEPT ![c] = x] /\ UNCHANGED <<row, reg, job>>
    BY <1>4 DEF HelloAck
  <2> HIDE DEF x
  <2>3. ServerType' /\ ServedIsKnown'
    BY <2>n, <2>1, <2>2 DEF ServerInv, ServedIsKnown
  <2>4. EntryIsServed' /\ CancelledIsUnregistered'
    BY <2>n, <2>1, <2>2 DEF ServerInv, EntryIsServed, CancelledIsUnregistered
  <2>5. CancelledWasAdded'
    BY <2>n, <2>1, <2>2 DEF ServerInv, CancelledWasAdded, JobRec
  <2>6. DeletionIsServed'
    BY <2>n, <2>1, <2>2 DEF ServerInv, DeletionIsServed
  <2>7. EvictionFollowsDelete'
    BY <2>n, <2>1, <2>2 DEF ServerInv, EvictionFollowsDelete
  <2>8. LiveIsRegistered'
    BY <2>n, <2>1, <2>2 DEF ServerInv, LiveIsRegistered, Exists
  <2> QED BY <2>3, <2>4, <2>5, <2>6, <2>7, <2>8 DEF ServerInv
<1>5. CASE LoopEnds(c)
  <2>1. conn[c].srv = "loop" /\ Cleanup(c) /\ UNCHANGED <<row, job>>
    BY <1>5 DEF LoopEnds, Serves
  <2>2. job[c].pc = "none"
    BY <2>1 DEF ServerInv, DeletionIsServed
  <2> QED BY <2>1, <2>2, CleanupKeeps
<1>6. CASE DeleteCloses(c)
  <2>1. conn[c].srv = "deleting" /\ c \in Holders
    BY <1>6 DEF DeleteCloses, ServerInv, DeletionIsServed, Holders
  <2>2. NoJob \in JobRec /\ NoJob.pc = "none"
    BY DEF NoJob, JobRec
  <2>3. Cleanup(c) /\ job' = [job EXCEPT ![c] = NoJob] /\ UNCHANGED row
    BY <1>6 DEF DeleteCloses
  <2>4. job' \in [Holders -> JobRec] /\ job'[c].pc = "none"
        /\ \A h \in Holders : job'[h] = job[h] \/ job'[h] = NoJob
    BY <2>1, <2>2, <2>3
  <2> QED BY <2>1, <2>3, <2>4, CleanupKeeps
<1>7. CASE WriteOffline(c)
  <2>n. conn[c].srv = "clean" /\ conn[c].node \in Nodes
    BY <1>7 DEF WriteOffline, Serves, ServerInv, ServedIsKnown
  <2>r. RowStep /\ row' \in [Nodes -> Status]
    BY <1>7, <2>n, SetStatusIsRowStep DEF WriteOffline
  <2> DEFINE x == [conn[c] EXCEPT !.srv = "done"]
  <2>1. x \in ConnRec /\ x.srv = "done"
    BY <1>c DEF ConnRec
  <2>2. Over(x) \in ConnRec /\ Over(x).srv = "done"
    BY <2>1, OverKeeps
  <2>3. conn' = [conn EXCEPT ![c] = Over(x)] /\ UNCHANGED <<reg, job>>
    BY <1>7 DEF WriteOffline
  <2> HIDE DEF x
  <2>4. ServerType' /\ ServedIsKnown'
    BY <2>n, <2>r, <2>2, <2>3 DEF ServerInv, ServedIsKnown, RowStep
  <2>5. EntryIsServed' /\ CancelledIsUnregistered'
    BY <2>n, <2>2, <2>3 DEF ServerInv, EntryIsServed, CancelledIsUnregistered
  <2>6. CancelledWasAdded'
    BY <2>n, <2>2, <2>3 DEF ServerInv, CancelledWasAdded, JobRec
  <2>7. DeletionIsServed'
    BY <2>n, <2>2, <2>3 DEF ServerInv, DeletionIsServed
  <2>8. EvictionFollowsDelete'
    BY <2>n, <2>r, <2>2, <2>3 DEF ServerInv, EvictionFollowsDelete, RowStep
  <2>9. LiveIsRegistered'
    BY <2>n, <2>r, <2>2, <2>3 DEF ServerInv, LiveIsRegistered, ServedIsKnown, Exists, RowStep, Status
  <2> QED BY <2>4, <2>5, <2>6, <2>7, <2>8, <2>9 DEF ServerInv
<1>8. CASE NodeDelete(c)
  <2> DEFINE x == [conn[c] EXCEPT !.srv = "deleting", !.asked = FALSE]
             j == [pc |-> "row", node |-> conn[c].node, live |-> NoConn]
  <2>n. conn[c].srv = "loop" /\ conn[c].node \in Nodes /\ c \in Holders
    BY <1>8 DEF NodeDelete, Serves, ServerInv, ServedIsKnown, Holders
  <2>1. x \in ConnRec /\ x.srv = "deleting" /\ x.node = conn[c].node
        /\ x.cancelled = conn[c].cancelled
    BY <1>c DEF ConnRec
  <2>2. j \in JobRec /\ j.pc = "row" /\ j.node = conn[c].node /\ j.live = NoConn
    BY <2>n DEF JobRec
  <2>3. conn' = [conn EXCEPT ![c] = x] /\ job' = [job EXCEPT ![c] = j] /\ UNCHANGED <<row, reg>>
    BY <1>8 DEF NodeDelete
  <2> HIDE DEF x, j
  <2>4. ServerType' /\ ServedIsKnown'
    BY <2>n, <2>1, <2>2, <2>3 DEF ServerInv, ServedIsKnown
  <2>5. EntryIsServed' /\ CancelledIsUnregistered'
    BY <2>n, <2>1, <2>3 DEF ServerInv, EntryIsServed, CancelledIsUnregistered
  <2>6. CancelledWasAdded'
    BY <2>n, <2>1, <2>2, <2>3 DEF ServerInv, CancelledWasAdded, JobRec
  <2>7. DeletionIsServed'
    BY <2>n, <2>1, <2>2, <2>3 DEF ServerInv, DeletionIsServed
  <2>8. EvictionFollowsDelete'
    BY <2>n, <2>1, <2>2, <2>3 DEF ServerInv, EvictionFollowsDelete
  <2>9. LiveIsRegistered'
    BY <2>n, <2>1, <2>3 DEF ServerInv, LiveIsRegistered, Exists
  <2> QED BY <2>4, <2>5, <2>6, <2>7, <2>8, <2>9 DEF ServerInv
<1>9. CASE DeleteRow(c) \/ DeleteRowFails(c)
  <2> DEFINE p == IF DeleteRow(c) THEN "get" ELSE "end"
             j == [job[c] EXCEPT !.pc = p]
  <2>n. /\ job[c].pc = "row" /\ c \in Holders /\ job[c].node \in Nodes
        /\ job[c].node = conn[c].node /\ conn[c].srv = "deleting" /\ row[job[c].node] # "unused"
    BY <1>9 DEF DeleteRow, DeleteRowFails, ServerInv, DeletionIsServed, ServedIsKnown,
                EvictionFollowsDelete, Holders
  <2>1. /\ RowStep /\ row' \in [Nodes -> Status]
        /\ DeleteRow(c) => row'[job[c].node] = "deleted"
    <3>1. CASE Delete(job[c].node)
      BY <2>n, <3>1, DeleteIsRowStep
    <3>2. CASE UNCHANGED row /\ ~DeleteRow(c)
      BY <3>2 DEF RowStep
    <3> QED BY <1>9, <3>1, <3>2 DEF DeleteRow, DeleteRowFails
  <2>2. j \in JobRec /\ j.pc = p /\ j.node = job[c].node /\ j.live = job[c].live
    BY <1>c DEF JobRec
  <2>3. job' = [job EXCEPT ![c] = j] /\ UNCHANGED reg
    BY <1>9, <2>n DEF DeleteRow, DeleteRowFails
  <2>4. /\ conn' \in [Conns -> ConnRec]
        /\ \A d \in Conns : /\ conn'[d].srv = conn[d].srv /\ conn'[d].node = conn[d].node
                            /\ conn'[d].cancelled = conn[d].cancelled
    <3> DEFINE f == IF conn[c].cli = "closed" THEN conn[c].frames ELSE conn[c].frames \cup {"error"}
               x == [conn[c] EXCEPT !.frames = f]
    <3>1. x \in ConnRec /\ x.srv = conn[c].srv /\ x.node = conn[c].node
          /\ x.cancelled = conn[c].cancelled
      BY <1>c DEF ConnRec
    <3>2. UNCHANGED conn \/ conn' = [conn EXCEPT ![c] = x]
      BY <1>9 DEF DeleteRow, DeleteRowFails
    <3> HIDE DEF x
    <3> QED BY <3>1, <3>2
  <2>5. p \in {"get", "end"} /\ (p = "get" => row'[job[c].node] = "deleted")
    BY <2>1
  <2> HIDE DEF p, j
  <2>6. ServerType' /\ ServedIsKnown'
    BY <2>n, <2>1, <2>2, <2>3, <2>4 DEF ServerInv, ServedIsKnown, RowStep
  <2>7. EntryIsServed' /\ CancelledIsUnregistered'
    BY <2>3, <2>4 DEF ServerInv, EntryIsServed, CancelledIsUnregistered
  <2>8. CancelledWasAdded'
    BY <2>n, <2>2, <2>3, <2>4 DEF ServerInv, CancelledWasAdded, JobRec
  <2>9. DeletionIsServed'
    BY <2>n, <2>2, <2>3, <2>4 DEF ServerInv, DeletionIsServed
  <2>10. EvictionFollowsDelete'
    BY <2>n, <2>1, <2>2, <2>3, <2>4, <2>5 DEF ServerInv, EvictionFollowsDelete, RowStep
  <2>11. LiveIsRegistered'
    BY <2>1, <2>3, <2>4 DEF ServerInv, LiveIsRegistered, ServedIsKnown, Exists, RowStep, Status
  <2> QED BY <2>6, <2>7, <2>8, <2>9, <2>10, <2>11 DEF ServerInv
<1> QED BY <1>1, <1>2, <1>3, <1>4, <1>5, <1>6, <1>7, <1>8, <1>9 DEF ServerStep

\* evictNodeConn, by a connection or by the administrator.
LEMMA EvictKeeps ==
    ASSUME ServerType, ServerInv, NEW h \in Holders, Evict(h)
    PROVE  ServerType' /\ ServerInv'
<1> USE DEF ServerType
<1>j. job[h] \in JobRec
  OBVIOUS
<1>1. CASE EvictGet(h)
  <2> DEFINE l == reg[job[h].node]
             j == [job[h] EXCEPT !.live = l, !.pc = IF l = NoConn THEN "end" ELSE "remove"]
  <2>n. job[h].pc = "get" /\ job[h].node \in Nodes /\ row[job[h].node] = "deleted"
    BY <1>1 DEF EvictGet, ServerInv, EvictionFollowsDelete
  <2>l. l # NoConn => l \in Conns /\ conn[l].node = job[h].node
                      /\ conn[l].srv \in {"added", "loop", "deleting"}
    BY <2>n DEF ServerInv, EntryIsServed
  <2>1. j \in JobRec /\ j.node = job[h].node /\ j.live = l
        /\ j.pc = IF l = NoConn THEN "end" ELSE "remove"
    BY <1>j, <2>n DEF JobRec
  <2>2. job' = [job EXCEPT ![h] = j] /\ UNCHANGED <<row, reg, conn>>
    BY <1>1 DEF EvictGet
  <2> HIDE DEF j, l
  <2>3. ServerType' /\ ServedIsKnown' /\ EntryIsServed' /\ CancelledIsUnregistered'
    BY <2>1, <2>2 DEF ServerInv, ServedIsKnown, EntryIsServed, CancelledIsUnregistered
  <2>4. CancelledWasAdded'
    BY <2>l, <2>1, <2>2 DEF ServerInv, CancelledWasAdded, JobRec
  <2>5. DeletionIsServed'
    BY <2>n, <2>1, <2>2 DEF ServerInv, DeletionIsServed
  <2>6. EvictionFollowsDelete'
    BY <2>n, <2>l, <2>1, <2>2 DEF ServerInv, EvictionFollowsDelete
  <2>7. LiveIsRegistered'
    BY <2>2 DEF ServerInv, LiveIsRegistered, Exists
  <2> QED BY <2>3, <2>4, <2>5, <2>6, <2>7 DEF ServerInv
<1>2. CASE EvictRemove(h)
  <2> DEFINE j == [job[h] EXCEPT !.pc = "cancel"]
  <2>n. /\ job[h].pc = "remove" /\ job[h].node \in Nodes /\ row[job[h].node] = "deleted"
        /\ job[h].live \in Conns
        /\ conn[job[h].live].srv = "done" \/ conn[job[h].live].node = job[h].node
    BY <1>2 DEF EvictRemove, ServerInv, EvictionFollowsDelete
  <2>1. j \in JobRec /\ j.node = job[h].node /\ j.live = job[h].live /\ j.pc = "cancel"
    BY <1>j DEF JobRec
  <2>2. /\ job' = [job EXCEPT ![h] = j] /\ reg' = [reg EXCEPT ![job[h].node] = NoConn]
        /\ UNCHANGED <<row, conn>>
    BY <1>2 DEF EvictRemove
  <2> HIDE DEF j
  <2>3. ServerType' /\ ServedIsKnown' /\ EntryIsServed' /\ CancelledIsUnregistered'
    BY <2>n, <2>1, <2>2 DEF ServerInv, ServedIsKnown, EntryIsServed, CancelledIsUnregistered
  <2>4. CancelledWasAdded'
    BY <2>1, <2>2 DEF ServerInv, CancelledWasAdded, JobRec
  <2>5. DeletionIsServed'
    BY <2>n, <2>1, <2>2 DEF ServerInv, DeletionIsServed
  <2>6. EvictionFollowsDelete'
    <3>1. \A n \in Nodes : reg'[n] # job[h].live
      BY <2>n, <2>2 DEF ServerInv, EntryIsServed
    <3> QED BY <2>n, <2>1, <2>2, <3>1 DEF ServerInv, EvictionFollowsDelete
  <2>7. LiveIsRegistered'
    BY <2>n, <2>2 DEF ServerInv, LiveIsRegistered, Exists
  <2> QED BY <2>3, <2>4, <2>5, <2>6, <2>7 DEF ServerInv
<1>3. CASE EvictCancel(h)
  <2> DEFINE l == job[h].live
             j == [job[h] EXCEPT !.pc = "end", !.live = NoConn]
             x == [conn[l] EXCEPT !.cancelled = TRUE]
  <2>n. /\ job[h].pc = "cancel" /\ job[h].node \in Nodes /\ l \in Conns
        /\ \A n \in Nodes : reg[n] # l
        /\ conn[l].srv \notin {"challenge", "authed", "greeted"}
    BY <1>3 DEF EvictCancel, ServerInv, EvictionFollowsDelete, CancelledWasAdded
  <2>1. j \in JobRec /\ j.node = job[h].node /\ j.live = NoConn /\ j.pc = "end"
    BY <1>j DEF JobRec
  <2>2. x \in ConnRec /\ x.srv = conn[l].srv /\ x.node = conn[l].node /\ x.cancelled = TRUE
    BY <2>n, CancelType
  <2>3. /\ Over(x) \in ConnRec /\ Over(x).srv = conn[l].srv
        /\ conn[l].srv # "done" => Over(x).node = conn[l].node /\ Over(x).cancelled = TRUE
    <3> HIDE DEF x, l
    <3> QED BY <2>2, OverKeeps
  <2>4. /\ job' = [job EXCEPT ![h] = j] /\ conn' = [conn EXCEPT ![l] = Over(x)]
        /\ UNCHANGED <<row, reg>>
    BY <1>3 DEF EvictCancel
  <2> HIDE DEF j, x, l
  <2>5. ServerType' /\ ServedIsKnown'
    BY <2>n, <2>1, <2>3, <2>4 DEF ServerInv, ServedIsKnown
  <2>6. EntryIsServed' /\ CancelledIsUnregistered'
    BY <2>n, <2>3, <2>4 DEF ServerInv, EntryIsServed, CancelledIsUnregistered
  <2>7. CancelledWasAdded'
    BY <2>n, <2>1, <2>3, <2>4 DEF ServerInv, CancelledWasAdded, JobRec
  <2>8. DeletionIsServed'
    BY <2>n, <2>1, <2>3, <2>4 DEF ServerInv, DeletionIsServed
  <2>9. EvictionFollowsDelete'
    BY <2>n, <2>1, <2>3, <2>4 DEF ServerInv, EvictionFollowsDelete
  <2>10. LiveIsRegistered'
    BY <2>n, <2>3, <2>4 DEF ServerInv, LiveIsRegistered, Exists
  <2> QED BY <2>5, <2>6, <2>7, <2>8, <2>9, <2>10 DEF ServerInv
<1> QED BY <1>1, <1>2, <1>3 DEF Evict

\* What administrators do, and the row that a registration makes.
LEMMA AdminKeeps ==
    ASSUME ServerType, ServerInv,
           \/ AdminDeleted
           \/ \E n \in Nodes : RegisterPost(n) \/ AdminDelete(n) \/ NodeDisable(n) \/ NodeEnable(n)
    PROVE  ServerType' /\ ServerInv'
<1> USE DEF ServerType
<1>a. "admin" \in Holders
  BY DEF Holders
<1>1. CASE \E n \in Nodes : RegisterPost(n) \/ NodeDisable(n) \/ NodeEnable(n)
  <2>1. PICK n \in Nodes : RegisterPost(n) \/ NodeDisable(n) \/ NodeEnable(n)
    BY <1>1
  <2>2. UNCHANGED <<reg, conn, job>>
    BY <2>1 DEF RegisterPost, NodeDisable, NodeEnable
  <2>3. RowStep /\ row' \in [Nodes -> Status]
    <3>1. CASE RegisterPost(n)
      BY <3>1 DEF RegisterPost, RowStep, Status, Exists
    <3>2. CASE NodeDisable(n) \/ NodeEnable(n)
      BY <3>2, SetStatusIsRowStep DEF NodeDisable, NodeEnable
    <3> QED BY <2>1, <3>1, <3>2
  <2> QED BY <2>2, <2>3, RowKeeps
<1>2. CASE \E n \in Nodes : AdminDelete(n)
  <2>1. PICK n \in Nodes : AdminDelete(n)
    BY <1>2
  <2> DEFINE j == [pc |-> "get", node |-> n, live |-> NoConn]
  <2>2. RowStep /\ row' \in [Nodes -> Status] /\ row'[n] = "deleted"
    BY <2>1, DeleteIsRowStep DEF AdminDelete, Exists
  <2>3. j \in JobRec /\ j.pc = "get" /\ j.node = n /\ j.live = NoConn
    BY DEF JobRec
  <2>4. job' = [job EXCEPT !["admin"] = j] /\ UNCHANGED <<reg, conn>>
    BY <2>1 DEF AdminDelete
  <2> HIDE DEF j
  <2>5. ServerType' /\ ServedIsKnown'
    BY <1>a, <2>2, <2>3, <2>4 DEF ServerInv, ServedIsKnown, RowStep
  <2>6. EntryIsServed' /\ CancelledIsUnregistered' /\ DeletionIsServed'
    BY <2>4 DEF ServerInv, EntryIsServed, CancelledIsUnregistered, DeletionIsServed, Holders
  <2>7. CancelledWasAdded'
    BY <1>a, <2>3, <2>4 DEF ServerInv, CancelledWasAdded, JobRec
  <2>8. EvictionFollowsDelete'
    BY <1>a, <2>2, <2>3, <2>4 DEF ServerInv, EvictionFollowsDelete, RowStep
  <2>9. LiveIsRegistered'
    BY <2>2, <2>4 DEF ServerInv, LiveIsRegistered, ServedIsKnown, Exists, RowStep, Status
  <2> QED BY <2>5, <2>6, <2>7, <2>8, <2>9 DEF ServerInv
<1>3. CASE AdminDeleted
  <2>1. NoJob \in JobRec /\ NoJob.pc = "none" /\ NoJob.live = NoConn
    BY DEF NoJob, JobRec
  <2>2. job' = [job EXCEPT !["admin"] = NoJob] /\ UNCHANGED <<row, reg, conn>>
    BY <1>3 DEF AdminDeleted
  <2>3. ServerType' /\ ServedIsKnown' /\ EntryIsServed' /\ CancelledIsUnregistered'
    BY <2>1, <2>2 DEF ServerInv, ServedIsKnown, EntryIsServed, CancelledIsUnregistered
  <2>4. CancelledWasAdded'
    BY <1>a, <2>1, <2>2 DEF ServerInv, CancelledWasAdded, JobRec
  <2>5. DeletionIsServed'
    BY <2>2 DEF ServerInv, DeletionIsServed, Holders
  <2>6. EvictionFollowsDelete'
    BY <1>a, <2>1, <2>2 DEF ServerInv, EvictionFollowsDelete
  <2>7. LiveIsRegistered'
    BY <2>2 DEF ServerInv, LiveIsRegistered, Exists
  <2> QED BY <2>3, <2>4, <2>5, <2>6, <2>7 DEF ServerInv
<1> QED BY <1>1, <1>2, <1>3

-----------------------------------------------------------------------------
(* The agent. *)

LEMMA HangupType ==
    ASSUME ServerType, NEW c \in Conns
    PROVE  /\ Hangup(c) \in [Conns -> ConnRec]
           /\ Hangup(c)[c].srv = conn[c].srv
           /\ conn[c].srv # "done" =>
                 Hangup(c)[c].node = conn[c].node /\ Hangup(c)[c].cancelled = conn[c].cancelled
           /\ \A d \in Conns \ {c} : Hangup(c)[d] = conn[d]
<1> USE DEF ServerType
<1>c. conn[c] \in ConnRec
  OBVIOUS
<1> DEFINE x == [conn[c] EXCEPT !.cli = "closed", !.link = "closed"]
<1>1. x \in ConnRec /\ x.srv = conn[c].srv /\ x.node = conn[c].node
      /\ x.cancelled = conn[c].cancelled
  BY <1>c DEF ConnRec
<1>2. Hangup(c) = [conn EXCEPT ![c] = Over(x)]
  BY DEF Hangup
<1> HIDE DEF x
<1>3. Over(x) \in ConnRec /\ Over(x).srv = conn[c].srv
      /\ (conn[c].srv # "done" =>
             Over(x).node = conn[c].node /\ Over(x).cancelled = conn[c].cancelled)
  BY <1>1, OverKeeps
<1> QED BY <1>2, <1>3

\* What the client does to a connection leaves the server's end where it is.
LEMMA ClientIsBystander ==
    ASSUME ServerType, NEW c \in Conns,
           \/ Ready(c) \/ ConnDead(c) \/ SendNodeDelete(c) \/ DeleteConfirmed(c)
           \/ DeleteFails(c) \/ LinkLost(c)
    PROVE  Bystander
<1> USE DEF ServerType
<1>c. conn[c] \in ConnRec
  OBVIOUS
<1>u. UNCHANGED <<row, reg, job>>
  BY DEF Ready, ConnDead, SendNodeDelete, DeleteConfirmed, DeleteFails, LinkLost
<1>1. CASE conn' = Hangup(c)
  BY <1>u, <1>1, HangupType DEF Bystander
<1>2. ASSUME NEW x \in ConnRec, conn' = [conn EXCEPT ![c] = x],
             x.srv = conn[c].srv, x.node = conn[c].node, x.cancelled = conn[c].cancelled
      PROVE  Bystander
  BY <1>u, <1>2 DEF Bystander
<1>3. CASE Ready(c)
  <2> DEFINE x == [conn[c] EXCEPT !.cli = "ready", !.frames = conn[c].frames \ {"ack"}]
  <2>1. x \in ConnRec /\ x.srv = conn[c].srv /\ x.node = conn[c].node
        /\ x.cancelled = conn[c].cancelled
    BY <1>c DEF ConnRec
  <2>2. conn' = [conn EXCEPT ![c] = x]
    BY <1>3 DEF Ready
  <2> QED BY <1>2, <2>1, <2>2
<1>4. CASE SendNodeDelete(c)
  <2> DEFINE x == [conn[c] EXCEPT !.cli = "sent", !.frames = conn[c].frames \ {"ack"},
                                  !.asked = (conn[c].link = "up")]
  <2>1. x \in ConnRec /\ x.srv = conn[c].srv /\ x.node = conn[c].node
        /\ x.cancelled = conn[c].cancelled
    BY <1>c DEF ConnRec
  <2>2. conn' = [conn EXCEPT ![c] = x]
    BY <1>4 DEF SendNodeDelete
  <2> QED BY <1>2, <2>1, <2>2
<1>5. CASE LinkLost(c)
  <2> DEFINE x == [conn[c] EXCEPT !.link = "lost"]
  <2>1. x \in ConnRec /\ x.srv = conn[c].srv /\ x.node = conn[c].node
        /\ x.cancelled = conn[c].cancelled
    BY <1>c DEF ConnRec
  <2>2. conn' = [conn EXCEPT ![c] = x]
    BY <1>5 DEF LinkLost
  <2> QED BY <1>2, <2>1, <2>2
<1> QED BY <1>1, <1>3, <1>4, <1>5 DEF ConnDead, DeleteConfirmed, DeleteFails

\* A run loop that starts over, or an agent that restarts, hangs up.
LEMMA HangupsAreBystanders ==
    ASSUME ServerType, CycleInterrupted \/ AgentRestarts
    PROVE  Bystander
<1>1. \A c \in Conns : conn'[c] = conn[c] \/ conn'[c] = Hangup(c)[c]
  BY DEF CycleInterrupted, AgentRestarts
<1>2. conn' \in [Conns -> ConnRec]
  <2>1. \A c \in Conns : conn'[c] \in ConnRec
    BY <1>1, HangupType DEF ServerType
  <2> QED BY <2>1 DEF CycleInterrupted, AgentRestarts
<1>3. UNCHANGED <<row, reg, job>>
  BY DEF CycleInterrupted, AgentRestarts
<1> QED BY <1>1, <1>2, <1>3, HangupType DEF Bystander

\* A new connection takes a slot that nothing refers to.
LEMMA DialKeeps ==
    ASSUME ServerType, ServerInv, AgentType, BoundHasIdentity,
           NEW c \in Conns, Dial(c) \/ Deregister(c)
    PROVE  ServerType' /\ ServerInv'
<1> USE DEF ServerType
<1>1. PICK n \in Nodes, role \in {"resident", "delete"} : conn' = [conn EXCEPT ![c] = Dialed(role, n)]
  BY DEF Dial, Deregister, AgentType, BoundHasIdentity
<1> DEFINE x == Dialed(role, n)
<1>2. x \in ConnRec /\ x.srv = "challenge" /\ x.node = n /\ x.cancelled = FALSE
  BY DEF Dialed, Closed, ConnRec
<1>3. conn' = [conn EXCEPT ![c] = x] /\ UNCHANGED <<row, reg, job>>
  BY <1>1 DEF Dial, Deregister
<1>f. conn[c].srv = "done" /\ \A h \in Holders : job[h].live # c
  BY ClosedType DEF Dial, Deregister, Free
<1> HIDE DEF x
<1>4. ServerType' /\ ServedIsKnown'
  BY <1>2, <1>3 DEF ServerInv, ServedIsKnown
<1>5. EntryIsServed' /\ CancelledIsUnregistered'
  BY <1>2, <1>3, <1>f DEF ServerInv, EntryIsServed, CancelledIsUnregistered
<1>6. CancelledWasAdded'
  BY <1>2, <1>3, <1>f DEF ServerInv, CancelledWasAdded, JobRec
<1>7. DeletionIsServed'
  BY <1>2, <1>3, <1>f DEF ServerInv, DeletionIsServed
<1>8. EvictionFollowsDelete'
  BY <1>2, <1>3, <1>f DEF ServerInv, EvictionFollowsDelete
<1>9. LiveIsRegistered'
  BY <1>2, <1>3, <1>f DEF ServerInv, LiveIsRegistered, Exists
<1> QED BY <1>4, <1>5, <1>6, <1>7, <1>8, <1>9 DEF ServerInv

\* A restart of the server forgets everything but the rows.
LEMMA RestartKeeps ==
    ASSUME ServerType, ServerInv, ServerRestarts
    PROVE  ServerType' /\ ServerInv'
<1> USE DEF ServerType
<1>1. /\ \A c \in Conns : conn'[c] = Over([conn[c] EXCEPT !.srv = "done", !.link = "closed"])
      /\ conn' = [c \in Conns |-> conn'[c]]
      /\ reg' = [n \in Nodes |-> NoConn] /\ job' = [h \in Holders |-> NoJob] /\ row' = row
  BY DEF ServerRestarts
<1>2. ASSUME NEW c \in Conns PROVE conn'[c] \in ConnRec /\ conn'[c].srv = "done"
  <2> DEFINE x == [conn[c] EXCEPT !.srv = "done", !.link = "closed"]
  <2>1. conn[c] \in ConnRec
    OBVIOUS
  <2>2. x \in ConnRec /\ x.srv = "done"
    BY <2>1 DEF ConnRec
  <2> HIDE DEF x
  <2>3. Over(x) \in ConnRec /\ Over(x).srv = "done"
    BY <2>2, OverKeeps
  <2> QED BY <1>1, <2>3 DEF x
<1>j. NoJob \in JobRec /\ NoJob.pc = "none" /\ NoJob.live = NoConn
  BY DEF NoJob, JobRec
<1>3. ServerType'
  BY <1>1, <1>2, <1>j
<1>4. ServedIsKnown' /\ EntryIsServed' /\ CancelledIsUnregistered' /\ LiveIsRegistered'
  BY <1>1, <1>2 DEF ServedIsKnown, EntryIsServed, CancelledIsUnregistered, LiveIsRegistered
<1>5. CancelledWasAdded'
  BY <1>1, <1>2, <1>j DEF CancelledWasAdded
<1>6. DeletionIsServed' /\ EvictionFollowsDelete'
  BY <1>1, <1>j DEF DeletionIsServed, EvictionFollowsDelete, Holders
<1> QED BY <1>3, <1>4, <1>5, <1>6 DEF ServerInv

\* The agent's half: a step of anybody else leaves it alone.
LEMMA NextAgent == TypeOK /\ BoundHasIdentity /\ [Next]_vars => AgentType' /\ BoundHasIdentity'
<1> SUFFICES ASSUME AgentType, BoundHasIdentity, [Next]_vars PROVE AgentType' /\ BoundHasIdentity'
  BY TypeSplit
<1> USE DEF AgentType, BoundHasIdentity
<1>1. CASE UNCHANGED <<agent, ctl, faults>>
  BY <1>1
<1>2. ASSUME Fault \/ UNCHANGED faults, UNCHANGED <<agent, ctl>> PROVE AgentType' /\ BoundHasIdentity'
  BY <1>2 DEF Fault
<1>3. ASSUME NEW c \in Conns, ServerStep(c) PROVE AgentType' /\ BoundHasIdentity'
  BY <1>3 DEF ServerStep, Authenticate, HandshakeFails, Hello, Add, HelloAck, LoopEnds, WriteOffline,
              NodeDelete, DeleteRow, DeleteRowFails, DeleteCloses
<1>4. ASSUME NEW h \in Holders, Evict(h) PROVE UNCHANGED <<agent, ctl, faults>>
  BY <1>4 DEF Evict, EvictGet, EvictRemove, EvictCancel
<1>5. ASSUME NEW c \in Conns, Dial(c) \/ Ready(c) \/ ConnDead(c) \/ SendNodeDelete(c)
      PROVE UNCHANGED <<agent, ctl, faults>>
  BY <1>5 DEF Dial, Ready, ConnDead, SendNodeDelete
<1>6. ASSUME NEW c \in Conns, DeleteConfirmed(c) \/ DeleteFails(c) \/ Deregister(c)
      PROVE AgentType' /\ BoundHasIdentity'
  BY <1>6 DEF DeleteConfirmed, DeleteFails, Deregister, NoOp
<1>7. ASSUME NEW c \in Conns, LinkLost(c) PROVE AgentType' /\ BoundHasIdentity'
  BY <1>2, <1>7 DEF LinkLost
<1>8. ASSUME NEW n \in Nodes, RegisterPost(n) PROVE AgentType' /\ BoundHasIdentity'
  BY <1>8 DEF RegisterPost, NoOp
<1>9. ASSUME NEW n \in Nodes, AdminDelete(n) \/ NodeDisable(n) \/ NodeEnable(n)
      PROVE UNCHANGED <<agent, ctl, faults>>
  BY <1>9 DEF AdminDelete, NodeDisable, NodeEnable
<1>10. CASE Upgrade \/ AdminDeleted
  BY <1>10 DEF Upgrade, AdminDeleted, NoOp
<1>11. CASE CtlStep
  <2>1. CASE RegisterIdentity
    BY <2>1 DEF RegisterIdentity, AgentRec
  <2>2. CASE RegisterBinding
    BY <2>2 DEF RegisterBinding, NoOp, AgentRec
  <2>3. CASE RemoveBinding
    BY <2>3 DEF RemoveBinding, NoOp, AgentRec
  <2>4. CASE NotifyRebind
    BY <2>4 DEF NotifyRebind, NoOp, AgentRec
  <2> QED BY <1>11, <2>1, <2>2, <2>3, <2>4 DEF CtlStep
<1>12. CASE RunStep
  <2>s. ASSUME NEW a \in AgentRec, a.identity \in Nodes
        PROVE  /\ StartCycle(a) \in AgentRec /\ StartCycle(a).cycle \in Nodes
               /\ StartCycle(a).identity = a.identity /\ StartCycle(a).binding = a.binding
    BY <2>s DEF StartCycle, AgentRec
  <2>1. CASE AwaitBinding
    <3>1. CASE agent.binding # NoNode
      BY <2>1, <2>s, <3>1 DEF AwaitBinding
    <3>2. CASE agent.binding = NoNode /\ ServerFlag /\ agent.identity # NoNode
      <4> DEFINE a == [agent EXCEPT !.binding = agent.identity]
      <4>1. a \in AgentRec /\ a.identity = agent.identity /\ a.identity \in Nodes
        BY <3>2 DEF AgentRec
      <4> HIDE DEF a
      <4>2. agent' = StartCycle(a) /\ UNCHANGED <<ctl, faults>>
        BY <2>1, <3>2 DEF AwaitBinding, a
      <4> QED BY <2>s, <4>1, <4>2
    <3>3. CASE agent.binding = NoNode /\ ~(ServerFlag /\ agent.identity # NoNode)
      BY <2>1, <3>3 DEF AwaitBinding, AgentRec
    <3> QED BY <3>1, <3>2, <3>3
  <2>2. CASE IdleWakes
    <3>1. PICK woken \in BOOLEAN :
             LET a == IF woken THEN [agent EXCEPT !.rebind = FALSE] ELSE agent
             IN  agent' = IF agent.binding # NoNode THEN StartCycle(a) ELSE a
      BY <2>2 DEF IdleWakes
    <3> DEFINE a == IF woken THEN [agent EXCEPT !.rebind = FALSE] ELSE agent
    <3>2. a \in AgentRec /\ a.identity = agent.identity /\ a.binding = agent.binding
          /\ a.run = agent.run
      BY DEF AgentRec
    <3>3. agent.run = "idle" /\ UNCHANGED <<ctl, faults>>
      BY <2>2 DEF IdleWakes
    <3> HIDE DEF a
    <3> QED BY <2>s, <3>1, <3>2, <3>3 DEF a
  <2>3. CASE CycleInterrupted
    BY <2>3 DEF CycleInterrupted, AgentRec
  <2> QED BY <1>12, <2>1, <2>2, <2>3 DEF RunStep
<1>13. CASE ServerRestarts
  BY <1>2, <1>13 DEF ServerRestarts
<1>14. CASE AgentRestarts
  <2>1. agent' \in AgentRec /\ agent'.binding = agent.binding /\ agent'.identity = agent.identity
        /\ agent'.run = "await"
    BY <1>14 DEF AgentRestarts, AgentRec
  <2> QED BY <1>14, <2>1 DEF AgentRestarts, Fault, NoOp
<1> QED BY <1>1, <1>3, <1>4, <1>5, <1>6, <1>7, <1>8, <1>9, <1>10, <1>11, <1>12, <1>13, <1>14
        DEF Next, ClientStep, vars

-----------------------------------------------------------------------------
(* The inductive invariant and what follows. *)

LEMMA InitNode == Init => NodeInv
<1> SUFFICES ASSUME Init PROVE NodeInv
  OBVIOUS
<1>1. TypeOK
  BY DEF Init, TypeOK, Closed, NoJob, NoOp
<1>2. ServedIsKnown /\ EntryIsServed /\ LiveIsRegistered /\ CancelledIsUnregistered
  BY ClosedType DEF Init, ServedIsKnown, EntryIsServed, LiveIsRegistered, CancelledIsUnregistered
<1>3. CancelledWasAdded /\ DeletionIsServed /\ EvictionFollowsDelete
  BY ClosedType DEF Init, CancelledWasAdded, DeletionIsServed, EvictionFollowsDelete, NoJob, Holders
<1>4. BoundHasIdentity
  BY DEF Init, BoundHasIdentity, NoOp
<1> QED BY <1>1, <1>2, <1>3, <1>4 DEF NodeInv

LEMMA NextNode == NodeInv /\ [Next]_vars => NodeInv'
<1> SUFFICES ASSUME NodeInv, [Next]_vars PROVE ServerType' /\ ServerInv'
  BY NextAgent, TypeSplit DEF NodeInv, ServerInv
<1>1. ServerType /\ ServerInv /\ AgentType /\ BoundHasIdentity
  BY TypeSplit DEF NodeInv, ServerInv
<1>2. ASSUME NEW c \in Conns, ServerStep(c) \/ ClientStep(c) \/ Deregister(c) \/ LinkLost(c)
      PROVE  ServerType' /\ ServerInv'
  BY <1>1, <1>2, ServerStepKeeps, ClientIsBystander, BystanderKeeps, DialKeeps DEF ClientStep
<1>3. ASSUME NEW h \in Holders, Evict(h) PROVE ServerType' /\ ServerInv'
  BY <1>1, <1>3, EvictKeeps
<1>4. ASSUME NEW n \in Nodes, RegisterPost(n) \/ AdminDelete(n) \/ NodeDisable(n) \/ NodeEnable(n)
      PROVE  ServerType' /\ ServerInv'
  BY <1>1, <1>4, AdminKeeps
<1>5. CASE AdminDeleted
  BY <1>1, <1>5, AdminKeeps
<1>6. CASE CycleInterrupted \/ AgentRestarts
  BY <1>1, <1>6, HangupsAreBystanders, BystanderKeeps
<1>7. CASE Upgrade \/ CtlStep \/ AwaitBinding \/ IdleWakes \/ UNCHANGED vars
  <2>1. UNCHANGED <<row, reg, conn, job>>
    BY <1>7 DEF Upgrade, CtlStep, RegisterIdentity, RegisterBinding, RemoveBinding, NotifyRebind,
                AwaitBinding, IdleWakes, vars
  <2>2. Bystander
    BY <1>1, <2>1 DEF Bystander, ServerType
  <2> QED BY <1>1, <2>2, BystanderKeeps
<1>8. CASE ServerRestarts
  BY <1>1, <1>8, RestartKeeps
<1> QED BY <1>2, <1>3, <1>4, <1>5, <1>6, <1>7, <1>8 DEF Next, RunStep

LEMMA NodeInvariant == Spec => []NodeInv
BY InitNode, NextNode, PTL DEF Spec

\* Every variable keeps its type; in particular a cycle of the run loop always
\* has an identity to connect with, as Register writes it before the binding.
THEOREM NodeTypeCorrect == Spec => []TypeOK
<1>1. NodeInv => TypeOK
  BY DEF NodeInv
<1> QED BY <1>1, NodeInvariant, PTL

\* However connections of a node overlap, are superseded, evicted, lost or cut
\* off by restarts, the one that is served is the one in the registry.
THEOREM LiveConnectionRegistered == Spec => []LiveIsRegistered
<1>1. NodeInv => LiveIsRegistered
  BY DEF NodeInv
<1> QED BY <1>1, NodeInvariant, PTL

\* The registry never offers a connection that was cancelled: not to a session,
\* and not to a deletion whose Get, Remove and Cancel others interleave.
THEOREM NoCancelledEntry == Spec => []CancelledIsUnregistered
<1>1. NodeInv => CancelledIsUnregistered
  BY DEF NodeInv
<1> QED BY <1>1, NodeInvariant, PTL
=============================================================================
