---------------------------- MODULE ApartProofs ----------------------------
(***************************************************************************)
(* TLAPS proofs about two of the parts that have no state in common.       *)
(*                                                                         *)
(* Tenancy: the references of the tables hold, a machine is a node once, a *)
(* token lets in what it was made for, and administrators, owners and      *)
(* nodes of deleted clusters are lost and found only by the races that the *)
(* properties name.  File transfers: an upload takes place as a whole or   *)
(* not at all, and a download that reports success is of a whole file.     *)
(***************************************************************************)
EXTENDS Tenancy, FileTransfer, FiniteSetTheorems, SequenceTheorems, TLAPS

(* The columns of the tables, *)
ClusterRec == [state : {"none", "live", "deleted", "gone"}, by : User \cup {None}, race : SUBSET Request]
TokenRec == [state : {"none", "present", "gone"}, cluster : Cluster \cup {None},
             by : User \cup {None}, left : 0..MaxUses]
NodeRec == [state : {"none", "present", "gone"}, machine : Machine \cup {None},
            cluster : Cluster \cup {None}, via : Token \cup {None}]
Columns ==
    /\ account \in [User -> {"none", "user", "admin", "gone"}]
    /\ cluster \in [Cluster -> ClusterRec]
    /\ role \in [Cluster -> [User -> {"none", "member", "owner"}]]
    /\ token \in [Token -> TokenRec]
    /\ node \in [Row -> NodeRec]

(* their foreign keys, *)
References ==
    /\ \A c \in Cluster, u \in User : role[c][u] # "none" => Stored(c) /\ Exists(u)
    /\ \A c \in Cluster : Stored(c) => cluster[c].by \in User /\ Exists(cluster[c].by)
    /\ \A i \in Row : node[i].state = "present" => node[i].cluster \in Cluster /\ Stored(node[i].cluster)
    /\ \A t \in Token : token[t].state = "present" =>
          /\ token[t].cluster \in Cluster /\ Stored(token[t].cluster)
          /\ token[t].by \in User /\ Exists(token[t].by)

(* what a handler has in hand when it comes to write, *)
Wellformed(q) ==
    /\ q.op = "updateUser" => q.user \in User /\ q.want \in BOOLEAN
    /\ q.op = "deleteUser" => q.user \in User /\ q.wasAdmin \in BOOLEAN
    /\ q.op = "createCluster" => q.by \in User
    /\ q.op = "AddMembership" => q.by \in User /\ q.cluster \in Cluster
    /\ q.op = "deleteCluster" => q.cluster \in Cluster
    /\ q.op \in {"addMember", "removeMember", "updateMemberRole"} => q.cluster \in Cluster /\ q.user \in User
    /\ q.op \in {"addMember", "updateMemberRole"} => q.as \in {"member", "owner"}
    /\ q.op = "createEnrollToken" => q.by \in User /\ q.cluster \in Cluster
    /\ q.op \in {"enroll", "CreateNode"} =>
          q \in [op : {"enroll", "CreateNode"}, cluster : Cluster, machine : Machine,
                 token : Token \cup {None}]
    /\ q.op = "moveNode" => q.row \in Row /\ q.from \in Cluster /\ q.cluster \in Cluster
    /\ q.op = "adminDeleteNode" => q.row \in Row
Requests == DOMAIN request = Request /\ \A r \in Request : Wellformed(request[r])

(* that a cluster which such a handler has found live is so, or was deleted
   with the handler on record, or has gone; and a row it has found is a row, *)
InTime(r, c) == \/ cluster[c].state \in {"live", "gone"}
                \/ cluster[c].state = "deleted" /\ r \in cluster[c].race
Reads ==
    \A r \in Request :
        /\ request[r].op \in {"CreateNode", "moveNode"} => InTime(r, request[r].cluster)
        /\ request[r].op = "adminDeleteNode" => node[request[r].row].state # "none"

(* and what a token has let in, with what it may let in yet. *)
Via(t) == {i \in Row : node[i].state # "none" /\ node[i].via = t}
Uses ==
    \A t \in Token :
        /\ token[t].state = "none" => Via(t) = {} /\ token[t].left = 0
        /\ Cardinality(Via(t)) + token[t].left <= MaxUses

TenancyInv == Columns /\ References /\ Requests /\ Reads /\ OneMachine /\ Uses

-----------------------------------------------------------------------------
LEMMA TypeIs == Columns /\ References => TenancyTypeOK
BY DEF Columns, References, TenancyTypeOK, ClusterRec, TokenRec, NodeRec, Present

LEMMA NewIn == NewCluster \in Cluster /\ (Row # {} => NewRow \in Row)
<1>1. \E c \in Cluster : cluster[c].state = "none" \/ \A d \in Cluster : cluster[d].state # "none"
  BY TenancyAssumption
<1>2. ASSUME Row # {}
      PROVE  \E i \in Row : node[i].state = "none" \/ \A j \in Row : node[j].state # "none"
  BY <1>2
<1> QED BY <1>1, <1>2 DEF NewCluster, NewRow

(* A request that begins: nothing is written, and what it has read holds. *)
Ready(q) ==
    /\ Wellformed(q) /\ q.op # "CreateNode"
    /\ q.op = "moveNode" => Live(q.cluster)
    /\ q.op = "adminDeleteNode" => node[q.row].state # "none"

LEMMA AskReads ==
    ASSUME TenancyInv, NEW r \in Request, TenancyAsks(r)
    PROVE  \E q : Begin(r, q) /\ Ready(q)
<1>1. CASE AskCreateUser(r)
  <2>1. Ready([op |-> "createUser"])
    BY DEF Ready, Wellformed
  <2> QED BY <1>1, <2>1 DEF AskCreateUser
<1>2. CASE AskUpdateUser(r)
  <2>1. PICK u \in User, want \in BOOLEAN : Begin(r, [op |-> "updateUser", user |-> u, want |-> want])
    BY <1>2 DEF AskUpdateUser
  <2>2. Ready([op |-> "updateUser", user |-> u, want |-> want])
    BY DEF Ready, Wellformed
  <2> QED BY <2>1, <2>2
<1>3. CASE AskDeleteUser(r)
  <2>1. PICK u \in User : Begin(r, [op |-> "deleteUser", user |-> u, wasAdmin |-> IsAdmin(u)])
    BY <1>3 DEF AskDeleteUser
  <2>2. Ready([op |-> "deleteUser", user |-> u, wasAdmin |-> IsAdmin(u)])
    BY DEF Ready, Wellformed, IsAdmin
  <2> QED BY <2>1, <2>2
<1>4. CASE AskCreateCluster(r)
  <2>1. PICK u \in User : Begin(r, [op |-> "createCluster", by |-> u])
    BY <1>4 DEF AskCreateCluster
  <2>2. Ready([op |-> "createCluster", by |-> u])
    BY DEF Ready, Wellformed
  <2> QED BY <2>1, <2>2
<1>5. CASE AskDeleteCluster(r)
  <2>1. PICK c \in Cluster : Begin(r, [op |-> "deleteCluster", cluster |-> c])
    BY <1>5 DEF AskDeleteCluster
  <2>2. Ready([op |-> "deleteCluster", cluster |-> c])
    BY DEF Ready, Wellformed
  <2> QED BY <2>1, <2>2
<1>6. CASE AskMember(r)
  <2>1. PICK v \in User, c \in Cluster, as \in {"member", "owner"} :
           \/ Begin(r, [op |-> "addMember", cluster |-> c, user |-> v, as |-> as])
           \/ Begin(r, [op |-> "removeMember", cluster |-> c, user |-> v])
           \/ Begin(r, [op |-> "updateMemberRole", cluster |-> c, user |-> v, as |-> as])
    BY <1>6 DEF AskMember
  <2>2. /\ Ready([op |-> "addMember", cluster |-> c, user |-> v, as |-> as])
        /\ Ready([op |-> "removeMember", cluster |-> c, user |-> v])
        /\ Ready([op |-> "updateMemberRole", cluster |-> c, user |-> v, as |-> as])
    BY DEF Ready, Wellformed
  <2> QED BY <2>1, <2>2
<1>7. CASE AskCreateToken(r)
  <2>1. PICK u \in User, c \in Cluster : Begin(r, [op |-> "createEnrollToken", by |-> u, cluster |-> c])
    BY <1>7 DEF AskCreateToken
  <2>2. Ready([op |-> "createEnrollToken", by |-> u, cluster |-> c])
    BY DEF Ready, Wellformed
  <2> QED BY <2>1, <2>2
<1>8. CASE AskAgentEnroll(r) \/ AskRegisterNode(r)
  <2>1. PICK c \in Cluster, m \in Machine, t \in Token \cup {None} :
           Begin(r, [op |-> "enroll", cluster |-> c, machine |-> m, token |-> t])
    <3>1. CASE AskAgentEnroll(r)
      <4>1. PICK t \in Token, m \in Machine :
               /\ token[t].state = "present"
               /\ Begin(r, [op |-> "enroll", cluster |-> token[t].cluster, machine |-> m, token |-> t])
        BY <3>1 DEF AskAgentEnroll
      <4>2. token[t].cluster \in Cluster
        BY <4>1 DEF TenancyInv, References
      <4> QED BY <4>1, <4>2
    <3>2. CASE AskRegisterNode(r)
      BY <3>2 DEF AskRegisterNode
    <3> QED BY <1>8, <3>1, <3>2
  <2>2. Ready([op |-> "enroll", cluster |-> c, machine |-> m, token |-> t])
    BY DEF Ready, Wellformed
  <2> QED BY <2>1, <2>2
<1>9. CASE AskMoveNode(r)
  <2>1. PICK i \in Present, c \in Cluster :
           Live(c) /\ Begin(r, [op |-> "moveNode", row |-> i, from |-> node[i].cluster, cluster |-> c])
    BY <1>9 DEF AskMoveNode
  <2>2. i \in Row /\ node[i].cluster \in Cluster
    BY DEF TenancyInv, References, Present
  <2>3. Ready([op |-> "moveNode", row |-> i, from |-> node[i].cluster, cluster |-> c])
    BY <2>1, <2>2 DEF Ready, Wellformed
  <2> QED BY <2>1, <2>3
<1>10. CASE AskDeleteNode(r)
  <2>1. PICK i \in Present : Begin(r, [op |-> "adminDeleteNode", row |-> i])
    BY <1>10 DEF AskDeleteNode
  <2>2. Ready([op |-> "adminDeleteNode", row |-> i])
    BY DEF Ready, Wellformed, Present
  <2> QED BY <2>1, <2>2
<1> QED BY <1>1, <1>2, <1>3, <1>4, <1>5, <1>6, <1>7, <1>8, <1>9, <1>10 DEF TenancyAsks

(* Properties of tables that are left alone. *)
LEMMA UsesKeep ==
    ASSUME Uses, UNCHANGED node,
           \A t \in Token : /\ token'[t].left = token[t].left
                            /\ token'[t].state = "none" => token[t].state = "none"
    PROVE  Uses'
<1>1. \A t \in Token : Via(t)' = Via(t)
  BY DEF Via
<1> QED BY <1>1 DEF Uses

LEMMA NodesKeep ==
    ASSUME OneMachine, UNCHANGED node
    PROVE  OneMachine'
BY DEF OneMachine, Present

LEMMA TablesKeep ==
    ASSUME Columns, References, OneMachine, Uses, UNCHANGED tables
    PROVE  Columns' /\ References' /\ OneMachine' /\ Uses'
<1>1. UNCHANGED <<account, cluster, role, token, node>>
  BY DEF tables
<1>2. Columns'
  BY <1>1 DEF Columns
<1>3. References'
  BY <1>1 DEF References, Exists, Stored
<1> QED BY <1>1, <1>2, <1>3, UsesKeep, NodesKeep

LEMMA AskKeeps ==
    ASSUME TenancyInv, NEW r \in Request, TenancyAsks(r)
    PROVE  TenancyInv'
<1>1. PICK q : Begin(r, q) /\ Ready(q)
  BY AskReads
<1>2. UNCHANGED tables /\ request' = [request EXCEPT ![r] = q]
  BY <1>1 DEF Begin
<1>3. Columns' /\ References' /\ OneMachine' /\ Uses'
  BY <1>2, TablesKeep DEF TenancyInv
<1>4. Requests'
  BY <1>1, <1>2 DEF TenancyInv, Requests, Ready
<1>5. Reads'
  BY <1>1, <1>2 DEF TenancyInv, Requests, Reads, InTime, tables, Live, Ready
<1> QED BY <1>3, <1>4, <1>5 DEF TenancyInv

(* What the others have read holds on when a request goes on or is answered, if
   clusters are only made or removed and rows stay rows. *)
LEMMA GoesOnKeeps ==
    ASSUME Columns, Requests, Reads, NEW r \in Request, NEW q, request' = [request EXCEPT ![r] = q],
           Wellformed(q), q.op \notin {"CreateNode", "moveNode", "adminDeleteNode"},
           \A c \in Cluster : \/ cluster'[c] = cluster[c] \/ cluster[c].state = "none"
                              \/ cluster'[c].state = "gone",
           \A i \in Row : node[i].state # "none" => node'[i].state # "none"
    PROVE  Requests' /\ Reads'
<1>1. /\ DOMAIN request' = Request /\ request'[r] = q
      /\ \A s \in Request : s # r => request'[s] = request[s]
  BY DEF Requests
<1>2. Requests'
  BY <1>1 DEF Requests
<1>3. ASSUME NEW s \in Request, request'[s].op \in {"CreateNode", "moveNode"}
      PROVE  InTime(s, request[s].cluster)'
  <2>1. s # r /\ request'[s] = request[s] /\ request[s].cluster \in Cluster
        /\ InTime(s, request[s].cluster)
    BY <1>1, <1>3 DEF Requests, Reads, Wellformed
  <2> QED BY <1>3, <2>1 DEF InTime, Columns
<1>4. ASSUME NEW s \in Request, request'[s].op = "adminDeleteNode"
      PROVE  node'[request'[s].row].state # "none"
  BY <1>1, <1>4 DEF Requests, Reads, Wellformed
<1> QED BY <1>2, <1>3, <1>4 DEF Reads

LEMMA AnsweredKeeps ==
    ASSUME Columns, Requests, Reads, NEW r \in Request, request' = [request EXCEPT ![r] = Idle],
           \A c \in Cluster : \/ cluster'[c] = cluster[c] \/ cluster[c].state = "none"
                              \/ cluster'[c].state = "gone",
           \A i \in Row : node[i].state # "none" => node'[i].state # "none"
    PROVE  Requests' /\ Reads'
<1>1. Idle.op = "none" /\ Wellformed(Idle)
  BY DEF Idle, Wellformed
<1> QED BY <1>1, GoesOnKeeps

-----------------------------------------------------------------------------
(* The writes, one table after another. *)

(* An account that is made, with its cluster. *)
LEMMA CreateUserKeeps ==
    ASSUME TenancyInv, NEW r \in Request, createUser(r)
    PROVE  TenancyInv'
<1>i. Columns /\ References /\ Requests /\ Reads /\ OneMachine /\ Uses
  BY DEF TenancyInv
<1>1. PICK u \in User : /\ account[u] = "none" /\ account' = [account EXCEPT ![u] = "user"]
                        /\ EnsurePersonalCluster(u)
  BY DEF createUser
<1>2. PICK c \in Cluster : /\ cluster[c].state = "none"
                           /\ cluster' = [cluster EXCEPT ![c] = NewLive(u)]
                           /\ role' = [role EXCEPT ![c][u] = "owner"]
  BY <1>1, NewIn DEF EnsurePersonalCluster
<1>3. UNCHANGED <<token, node>> /\ request' = [request EXCEPT ![r] = Idle]
  BY DEF createUser, Answer
<1>4. NewLive(u) \in ClusterRec /\ NewLive(u).state = "live" /\ NewLive(u).by = u
  BY DEF NewLive, ClusterRec
<1>5. Columns'
  BY <1>i, <1>1, <1>2, <1>3, <1>4 DEF Columns
<1>6. /\ cluster'[c].state = "live" /\ cluster'[c].by = u
      /\ \A d \in Cluster : d # c => cluster'[d] = cluster[d]
      /\ account'[u] = "user" /\ \A v \in User : v # u => account'[v] = account[v]
      /\ \A d \in Cluster, v \in User : d # c \/ v # u => role'[d][v] = role[d][v]
  BY <1>i, <1>1, <1>2, <1>4 DEF Columns
<1>7. \A v \in User : Exists(v) => Exists(v)'
  BY <1>1, <1>6 DEF Exists
<1>8. \A d \in Cluster : Stored(d) => Stored(d)'
  BY <1>6 DEF Stored
<1>9. References'
  BY <1>i, <1>1, <1>2, <1>3, <1>6, <1>7, <1>8 DEF References, Stored, Exists
<1>10. Requests' /\ Reads'
  BY <1>i, <1>2, <1>3, <1>6, AnsweredKeeps
<1> QED BY <1>i, <1>3, <1>5, <1>9, <1>10, UsesKeep, NodesKeep DEF TenancyInv

(* The administrator's bit. *)
LEMMA UpdateUserKeeps ==
    ASSUME TenancyInv, NEW r \in Request, updateUser(r)
    PROVE  TenancyInv'
<1>i. Columns /\ References /\ Requests /\ Reads /\ OneMachine /\ Uses
  BY DEF TenancyInv
<1>1. PICK u : u = request[r].user
  OBVIOUS
<1>2. u \in User
  BY <1>i, <1>1 DEF updateUser, Answer, Requests, Wellformed
<1>3. /\ UNCHANGED account \/ (Exists(u) /\ \E b \in {"admin", "user"} : account' = [account EXCEPT ![u] = b])
      /\ UNCHANGED <<cluster, role, token, node>> /\ request' = [request EXCEPT ![r] = Idle]
  BY <1>1 DEF updateUser, Answer, UpdateUserIsAdmin
<1>4. Columns'
  BY <1>i, <1>2, <1>3 DEF Columns
<1>5. \A v \in User : Exists(v) => Exists(v)'
  BY <1>i, <1>2, <1>3 DEF Columns, Exists
<1>6. References'
  BY <1>i, <1>3, <1>5 DEF References, Stored
<1>7. Requests' /\ Reads'
  BY <1>i, <1>3, AnsweredKeeps
<1> QED BY <1>i, <1>3, <1>4, <1>6, <1>7, UsesKeep, NodesKeep DEF TenancyInv

(* A user who goes takes his clusters, their tokens and his memberships along. *)
LEMMA DeleteUserKeeps ==
    ASSUME TenancyInv, NEW r \in Request, deleteUser(r)
    PROVE  TenancyInv'
<1>i. Columns /\ References /\ Requests /\ Reads /\ OneMachine /\ Uses
  BY DEF TenancyInv
<1>1. PICK u : u = request[r].user
  OBVIOUS
<1> DEFINE owned == {c \in Cluster : Stored(c) /\ cluster[c].by = u}
<1>2. u \in User /\ UNCHANGED node /\ request' = [request EXCEPT ![r] = Idle]
  BY <1>i, <1>1 DEF deleteUser, Answer, Requests, Wellformed
<1>3. CASE UNCHANGED <<account, cluster, role, token>>
  <2>1. Requests' /\ Reads'
    BY <1>i, <1>2, <1>3, AnsweredKeeps
  <2> QED BY <1>i, <1>2, <1>3, <2>1, TablesKeep DEF TenancyInv, tables
<1>4. CASE ~UNCHANGED <<account, cluster, role, token>>
  <2>1. /\ MayDelete(u, request[r].wasAdmin, owned)
        /\ account' = [account EXCEPT ![u] = "gone"]
        /\ cluster' = [c \in Cluster |-> IF c \in owned THEN [cluster[c] EXCEPT !.state = "gone"]
                                                        ELSE cluster[c]]
        /\ role' = [c \in Cluster |-> [v \in User |->
                       IF c \in owned \/ v = u THEN "none" ELSE role[c][v]]]
        /\ token' = [t \in Token |-> IF token[t].cluster \in owned
                                     THEN [token[t] EXCEPT !.state = "gone"] ELSE token[t]]
    BY <1>1, <1>4 DEF deleteUser
  <2>2. /\ \A c \in owned : c \in Cluster /\ NodesIn(c) = {}
        /\ \A t \in Token : token[t].state = "present" /\ token[t].by = u => token[t].cluster \in owned
        /\ \A c \in Cluster : c \notin owned => ~Stored(c) \/ cluster[c].by # u
    BY <2>1 DEF MayDelete
  <2> HIDE DEF owned
  <2>3. \A c \in Cluster : /\ cluster'[c] \in ClusterRec
                           /\ c \in owned => cluster'[c].state = "gone"
                           /\ c \notin owned => cluster'[c] = cluster[c]
    BY <1>i, <2>1 DEF Columns, ClusterRec
  <2>4. \A t \in Token : /\ token'[t] \in TokenRec /\ token'[t].left = token[t].left
                         /\ token[t].cluster \in owned => token'[t].state = "gone"
                         /\ token[t].cluster \notin owned => token'[t] = token[t]
    BY <1>i, <2>1 DEF Columns, TokenRec
  <2>5. \A c \in Cluster, v \in User : role'[c][v] = IF c \in owned \/ v = u THEN "none" ELSE role[c][v]
    BY <2>1
  <2>6. Columns'
    <3>1. account' \in [User -> {"none", "user", "admin", "gone"}] /\ UNCHANGED node
      BY <1>i, <1>2, <2>1 DEF Columns
    <3>2. cluster' \in [Cluster -> ClusterRec] /\ token' \in [Token -> TokenRec]
      BY <2>1, <2>3, <2>4
    <3>3. role' \in [Cluster -> [User -> {"none", "member", "owner"}]]
      BY <1>i, <2>1 DEF Columns
    <3> QED BY <1>i, <3>1, <3>2, <3>3 DEF Columns
  <2>7. /\ \A v \in User : v # u /\ Exists(v) => Exists(v)'
        /\ \A c \in Cluster : c \notin owned /\ Stored(c) => Stored(c)'
        /\ \A c \in owned : ~Stored(c)'
    BY <1>i, <1>2, <2>1, <2>2, <2>3 DEF Columns, Exists, Stored
  <2>8. References'
    <3>1. \A c \in Cluster, v \in User : role'[c][v] # "none" => Stored(c)' /\ Exists(v)'
      BY <1>i, <2>5, <2>7 DEF References
    <3>2. ASSUME NEW c \in Cluster, Stored(c)' PROVE cluster'[c].by \in User /\ Exists(cluster[c].by)'
      <4>1. c \notin owned /\ cluster'[c] = cluster[c]
        BY <2>3, <2>7, <3>2
      <4>2. Stored(c) /\ cluster[c].by # u
        BY <2>2, <3>2, <4>1 DEF Stored
      <4>3. cluster[c].by \in User /\ Exists(cluster[c].by)
        BY <1>i, <4>2 DEF References
      <4> QED BY <2>7, <4>1, <4>2, <4>3 DEF Exists
    <3>3. ASSUME NEW i \in Row, node'[i].state = "present"
          PROVE  node'[i].cluster \in Cluster /\ Stored(node[i].cluster)'
      <4>1. node' = node /\ node[i].cluster \in Cluster /\ Stored(node[i].cluster) /\ i \in NodesIn(node[i].cluster)
        BY <1>i, <1>2, <3>3 DEF References, NodesIn, Present
      <4>2. node[i].cluster \notin owned
        BY <2>2, <4>1
      <4> QED BY <2>7, <4>1, <4>2 DEF Stored
    <3>4. ASSUME NEW t \in Token, token'[t].state = "present"
          PROVE  /\ token'[t].cluster \in Cluster /\ Stored(token[t].cluster)'
                 /\ token'[t].by \in User /\ Exists(token[t].by)'
      <4>1. token[t].cluster \notin owned /\ token'[t] = token[t]
        BY <2>4, <3>4
      <4>2. token[t].by # u
        BY <2>2, <3>4, <4>1
      <4>3. /\ token[t].cluster \in Cluster /\ Stored(token[t].cluster)
            /\ token[t].by \in User /\ Exists(token[t].by)
        BY <1>i, <3>4, <4>1 DEF References
      <4> QED BY <2>7, <4>1, <4>2, <4>3 DEF Stored, Exists
    <3> QED BY <3>1, <3>2, <3>3, <3>4 DEF References
  <2>9. Requests' /\ Reads'
    BY <1>i, <1>2, <2>3, AnsweredKeeps
  <2>10. Uses'
    <3>1. \A t \in Token : /\ token'[t].left = token[t].left
                           /\ token'[t].state = "none" => token[t].state = "none"
      BY <2>4
    <3> QED BY <1>i, <1>2, <3>1, UsesKeep
  <2> QED BY <1>i, <1>2, <2>6, <2>8, <2>9, <2>10, NodesKeep DEF TenancyInv
<1> QED BY <1>3, <1>4

(* A cluster that is made, without its owner yet. *)
LEMMA CreateClusterKeeps ==
    ASSUME TenancyInv, NEW r \in Request, createCluster(r)
    PROVE  TenancyInv'
<1>i. Columns /\ References /\ Requests /\ Reads /\ OneMachine /\ Uses
  BY DEF TenancyInv
<1>1. PICK u : u = request[r].by
  OBVIOUS
<1>2. u \in User /\ Exists(u) /\ UNCHANGED <<account, role, token, node>>
  BY <1>i, <1>1 DEF createCluster, Requests, Wellformed
<1>3. PICK c \in Cluster : /\ cluster[c].state = "none"
                           /\ cluster' = [cluster EXCEPT ![c] = NewLive(u)]
                           /\ request' = [request EXCEPT ![r] = [op |-> "AddMembership", by |-> u,
                                                                 cluster |-> c]]
  BY <1>1, NewIn DEF createCluster
<1>4. NewLive(u) \in ClusterRec /\ NewLive(u).state = "live" /\ NewLive(u).by = u
  BY <1>2 DEF NewLive, ClusterRec
<1>5. Columns'
  BY <1>i, <1>2, <1>3, <1>4 DEF Columns
<1>6. /\ cluster'[c].state = "live" /\ cluster'[c].by = u
      /\ \A d \in Cluster : d # c => cluster'[d] = cluster[d]
      /\ \A d \in Cluster : Stored(d) => Stored(d)'
  BY <1>i, <1>3, <1>4 DEF Columns, Stored
<1>7. References'
  BY <1>i, <1>2, <1>6 DEF References, Exists, Stored
<1>8. Requests' /\ Reads'
  <2> DEFINE q == [op |-> "AddMembership", by |-> u, cluster |-> c]
  <2>1. Wellformed(q) /\ q.op \notin {"CreateNode", "moveNode", "adminDeleteNode"}
    BY <1>2 DEF Wellformed
  <2>2. request' = [request EXCEPT ![r] = q]
    BY <1>3
  <2> HIDE DEF q
  <2> QED BY <1>i, <1>2, <1>3, <1>6, <2>1, <2>2, GoesOnKeeps
<1> QED BY <1>i, <1>2, <1>5, <1>7, <1>8, UsesKeep, NodesKeep DEF TenancyInv

(* A membership is made, changed or taken away. *)
LEMMA RoleKeeps ==
    ASSUME TenancyInv, NEW r \in Request, NEW c \in Cluster, NEW v \in User,
           NEW as \in {"none", "member", "owner"},
           request' = [request EXCEPT ![r] = Idle], UNCHANGED <<account, cluster, token, node>>,
           UNCHANGED role \/ (Stored(c) /\ Exists(v) /\ role' = [role EXCEPT ![c][v] = as])
    PROVE  TenancyInv'
<1>i. Columns /\ References /\ Requests /\ Reads /\ OneMachine /\ Uses
  BY DEF TenancyInv
<1>1. /\ role' \in [Cluster -> [User -> {"none", "member", "owner"}]]
      /\ \A d \in Cluster, w \in User : role'[d][w] = role[d][w] \/ (Stored(d) /\ Exists(w))
  <2>1. role \in [Cluster -> [User -> {"none", "member", "owner"}]]
    BY <1>i DEF Columns
  <2>2. CASE UNCHANGED role
    BY <2>1, <2>2
  <2>3. CASE Stored(c) /\ Exists(v) /\ role' = [role EXCEPT ![c][v] = as]
    <3>1. /\ role[c] \in [User -> {"none", "member", "owner"}]
          /\ [role[c] EXCEPT ![v] = as] \in [User -> {"none", "member", "owner"}]
      BY <2>1
    <3>2. role' = [role EXCEPT ![c] = [role[c] EXCEPT ![v] = as]]
      BY <2>3
    <3>3. role' \in [Cluster -> [User -> {"none", "member", "owner"}]]
      BY <2>1, <3>1, <3>2
    <3>4. ASSUME NEW d \in Cluster, NEW w \in User, role'[d][w] # role[d][w] PROVE d = c /\ w = v
      BY <2>1, <3>1, <3>2, <3>4
    <3> QED BY <2>3, <3>3, <3>4
  <2> QED BY <2>2, <2>3
<1>2. Columns'
  BY <1>i, <1>1 DEF Columns
<1>3. References'
  BY <1>i, <1>1 DEF References, Stored, Exists
<1>4. Requests' /\ Reads'
  BY <1>i, AnsweredKeeps
<1> QED BY <1>i, <1>2, <1>3, <1>4, UsesKeep, NodesKeep DEF TenancyInv

LEMMA MembersKeep ==
    ASSUME TenancyInv, NEW r \in Request,
           AddMembership(r) \/ addMember(r) \/ removeMember(r) \/ updateMemberRole(r)
    PROVE  TenancyInv'
<1>i. Requests /\ References
  BY DEF TenancyInv
<1>1. request' = [request EXCEPT ![r] = Idle] /\ UNCHANGED <<account, cluster, token, node>>
  BY DEF AddMembership, addMember, removeMember, updateMemberRole, Answer
<1>2. CASE AddMembership(r)
  <2>1. request[r].cluster \in Cluster /\ request[r].by \in User
    BY <1>i, <1>2 DEF AddMembership, Answer, Requests, Wellformed
  <2> QED BY <1>1, <1>2, <2>1, RoleKeeps DEF AddMembership
<1>3. CASE addMember(r)
  <2>1. request[r].cluster \in Cluster /\ request[r].user \in User /\ request[r].as \in {"member", "owner"}
    BY <1>i, <1>3 DEF addMember, Answer, Requests, Wellformed
  <2> QED BY <1>1, <1>3, <2>1, RoleKeeps DEF addMember
<1>4. CASE removeMember(r) \/ updateMemberRole(r)
  <2>1. request[r].cluster \in Cluster /\ request[r].user \in User
    BY <1>i, <1>4 DEF removeMember, updateMemberRole, Answer, Requests, Wellformed
  <2>2. PICK as \in {"none", "member", "owner"} :
           withMembershipLock(request[r].cluster, request[r].user, as)
    BY <1>i, <1>4 DEF removeMember, updateMemberRole, Answer, Requests, Wellformed
  <2>3. UNCHANGED role \/ (/\ role[request[r].cluster][request[r].user] # "none"
                           /\ role' = [role EXCEPT ![request[r].cluster][request[r].user] = as])
    BY <2>2 DEF withMembershipLock
  <2>4. role[request[r].cluster][request[r].user] # "none"
          => Stored(request[r].cluster) /\ Exists(request[r].user)
    BY <1>i, <2>1 DEF References
  <2> QED BY <1>1, <2>1, <2>3, <2>4, RoleKeeps
<1> QED BY <1>2, <1>3, <1>4

(* A cluster is marked deleted, with the writes that are under way in it. *)
LEMMA DeleteClusterKeeps ==
    ASSUME TenancyInv, NEW r \in Request, deleteCluster(r)
    PROVE  TenancyInv'
<1>i. Columns /\ References /\ Requests /\ Reads /\ OneMachine /\ Uses
  BY DEF TenancyInv
<1>1. PICK c : c = request[r].cluster
  OBVIOUS
<1>2. /\ c \in Cluster /\ UNCHANGED <<account, role, token, node>>
      /\ request[r].op = "deleteCluster" /\ request' = [request EXCEPT ![r] = Idle]
  BY <1>i, <1>1 DEF deleteCluster, Answer, Requests, Wellformed
<1> DEFINE underWay == {s \in Request : request[s].op \in {"CreateNode", "moveNode"} /\ request[s].cluster = c}
<1>3. CASE UNCHANGED cluster
  <2>1. Requests' /\ Reads'
    BY <1>i, <1>2, <1>3, AnsweredKeeps
  <2> QED BY <1>i, <1>2, <1>3, <2>1, TablesKeep DEF TenancyInv, tables
<1>4. CASE ~UNCHANGED cluster
  <2>1. Live(c) /\ cluster' = [cluster EXCEPT ![c].state = "deleted", ![c].race = underWay]
    BY <1>1, <1>4 DEF deleteCluster
  <2>2. /\ cluster'[c] = [cluster[c] EXCEPT !.state = "deleted", !.race = underWay]
        /\ cluster[c] \in ClusterRec /\ underWay \in SUBSET Request
        /\ \A d \in Cluster : d # c => cluster'[d] = cluster[d]
    BY <1>i, <1>2, <2>1 DEF Columns
  <2>3. /\ cluster'[c] \in ClusterRec /\ cluster'[c].state = "deleted"
        /\ cluster'[c].race = underWay /\ cluster'[c].by = cluster[c].by
    BY <2>2 DEF ClusterRec
  <2>4. Columns'
    <3>1. cluster' \in [Cluster -> ClusterRec]
      BY <1>i, <2>1, <2>2, <2>3 DEF Columns
    <3> QED BY <1>i, <1>2, <3>1 DEF Columns
  <2>5. \A d \in Cluster : (Stored(d)' <=> Stored(d)) /\ cluster'[d].by = cluster[d].by
    BY <2>1, <2>2, <2>3 DEF Stored, Live
  <2>6. References'
    BY <1>i, <1>2, <2>5 DEF References, Exists
  <2>7. /\ DOMAIN request' = Request /\ request'[r] = Idle /\ Idle.op = "none" /\ Wellformed(Idle)
        /\ \A s \in Request : s # r => request'[s] = request[s]
    BY <1>i, <1>2 DEF Requests, Idle, Wellformed
  <2>8. Requests'
    BY <1>i, <2>7 DEF Requests
  <2>9. ASSUME NEW s \in Request, request'[s].op \in {"CreateNode", "moveNode"}
        PROVE  InTime(s, request[s].cluster)'
    <3>1. s # r /\ request'[s] = request[s] /\ request[s].cluster \in Cluster
          /\ InTime(s, request[s].cluster)
      BY <1>i, <2>7, <2>9 DEF Requests, Reads, Wellformed
    <3>2. CASE request[s].cluster = c
      BY <2>3, <2>9, <3>1, <3>2 DEF InTime
    <3>3. CASE request[s].cluster # c
      BY <2>2, <3>1, <3>3 DEF InTime
    <3> QED BY <3>2, <3>3
  <2>10. Reads'
    BY <1>i, <1>2, <2>7, <2>9 DEF Reads
  <2> QED BY <1>i, <1>2, <2>4, <2>6, <2>8, <2>10, UsesKeep, NodesKeep DEF TenancyInv
<1> QED BY <1>3, <1>4

(* A token is made. *)
LEMMA CreateTokenKeeps ==
    ASSUME TenancyInv, NEW r \in Request, createEnrollToken(r)
    PROVE  TenancyInv'
<1>i. Columns /\ References /\ Requests /\ Reads /\ OneMachine /\ Uses
  BY DEF TenancyInv
<1>1. /\ UNCHANGED <<account, cluster, role, node>> /\ request' = [request EXCEPT ![r] = Idle]
      /\ request[r].cluster \in Cluster /\ request[r].by \in User
  BY <1>i DEF createEnrollToken, Answer, Requests, Wellformed
<1>2. Requests' /\ Reads'
  BY <1>i, <1>1, AnsweredKeeps
<1>3. CASE UNCHANGED token
  BY <1>i, <1>1, <1>2, <1>3, TablesKeep DEF TenancyInv, tables
<1>4. CASE ~UNCHANGED token
  <2> DEFINE new == [state |-> "present", cluster |-> request[r].cluster, by |-> request[r].by,
                     left |-> MaxUses]
  <2>1. PICK t \in Token : /\ token[t].state = "none" /\ token' = [token EXCEPT ![t] = new]
                           /\ Stored(request[r].cluster) /\ Exists(request[r].by)
    BY <1>4 DEF createEnrollToken
  <2>2. /\ new \in TokenRec /\ new.state = "present" /\ new.left = MaxUses
        /\ new.cluster = request[r].cluster /\ new.by = request[r].by
    BY <1>1, TenancyAssumption DEF TokenRec
  <2> HIDE DEF new
  <2>3. token' \in [Token -> TokenRec] /\ token'[t] = new /\ \A s \in Token : s # t => token'[s] = token[s]
    BY <1>i, <2>1, <2>2 DEF Columns
  <2>4. Columns'
    BY <1>i, <1>1, <2>3 DEF Columns
  <2>5. References'
    BY <1>i, <1>1, <2>1, <2>2, <2>3 DEF References, Stored, Exists
  <2>6. Uses'
    <3>1. \A s \in Token : Via(s)' = Via(s)
      BY <1>1 DEF Via
    <3>2. Via(t) = {} /\ Cardinality({}) = 0
      BY <1>i, <2>1, FS_EmptySet DEF Uses
    <3>3. MaxUses \in Nat /\ 0 + MaxUses <= MaxUses
      BY TenancyAssumption
    <3>4. Cardinality(Via(t)') + token'[t].left <= MaxUses /\ token'[t].state # "none"
      BY <2>2, <2>3, <3>1, <3>2, <3>3
    <3>5. ASSUME NEW s \in Token, s # t
          PROVE  /\ token'[s].state = "none" => Via(s)' = {} /\ token'[s].left = 0
                 /\ Cardinality(Via(s)') + token'[s].left <= MaxUses
      BY <1>i, <2>3, <3>1, <3>5 DEF Uses
    <3> QED BY <3>4, <3>5 DEF Uses
  <2> QED BY <1>i, <1>1, <1>2, <2>4, <2>5, <2>6, NodesKeep DEF TenancyInv
<1> QED BY <1>3, <1>4

(* The transaction of an enrolment has read that the cluster is live. *)
LEMMA EnrollKeeps ==
    ASSUME TenancyInv, NEW r \in Request, enrollNode(r)
    PROVE  TenancyInv'
<1>i. Columns /\ References /\ Requests /\ Reads /\ OneMachine /\ Uses
  BY DEF TenancyInv
<1> DEFINE q == [request[r] EXCEPT !.op = "CreateNode"]
<1>1. /\ UNCHANGED tables /\ request' = [request EXCEPT ![r] = q]
      /\ request[r].op = "enroll" /\ Live(request[r].cluster)
  BY DEF enrollNode
<1>2. Wellformed(q) /\ q.op = "CreateNode" /\ q.cluster = request[r].cluster
  BY <1>i, <1>1 DEF Requests, Wellformed
<1>3. Requests'
  BY <1>i, <1>1, <1>2 DEF Requests
<1>4. Reads'
  BY <1>i, <1>1, <1>2 DEF Requests, Reads, InTime, Live, tables
<1> QED BY <1>i, <1>1, <1>3, <1>4, TablesKeep DEF TenancyInv

(* It writes: a use of the token, and the row. *)
LEMMA CreateNodeKeeps ==
    ASSUME TenancyInv, NEW r \in Request, CreateNode(r)
    PROVE  TenancyInv'
<1>i. Columns /\ References /\ Requests /\ Reads /\ OneMachine /\ Uses
  BY DEF TenancyInv
<1>1. PICK q : q = request[r]
  OBVIOUS
<1> DEFINE new == [state |-> "present", machine |-> q.machine, cluster |-> q.cluster, via |-> q.token]
<1>2. PICK w : /\ node[w].state = "none" /\ node' = [node EXCEPT ![w] = new]
               /\ \A i \in Present : node[i].machine # q.machine
  BY <1>1 DEF CreateNode
<1>3. /\ UNCHANGED <<account, cluster, role>> /\ request' = [request EXCEPT ![r] = Idle]
      /\ q.cluster \in Cluster /\ q.machine \in Machine /\ q.token \in Token \cup {None}
      /\ Stored(q.cluster) /\ ConsumeEnrollmentToken(q.token)
  BY <1>i, <1>1 DEF CreateNode, Answer, Requests, Wellformed
<1>4. /\ new \in NodeRec /\ new.state = "present" /\ new.machine = q.machine
      /\ new.cluster = q.cluster /\ new.via = q.token
  BY <1>3 DEF NodeRec
<1> HIDE DEF new
<1>5. /\ node' \in [Row -> NodeRec]
      /\ \A i \in Row : IF i = w THEN node'[i] = new ELSE node'[i] = node[i]
  BY <1>i, <1>2, <1>4 DEF Columns
<1>6. /\ \A t \in Token : t # q.token => token'[t] = token[t]
      /\ \A t \in Token : t = q.token => /\ token[t].left > 0 /\ token'[t].left = token[t].left - 1
                                         /\ token'[t].state = token[t].state
                                         /\ token'[t].cluster = token[t].cluster /\ token'[t].by = token[t].by
      /\ token' \in [Token -> TokenRec]
  <2>1. CASE q.token = None
    BY <1>i, <1>3, <2>1, TenancyAssumption DEF ConsumeEnrollmentToken, Columns
  <2>2. CASE q.token \in Token
    <3> DEFINE z == token[q.token]
               y == [z EXCEPT !.left = z.left - 1]
    <3>1. z \in TokenRec /\ z.left > 0 /\ token' = [token EXCEPT ![q.token] = y]
      BY <1>i, <1>3, <2>2, TenancyAssumption DEF ConsumeEnrollmentToken, Columns
    <3>2. y \in TokenRec /\ y.left = z.left - 1 /\ y.state = z.state /\ y.cluster = z.cluster /\ y.by = z.by
      <4>1. z.left \in 0..MaxUses /\ z.left - 1 \in 0..MaxUses
        BY <3>1, TenancyAssumption DEF TokenRec
      <4> HIDE DEF z
      <4> QED BY <3>1, <4>1 DEF TokenRec
    <3> HIDE DEF y
    <3>3. \A t \in Token : token'[t] = IF t = q.token THEN y ELSE token[t]
      BY <1>i, <2>2, <3>1 DEF Columns
    <3>4. token' \in [Token -> TokenRec]
      BY <1>i, <2>2, <3>1, <3>2 DEF Columns
    <3> QED BY <3>1, <3>2, <3>3, <3>4
  <2> QED BY <1>3, <2>1, <2>2
<1>7. Columns'
  BY <1>i, <1>3, <1>5, <1>6 DEF Columns
<1>8. References'
  <2>1. \A t \in Token : /\ token'[t].state = token[t].state /\ token'[t].cluster = token[t].cluster
                         /\ token'[t].by = token[t].by
    BY <1>6
  <2>2. \A i \in Row : node'[i].state = "present" => node'[i].cluster \in Cluster /\ Stored(node'[i].cluster)
    BY <1>i, <1>3, <1>4, <1>5 DEF References
  <2> QED BY <1>i, <1>3, <2>1, <2>2 DEF References, Stored, Exists
<1>9. Requests' /\ Reads'
  <2>1. \A i \in Row : node[i].state # "none" => node'[i].state # "none"
    BY <1>2, <1>5
  <2> QED BY <1>i, <1>3, <2>1, AnsweredKeeps
<1>10. OneMachine'
  <2>1. \A i \in Present : node[i].machine # new.machine /\ i # w
    BY <1>2, <1>4 DEF Present
  <2>2. \A i \in Present' : i = w \/ (i \in Present /\ i # w /\ node'[i] = node[i])
    BY <1>5 DEF Present
  <2>3. \A i \in Present' : i = w => node'[i].machine = new.machine
    BY <1>5 DEF Present
  <2> QED BY <1>i, <2>1, <2>2, <2>3 DEF OneMachine
<1>11. Uses'
  <2> SUFFICES ASSUME NEW t \in Token
               PROVE  /\ token'[t].state = "none" => Via(t)' = {} /\ token'[t].left = 0
                      /\ Cardinality(Via(t)') + token'[t].left <= MaxUses
    BY DEF Uses
  <2>u. /\ token[t].state = "none" => Via(t) = {} /\ token[t].left = 0
        /\ Cardinality(Via(t)) + token[t].left <= MaxUses
    BY <1>i DEF Uses
  <2>f. IsFiniteSet(Via(t)) /\ Cardinality(Via(t)) \in Nat
    BY FS_Subset, FS_CardinalityType, TenancyAssumption DEF Via
  <2>1. CASE t # q.token
    <3>1. Via(t)' = Via(t)
      BY <1>2, <1>4, <1>5, <2>1 DEF Via
    <3> QED BY <1>6, <2>1, <2>u, <3>1
  <2>2. CASE t = q.token
    <3>1. Via(t)' \subseteq Via(t) \cup {w}
      BY <1>5 DEF Via
    <3>2. IsFiniteSet(Via(t) \cup {w}) /\ Cardinality(Via(t) \cup {w}) \in Nat
          /\ Cardinality(Via(t) \cup {w}) <= Cardinality(Via(t)) + 1
      <4>1. IsFiniteSet(Via(t) \cup {w})
            /\ Cardinality(Via(t) \cup {w}) = IF w \in Via(t) THEN Cardinality(Via(t)) ELSE Cardinality(Via(t)) + 1
        BY <2>f, FS_AddElement
      <4>2. Cardinality(Via(t) \cup {w}) \in Nat
        BY <4>1, FS_CardinalityType
      <4> QED BY <2>f, <4>1, <4>2
    <3>3. Cardinality(Via(t)') <= Cardinality(Via(t) \cup {w}) /\ Cardinality(Via(t)') \in Nat
      BY <3>1, <3>2, FS_Subset, FS_CardinalityType
    <3>4. /\ token[t].left > 0 /\ token'[t].left = token[t].left - 1 /\ token'[t].state = token[t].state
          /\ token[t].left \in Nat
      BY <1>i, <1>6, <2>2 DEF Columns, TokenRec
    <3>5. token[t].state # "none"
      BY <2>u, <3>4
    <3> DEFINE a == Cardinality(Via(t)')
               b == Cardinality(Via(t))
               c == Cardinality(Via(t) \cup {w})
               m == token'[t].left
               n == token[t].left
    <3>6. a \in Nat /\ b \in Nat /\ c \in Nat /\ a <= c /\ c <= b + 1 /\ n \in Nat /\ m = n - 1 /\ b + n <= MaxUses
      BY <2>f, <2>u, <3>2, <3>3, <3>4
    <3> HIDE DEF a, b, c, m, n
    <3>7. a + m <= MaxUses
      BY <3>6, TenancyAssumption
    <3> QED BY <3>4, <3>5, <3>7 DEF a, m
  <2> QED BY <2>1, <2>2
<1> QED BY <1>7, <1>8, <1>9, <1>10, <1>11 DEF TenancyInv

(* A node moves to another cluster, or goes. *)
LEMMA MoveNodeKeeps ==
    ASSUME TenancyInv, NEW r \in Request, moveNode(r) \/ adminDeleteNode(r)
    PROVE  TenancyInv'
<1>i. Columns /\ References /\ Requests /\ Reads /\ OneMachine /\ Uses
  BY DEF TenancyInv
<1>1. UNCHANGED <<account, cluster, role, token>> /\ request' = [request EXCEPT ![r] = Idle]
  BY DEF moveNode, adminDeleteNode, Answer
<1>2. /\ node' \in [Row -> NodeRec]
      /\ \A i \in Row : /\ node'[i].state = node[i].state \/ (node[i].state # "none" /\ node'[i].state = "gone")
                        /\ node'[i].machine = node[i].machine /\ node'[i].via = node[i].via
                        /\ node'[i].cluster = node[i].cluster
                             \/ (node'[i].cluster \in Cluster /\ Stored(node'[i].cluster))
  <2>1. CASE UNCHANGED node
    BY <1>i, <2>1 DEF Columns
  <2>2. CASE moveNode(r) /\ ~UNCHANGED node
    <3>1. PICK i \in Row, c \in Cluster : Stored(c) /\ node' = [node EXCEPT ![i].cluster = c]
      BY <1>i, <2>2 DEF moveNode, Answer, Requests, Wellformed
    <3> DEFINE y == [node[i] EXCEPT !.cluster = c]
    <3>2. /\ y \in NodeRec /\ y.state = node[i].state /\ y.machine = node[i].machine
          /\ y.via = node[i].via /\ y.cluster = c
      BY <1>i DEF Columns, NodeRec
    <3>3. node' = [node EXCEPT ![i] = y]
      BY <3>1
    <3> HIDE DEF y
    <3>4. node' \in [Row -> NodeRec] /\ \A j \in Row : node'[j] = IF j = i THEN y ELSE node[j]
      BY <1>i, <3>2, <3>3 DEF Columns
    <3> QED BY <3>1, <3>2, <3>4
  <2>3. CASE adminDeleteNode(r)
    <3>1. PICK i \in Row : node[i].state # "none" /\ node' = [node EXCEPT ![i].state = "gone"]
      BY <1>i, <2>3 DEF adminDeleteNode, Answer, Requests, Reads, Wellformed
    <3> DEFINE y == [node[i] EXCEPT !.state = "gone"]
    <3>2. /\ y \in NodeRec /\ y.state = "gone" /\ y.machine = node[i].machine
          /\ y.via = node[i].via /\ y.cluster = node[i].cluster
      BY <1>i DEF Columns, NodeRec
    <3>3. node' = [node EXCEPT ![i] = y]
      BY <3>1
    <3> HIDE DEF y
    <3>4. node' \in [Row -> NodeRec] /\ \A j \in Row : node'[j] = IF j = i THEN y ELSE node[j]
      BY <1>i, <3>2, <3>3 DEF Columns
    <3> QED BY <3>1, <3>2, <3>4
  <2> QED BY <2>1, <2>2, <2>3
<1>3. Columns'
  BY <1>i, <1>1, <1>2 DEF Columns
<1>4. References'
  BY <1>i, <1>1, <1>2 DEF References, Stored, Exists
<1>5. Requests' /\ Reads'
  BY <1>i, <1>1, <1>2, AnsweredKeeps
<1>6. OneMachine'
  BY <1>i, <1>2 DEF OneMachine, Present
<1>7. Uses'
  <2>1. \A t \in Token : Via(t)' = Via(t)
    BY <1>2 DEF Via
  <2> QED BY <1>i, <1>1, <2>1 DEF Uses
<1> QED BY <1>3, <1>4, <1>5, <1>6, <1>7 DEF TenancyInv

LEMMA TenancyStarts == TenancyInit => TenancyInv
<1> SUFFICES ASSUME TenancyInit PROVE TenancyInv
  OBVIOUS
<1> USE DEF TenancyInit, NewLive
<1>a. root \in User /\ home \in Cluster /\ MaxUses \in Nat
  BY TenancyAssumption
<1>1. Columns
  <2>1. cluster \in [Cluster -> ClusterRec]
    BY <1>a DEF ClusterRec
  <2>2. token \in [Token -> TokenRec] /\ node \in [Row -> NodeRec]
    BY <1>a DEF TokenRec, NodeRec
  <2> QED BY <1>a, <2>1, <2>2 DEF Columns
<1>2. References
  BY <1>a DEF References, Stored, Exists
<1>3. Requests
  BY DEF Requests, Idle, Wellformed
<1>4. Reads
  BY DEF Reads, Idle
<1>5. OneMachine
  BY DEF OneMachine, Present
<1>6. Uses
  <2>1. \A t \in Token : Via(t) = {}
    BY DEF Via
  <2>2. \A t \in Token : token[t].left = 0
    OBVIOUS
  <2>3. Cardinality({}) = 0 /\ 0 + 0 <= MaxUses
    BY <1>a, FS_EmptySet
  <2> QED BY <2>1, <2>2, <2>3 DEF Uses
<1> QED BY <1>1, <1>2, <1>3, <1>4, <1>5, <1>6 DEF TenancyInv

LEMMA TenancyKeeps == TenancyInv /\ [TenancyNext]_tenancyVars => TenancyInv'
<1> SUFFICES ASSUME TenancyInv, [TenancyNext]_tenancyVars PROVE TenancyInv'
  OBVIOUS
<1>i. Columns /\ References /\ Requests /\ Reads /\ OneMachine /\ Uses
  BY DEF TenancyInv
<1>1. CASE UNCHANGED tenancyVars
  <2>1. UNCHANGED tables /\ UNCHANGED <<cluster, node, request>>
    BY <1>1 DEF tenancyVars, tables
  <2>2. Requests' /\ Reads'
    BY <1>i, <2>1 DEF Requests, Reads, InTime
  <2> QED BY <1>i, <2>1, <2>2, TablesKeep DEF TenancyInv
<1>2. CASE TenancyNext
  <2>1. PICK r \in Request : TenancyAsks(r) \/ TenancyWrites(r) \/ Fails(r)
    BY <1>2 DEF TenancyNext
  <2>2. CASE Fails(r)
    <3>1. UNCHANGED tables /\ UNCHANGED <<cluster, node>> /\ request' = [request EXCEPT ![r] = Idle]
      BY <2>2 DEF Fails, tables
    <3>2. Requests' /\ Reads'
      BY <1>i, <3>1, AnsweredKeeps
    <3> QED BY <1>i, <3>1, <3>2, TablesKeep DEF TenancyInv
  <2> QED BY <2>1, <2>2, AskKeeps, CreateUserKeeps, UpdateUserKeeps, DeleteUserKeeps,
             CreateClusterKeeps, MembersKeep, DeleteClusterKeeps, CreateTokenKeeps, EnrollKeeps,
             CreateNodeKeeps, MoveNodeKeeps
          DEF TenancyWrites
<1> QED BY <1>1, <1>2

(* The tables keep their columns and their foreign keys: a membership, a token
   and a node belong to a cluster that is stored, and a membership, a token and a
   cluster to an account that exists, however many requests overlap between what
   they read and what they write (the keys of 0001_init.sql under the handlers of
   user, cluster, member, enrolment and move). *)
THEOREM TenancyTypeCorrect == TenancySpec => []TenancyTypeOK
<1>1. TenancyInv => TenancyTypeOK
  BY TypeIs DEF TenancyInv
<1> QED BY TenancyStarts, TenancyKeeps, <1>1, PTL DEF TenancySpec

(* A machine is a node once, in one cluster, for any number of registrations,
   enrolments and moves of it at the same time (enrollNode and its unique index,
   moveNode). *)
THEOREM MachinesOnce == TenancySpec => []OneMachine
<1>1. TenancyInv => OneMachine
  BY DEF TenancyInv
<1> QED BY TenancyStarts, TenancyKeeps, <1>1, PTL DEF TenancySpec

(* A token lets in no more machines than it was made for, however many agents
   present it at the same time (ConsumeEnrollmentToken). *)
THEOREM TokensBounded == TenancySpec => []TokenBounded
<1>1. TenancyInv => TokenBounded
  <2> SUFFICES ASSUME TenancyInv, NEW t \in Token PROVE Cardinality(Via(t)) <= MaxUses
    BY DEF TokenBounded, Via
  <2>1. IsFiniteSet(Via(t)) /\ Cardinality(Via(t)) \in Nat
    BY FS_Subset, FS_CardinalityType, TenancyAssumption DEF Via
  <2>2. Cardinality(Via(t)) + token[t].left <= MaxUses /\ token[t].left \in Nat
    BY DEF TenancyInv, Uses, Columns, TokenRec
  <2> QED BY <2>1, <2>2, TenancyAssumption
<1> QED BY TenancyStarts, TenancyKeeps, <1>1, PTL DEF TenancySpec

-----------------------------------------------------------------------------
(* Of two or more one is left when one goes. *)
LEMMA OneIsLeft ==
    ASSUME NEW S, IsFiniteSet(S), Cardinality(S) > 1, NEW x
    PROVE  S \ {x} # {}
<1>1. Cardinality(S \ {x}) \in {Cardinality(S), Cardinality(S) - 1} /\ Cardinality(S) \in Nat
  BY FS_RemoveElement, FS_CardinalityType
<1>2. Cardinality(S \ {x}) # 0
  BY <1>1
<1> QED BY <1>2, FS_EmptySet

(* Which steps write accounts. *)
LEMMA AccountsChange ==
    ASSUME [TenancyNext]_tenancyVars, account' # account
    PROVE  \E r \in Request : createUser(r) \/ updateUser(r) \/ deleteUser(r)
<1>1. ~UNCHANGED tenancyVars
  BY DEF tenancyVars, tables
<1>2. PICK r \in Request : TenancyAsks(r) \/ TenancyWrites(r) \/ Fails(r)
  BY <1>1 DEF TenancyNext
<1>3. ~Fails(r)
  BY DEF Fails, tables
<1>4. ~TenancyAsks(r)
  BY DEF TenancyAsks, AskCreateUser, AskUpdateUser, AskDeleteUser, AskCreateCluster, AskDeleteCluster,
     AskMember, AskCreateToken, AskAgentEnroll, AskRegisterNode, AskMoveNode, AskDeleteNode, Begin, tables
<1>5. createUser(r) \/ updateUser(r) \/ deleteUser(r)
  BY <1>2, <1>3, <1>4 DEF TenancyWrites, createCluster, AddMembership, deleteCluster, addMember,
     removeMember, updateMemberRole, createEnrollToken, enrollNode, CreateNode, moveNode,
     adminDeleteNode, tables
<1> QED BY <1>5

LEMMA AdminStep ==
    ASSUME TenancyInv, [TenancyNext]_tenancyVars, Admins # {}, Admins' = {}
    PROVE  \E r \in Request : /\ request[r].op = "deleteUser" /\ ~request[r].wasAdmin
                              /\ IsAdmin(request[r].user) /\ request'[r] = Idle
<1>i. Columns /\ Requests
  BY DEF TenancyInv
<1>f. IsFiniteSet(Admins)
  BY FS_Subset, TenancyAssumption DEF Admins
<1>1. account' # account
  BY DEF Admins
<1>2. PICK r \in Request : createUser(r) \/ updateUser(r) \/ deleteUser(r)
  BY <1>1, AccountsChange
<1>3. ~createUser(r)
  BY <1>i DEF createUser, Admins, Columns
<1>4. ASSUME updateUser(r) PROVE FALSE
  <2>1. PICK u \in User, want \in BOOLEAN : UpdateUserIsAdmin(u, want)
    BY <1>i, <1>4 DEF updateUser, Answer, Requests, Wellformed
  <2>2. CASE want
    BY <1>i, <1>1, <2>1, <2>2 DEF UpdateUserIsAdmin, Admins, Columns
  <2>3. CASE ~want
    <3>1. Cardinality(Admins) > 1 /\ account' = [account EXCEPT ![u] = "user"]
      BY <1>1, <2>1, <2>3 DEF UpdateUserIsAdmin
    <3>2. PICK v : v \in Admins \ {u}
      BY <1>f, <3>1, OneIsLeft
    <3> QED BY <1>i, <3>1, <3>2 DEF Admins, Columns
  <2> QED BY <2>2, <2>3
<1>5. deleteUser(r)
  BY <1>2, <1>3, <1>4
<1>6. PICK u \in User : u = request[r].user
  BY <1>i, <1>5 DEF deleteUser, Answer, Requests, Wellformed
<1>7. /\ request[r].op = "deleteUser" /\ request'[r] = Idle
      /\ request[r].wasAdmin => Cardinality(Admins) > 1
      /\ account' = [account EXCEPT ![u] = "gone"]
  BY <1>i, <1>1, <1>5, <1>6 DEF deleteUser, Answer, MayDelete, Requests
<1>8. Admins \ {u} = {}
  BY <1>i, <1>7 DEF Admins, Columns
<1>9. ~request[r].wasAdmin
  BY <1>f, <1>7, <1>8, OneIsLeft
<1>10. IsAdmin(u)
  BY <1>8 DEF Admins, IsAdmin
<1> QED BY <1>6, <1>7, <1>9, <1>10

(* The last administrator is lost in one way only: a deletion that read its
   target before he became one (deleteUser, against updateUser, whose statement
   counts the administrators under the lock). *)
THEOREM AdminsRemain == TenancySpec => AdminRemains
<1>1. TenancyInv /\ [TenancyNext]_tenancyVars =>
         [Admins # {} /\ Admins' = {} =>
            \E r \in Request : /\ request[r].op = "deleteUser" /\ ~request[r].wasAdmin
                               /\ IsAdmin(request[r].user) /\ request'[r] = Idle]_tenancyVars
  BY AdminStep
<1> QED BY TenancyStarts, TenancyKeeps, <1>1, PTL DEF TenancySpec, AdminRemains

LEMMA OwnerStep ==
    ASSUME TenancyInv, [TenancyNext]_tenancyVars, NEW c \in Cluster, ~Orphaned(c), Orphaned(c)',
           cluster[c].state # "none"
    PROVE  \E u \in User : Exists(u) /\ ~Exists(u)'
<1>i. Columns /\ Requests
  BY DEF TenancyInv
<1>f. IsFiniteSet(Owners(c))
  BY FS_Subset, TenancyAssumption DEF Owners
<1>1. role' # role \/ cluster' # cluster
  BY DEF Orphaned, Owners, Live
<1>2. ~UNCHANGED tenancyVars
  BY <1>1 DEF tenancyVars, tables
<1>3. PICK r \in Request : TenancyAsks(r) \/ TenancyWrites(r) \/ Fails(r)
  BY <1>2 DEF TenancyNext
<1>4. ~Fails(r) /\ ~TenancyAsks(r)
  BY <1>1 DEF Fails, tables, TenancyAsks, AskCreateUser, AskUpdateUser, AskDeleteUser,
     AskCreateCluster, AskDeleteCluster, AskMember, AskCreateToken, AskAgentEnroll, AskRegisterNode,
     AskMoveNode, AskDeleteNode, Begin
<1>5. \/ createUser(r) \/ deleteUser(r) \/ createCluster(r) \/ deleteCluster(r)
      \/ AddMembership(r) \/ addMember(r) \/ removeMember(r) \/ updateMemberRole(r)
  BY <1>1, <1>3, <1>4 DEF TenancyWrites, updateUser, createEnrollToken, enrollNode, CreateNode,
     moveNode, adminDeleteNode, tables
<1>6. ASSUME createUser(r) \/ createCluster(r) PROVE FALSE
  <2>1. PICK d \in Cluster : /\ cluster[d].state = "none"
                             /\ \E u : cluster' = [cluster EXCEPT ![d] = NewLive(u)]
    BY <1>6, NewIn DEF createUser, createCluster, EnsurePersonalCluster
  <2>2. cluster'[c] = cluster[c] /\ d # c
    BY <1>i, <2>1 DEF Columns
  <2>3. role'[c] = role[c]
    <3>1. UNCHANGED role \/ \E u2 \in User : role' = [role EXCEPT ![NewCluster][u2] = "owner"]
                                             /\ cluster[NewCluster].state = "none"
      BY <1>6 DEF createUser, createCluster, EnsurePersonalCluster
    <3> QED BY <1>i, <3>1 DEF Columns
  <2> QED BY <2>2, <2>3 DEF Orphaned, Owners, Live
<1>7. ASSUME deleteCluster(r) PROVE FALSE
  <2>1. /\ UNCHANGED role
        /\ cluster'[c] = cluster[c] \/ cluster'[c].state = "deleted"
    BY <1>i, <1>7 DEF deleteCluster, Columns, ClusterRec
  <2> QED BY <2>1 DEF Orphaned, Owners, Live
<1>8. ASSUME NEW d \in Cluster, NEW v \in User, NEW as \in {"none", "member", "owner"}, UNCHANGED cluster,
             role' = [role EXCEPT ![d][v] = as], role[d][v] = "none" \/ as = "owner" \/ KeepsAnOwner(d, v)
      PROVE  FALSE
  <2>1. /\ \A u \in User : role'[c][u] = role[c][u] \/ (c = d /\ u = v /\ role'[c][u] = as)
    BY <1>i, <1>8 DEF Columns
  <2>2. Live(c) /\ Owners(c) # {} /\ \A u \in Owners(c) : role'[c][u] # "owner"
    BY <1>8 DEF Orphaned, Owners, Live
  <2>3. Owners(c) \subseteq {v} /\ c = d /\ as # "owner" /\ role[c][v] = "owner"
    BY <2>1, <2>2 DEF Owners
  <2>4. Cardinality(Owners(c)) > 1
    BY <1>8, <2>3 DEF KeepsAnOwner
  <2>5. Owners(c) \ {v} # {}
    BY <1>f, <2>4, OneIsLeft
  <2> QED BY <2>3, <2>5
<1>9. ASSUME AddMembership(r) \/ addMember(r) \/ removeMember(r) \/ updateMemberRole(r) PROVE FALSE
  <2>1. UNCHANGED cluster /\ role' # role
    BY <1>1, <1>9 DEF AddMembership, addMember, removeMember, updateMemberRole
  <2>2. CASE AddMembership(r)
    <3>1. request[r].cluster \in Cluster /\ request[r].by \in User
      BY <1>i, <2>2 DEF AddMembership, Answer, Requests, Wellformed
    <3> QED BY <1>8, <2>1, <2>2, <3>1 DEF AddMembership
  <2>3. CASE addMember(r)
    <3>1. request[r].cluster \in Cluster /\ request[r].user \in User /\ request[r].as \in {"member", "owner"}
      BY <1>i, <2>3 DEF addMember, Answer, Requests, Wellformed
    <3> QED BY <1>8, <2>1, <2>3, <3>1 DEF addMember
  <2>4. CASE removeMember(r) \/ updateMemberRole(r)
    <3>1. request[r].cluster \in Cluster /\ request[r].user \in User
      BY <1>i, <2>4 DEF removeMember, updateMemberRole, Answer, Requests, Wellformed
    <3>2. PICK as \in {"none", "member", "owner"} :
             withMembershipLock(request[r].cluster, request[r].user, as)
      BY <1>i, <2>4 DEF removeMember, updateMemberRole, Answer, Requests, Wellformed
    <3> QED BY <1>8, <2>1, <3>1, <3>2 DEF withMembershipLock
  <2> QED BY <1>9, <2>2, <2>3, <2>4
<1>10. deleteUser(r)
  BY <1>5, <1>6, <1>7, <1>9
<1>11. PICK u \in User : u = request[r].user
  BY <1>i, <1>10 DEF deleteUser, Answer, Requests, Wellformed
<1>12. Exists(u) /\ account' = [account EXCEPT ![u] = "gone"]
  BY <1>1, <1>10, <1>11 DEF deleteUser
<1> QED BY <1>i, <1>11, <1>12 DEF Columns, Exists

(* A cluster is left without an owner only when an account is deleted, or between
   the two statements that create it, for any number of owners who remove or demote
   each other at the same time (removeMember and updateMemberRole under
   withMembershipLock). *)
THEOREM OwnersRemain == TenancySpec => OwnerRemains
<1>1. TenancyInv /\ [TenancyNext]_tenancyVars =>
         [\A c \in Cluster : ~Orphaned(c) /\ Orphaned(c)' =>
            cluster[c].state = "none" \/ \E u \in User : Exists(u) /\ ~Exists(u)']_tenancyVars
  BY OwnerStep
<1> QED BY TenancyStarts, TenancyKeeps, <1>1, PTL DEF TenancySpec, OwnerRemains

LEMMA GhostStep ==
    ASSUME TenancyInv, [TenancyNext]_tenancyVars, NEW c \in Cluster, ~Ghosts(c), Ghosts(c)', ~Live(c)
    PROVE  \E r \in cluster[c].race : request[r] # Idle /\ request'[r] = Idle
<1>i. Columns /\ Requests /\ Reads
  BY DEF TenancyInv
<1>1. NodesIn(c) = {} /\ NodesIn(c)' # {} /\ node' # node
  BY DEF Ghosts, NodesIn, Present
<1>2. ~UNCHANGED tenancyVars
  BY <1>1 DEF tenancyVars, tables
<1>3. PICK r \in Request : TenancyAsks(r) \/ TenancyWrites(r) \/ Fails(r)
  BY <1>2 DEF TenancyNext
<1>4. ~Fails(r) /\ ~TenancyAsks(r)
  BY <1>1 DEF Fails, tables, TenancyAsks, AskCreateUser, AskUpdateUser, AskDeleteUser,
     AskCreateCluster, AskDeleteCluster, AskMember, AskCreateToken, AskAgentEnroll, AskRegisterNode,
     AskMoveNode, AskDeleteNode, Begin
<1>5. CreateNode(r) \/ moveNode(r) \/ adminDeleteNode(r)
  BY <1>1, <1>3, <1>4 DEF TenancyWrites, createUser, updateUser, deleteUser, createCluster,
     AddMembership, deleteCluster, addMember, removeMember, updateMemberRole, createEnrollToken,
     enrollNode, tables
<1>6. PICK i \in Row : node'[i].state = "present" /\ node'[i].cluster = c
                       /\ ~(node[i].state = "present" /\ node[i].cluster = c)
  BY <1>1 DEF NodesIn, Present
<1>7. ASSUME adminDeleteNode(r) PROVE FALSE
  <2>1. PICK j \in Row : node' = [node EXCEPT ![j].state = "gone"]
    BY <1>i, <1>7 DEF adminDeleteNode, Answer, Requests, Wellformed
  <2> QED BY <1>i, <1>6, <2>1 DEF Columns, NodeRec
<1>8. /\ request[r].op \in {"CreateNode", "moveNode"} /\ request[r].cluster = c /\ Stored(c)
      /\ request'[r] = Idle
  <2>1. CASE CreateNode(r)
    <3>1. /\ request[r].op = "CreateNode" /\ Stored(request[r].cluster) /\ request'[r] = Idle
      BY <1>i, <2>1 DEF CreateNode, Answer, Requests
    <3>2. PICK w : node' = [node EXCEPT ![w] = [state |-> "present", machine |-> request[r].machine,
                                   cluster |-> request[r].cluster, via |-> request[r].token]]
      BY <2>1 DEF CreateNode
    <3>3. request[r].cluster = c
      BY <1>i, <1>6, <3>2 DEF Columns
    <3> QED BY <3>1, <3>3
  <2>2. CASE moveNode(r)
    <3>1. /\ request[r].op = "moveNode" /\ Stored(request[r].cluster) /\ request'[r] = Idle
          /\ request[r].row \in Row /\ node' = [node EXCEPT ![request[r].row].cluster = request[r].cluster]
      BY <1>i, <1>1, <2>2 DEF moveNode, Answer, Requests, Wellformed
    <3>2. request[r].cluster = c
      BY <1>i, <1>6, <3>1 DEF Columns, NodeRec
    <3> QED BY <3>1, <3>2
  <2> QED BY <1>5, <1>7, <2>1, <2>2
<1>9. r \in cluster[c].race
  BY <1>i, <1>8 DEF Reads, InTime, Live, Stored
<1>10. request[r] # Idle
  BY <1>8 DEF Idle
<1> QED BY <1>8, <1>9, <1>10

(* A deleted cluster gets no node, except from a write that was under way when it
   was deleted, or is deleted under a node that came after its count (deleteCluster
   against enrollNode and moveNode). *)
THEOREM GhostsAreRaces == TenancySpec => NoGhostEnrolled
<1>1. TenancyInv /\ [TenancyNext]_tenancyVars =>
         [\A c \in Cluster : ~Ghosts(c) /\ Ghosts(c)' =>
            Live(c) \/ \E r \in cluster[c].race : request[r] # Idle /\ request'[r] = Idle]_tenancyVars
  BY GhostStep
<1> QED BY TenancyStarts, TenancyKeeps, <1>1, PTL DEF TenancySpec, NoGhostEnrolled

-----------------------------------------------------------------------------
(* File transfers. *)

USE TransferAssumption

\* An upload that has not opened its file has no inode yet, and received nothing.
FreshInode ==
    \A f \in Upload :
        /\ put[f].client = "idle" => put[f].agent = "none"
        /\ put[f].agent \in {"none", "create"} =>
              /\ put[f].total = 0
              /\ part # f /\ final # f
              /\ \A g \in Upload : put[g].inode # f
              /\ \A d \in Download : get[d].inode # f

\* A part file is somebody's who will remove it or leave that to another.
PartIsOwned ==
    ~crashed /\ part # NoInode => \E f \in Upload : put[f].agent \in {"read", "cleanup"}

\* While uploads are received one at a time, the one that is received owns the
\* part file, unless the cleanup of an earlier one took it away.
OneReceiver ==
    /\ part # final
    /\ \A f, g \in Receiving : f = g
    /\ \A f \in Receiving :
          /\ part \in {NoInode, put[f].inode} /\ put[f].inode # final
          /\ \A i \in 1..put[f].total : content[put[f].inode][i] = <<f, put[f].kind # "edited">>

\* A file that is being sent is whole, and nobody writes to it.
SentIsWhole ==
    \A d \in Download : get[d].inode # NoInode =>
        /\ get[d].inode # part /\ \A f \in Upload : put[f].inode # get[d].inode
        /\ Whole(content[get[d].inode])
        /\ \A i \in 1..Len(get[d].got) : get[d].got[i] = content[get[d].inode][i]

\* A result that says ok, of a node that could read its file, is of all of it.
ResultIsWhole ==
    \A d \in Download :
        /\ get[d].client = "idle" => get[d].agent = "none"
        /\ get[d].client = "ok" => get[d].reply = "ok"
        /\ get[d].agent \in {"none", "open", "read"} => get[d].reply = "none"
        /\ get[d].agent = "read" <=> get[d].inode # NoInode
        /\ get[d].agent \in {"none", "open"} => get[d].got = <<>>
        /\ get[d].reply = "ok" /\ ~get[d].erred /\ ~mixed =>
              Len(get[d].got) = Chunks /\ Whole(get[d].got)

TransferInv ==
    /\ TransferTypeOK /\ FreshInode /\ PartIsOwned /\ ResultIsWhole
    /\ ~mixed => OneReceiver /\ SentIsWhole /\ Whole(content[final])

-----------------------------------------------------------------------------
(* Types. *)

PutRec == [client : {"idle", "open", "ok", "failed"}, kind : Kind,
           agent : {"none", "create", "read", "cleanup", "done"},
           inode : Inode \cup {NoInode}, total : 0..Chunks, reply : Reply, cut : BOOLEAN]
Got == UNION {[1..n -> Chunk] : n \in 0..Chunks}
GetRec == [client : {"idle", "open", "ok", "failed"},
           agent : {"none", "open", "read", "done"}, inode : Inode \cup {NoInode},
           got : Got, reply : Reply, cut : BOOLEAN, erred : BOOLEAN]

LEMMA TypeSplit ==
    TransferTypeOK <=>
      /\ system \in {"linux", "windows"}
      /\ part \in Upload \cup {NoInode} /\ final \in Inode
      /\ content \in [Inode -> [1..Chunks -> Chunk]]
      /\ put \in [Upload -> PutRec] /\ get \in [Download -> GetRec]
      /\ mixed \in BOOLEAN /\ crashed \in BOOLEAN /\ trouble \in 0..MaxFaults
      /\ \A f \in Upload : put[f].agent = "read" <=> put[f].inode # NoInode
BY DEF TransferTypeOK, PutRec, GetRec, Got

LEMMA TypeSplitPrime ==
    TransferTypeOK' <=>
      /\ system' \in {"linux", "windows"}
      /\ part' \in Upload \cup {NoInode} /\ final' \in Inode
      /\ content' \in [Inode -> [1..Chunks -> Chunk]]
      /\ put' \in [Upload -> PutRec] /\ get' \in [Download -> GetRec]
      /\ mixed' \in BOOLEAN /\ crashed' \in BOOLEAN /\ trouble' \in 0..MaxFaults
      /\ \A f \in Upload : put'[f].agent = "read" <=> put'[f].inode # NoInode
BY DEF TransferTypeOK, PutRec, GetRec, Got

LEMMA GotIsSeq ==
    ASSUME NEW s \in Got
    PROVE  /\ s \in Seq(Chunk) /\ Len(s) \in 0..Chunks
           /\ \A c \in Chunk : Len(s) < Chunks => Append(s, c) \in Got
<1>1. PICK n \in 0..Chunks : s \in [1..n -> Chunk]
  BY DEF Got
<1>2. s \in Seq(Chunk) /\ Len(s) = n
  BY <1>1
<1>3. ASSUME NEW c \in Chunk, Len(s) < Chunks PROVE Append(s, c) \in Got
  <2>1. Append(s, c) \in [1..(n + 1) -> Chunk] /\ n + 1 \in 0..Chunks
    <3>1. Append(s, c) \in Seq(Chunk) /\ Len(Append(s, c)) = n + 1
      BY <1>2, AppendProperties
    <3>2. n + 1 \in 0..Chunks
      BY <1>2, <1>3
    <3> QED BY <3>1, <3>2, LenProperties
  <2> QED BY <2>1 DEF Got
<1> QED BY <1>2, <1>3

LEMMA EmptyGot == <<>> \in Got /\ Len(<<>>) = 0
<1>1. <<>> \in [1..0 -> Chunk] /\ 0 \in 0..Chunks
  OBVIOUS
<1> QED BY <1>1 DEF Got

LEMMA InitTransfer == TransferInit => TransferInv
<1> SUFFICES ASSUME TransferInit PROVE TransferInv
  OBVIOUS
<1>1. NoPut \in PutRec /\ NoPut.agent = "none" /\ NoPut.inode = NoInode /\ NoPut.total = 0
  BY DEF NoPut, PutRec, Kind, Reply
<1>2. NoGet \in GetRec /\ NoGet.agent = "none" /\ NoGet.inode = NoInode /\ NoGet.got = <<>>
      /\ NoGet.reply = "none" /\ NoGet.client = "idle"
  BY EmptyGot DEF NoGet, GetRec, Reply
<1>3. content \in [Inode -> [1..Chunks -> Chunk]] /\ Whole(content[final])
  BY DEF TransferInit, Inode, Chunk, Empty, Whole
<1>4. TransferTypeOK
  <2>1. put \in [Upload -> PutRec] /\ get \in [Download -> GetRec]
        /\ \A f \in Upload : put[f].agent = "read" <=> put[f].inode # NoInode
    BY <1>1, <1>2 DEF TransferInit
  <2>2. system \in {"linux", "windows"} /\ part = NoInode /\ final \in Inode
    BY DEF TransferInit, Inode
  <2>3. mixed = FALSE /\ crashed = FALSE /\ trouble = 0
    BY DEF TransferInit
  <2>4. /\ system \in {"linux", "windows"} /\ part \in Upload \cup {NoInode} /\ final \in Inode
    BY <2>2
  <2>5. mixed \in BOOLEAN /\ crashed \in BOOLEAN
    BY <2>3
  <2>6. trouble \in 0..MaxFaults
    BY <2>3
  <2> QED BY <1>3, <2>1, <2>4, <2>5, <2>6, TypeSplit
<1>5. FreshInode
  BY <1>1, <1>2 DEF TransferInit, FreshInode
<1>6. PartIsOwned
  BY DEF TransferInit, PartIsOwned
<1>7. ResultIsWhole
  BY <1>2 DEF TransferInit, ResultIsWhole
<1>8. OneReceiver /\ SentIsWhole
  BY <1>1, <1>2 DEF TransferInit, OneReceiver, SentIsWhole, Receiving
<1> QED BY <1>3, <1>4, <1>5, <1>6, <1>7, <1>8 DEF TransferInv

-----------------------------------------------------------------------------
(* Steps that change neither the disk, nor what uploads have received. *)

\* What the invariant says of an upload is kept where its inode, its total and
\* its kind are, and where it neither becomes an upload that has not opened its
\* file nor ceases to be at work.
SameUpload(f) ==
    /\ put'[f].inode = put[f].inode /\ put'[f].total = put[f].total
    /\ put'[f].inode # NoInode => put'[f].kind = put[f].kind
    /\ put'[f].agent \in {"none", "create"} => put[f].agent \in {"none", "create"}
    /\ put[f].agent \in {"read", "cleanup"} => put'[f].agent \in {"read", "cleanup"}
    /\ put'[f].client = "idle" => put'[f].agent = "none"

LEMMA QuietUploads ==
    ASSUME TransferInv, TransferTypeOK', \A f \in Upload : SameUpload(f),
           UNCHANGED <<part, final, content, get, mixed, crashed>>
    PROVE  TransferInv'
<1> USE DEF TransferInv
<1>1. FreshInode'
  BY DEF FreshInode, SameUpload
<1>2. PartIsOwned'
  BY DEF PartIsOwned, SameUpload
<1>3. ResultIsWhole'
  BY DEF ResultIsWhole, Whole
<1>4. ASSUME ~mixed PROVE OneReceiver'
  BY <1>4 DEF OneReceiver, Receiving, SameUpload
<1>5. ASSUME ~mixed PROVE SentIsWhole'
  <2>1. SentIsWhole /\ UNCHANGED <<part, content, get>>
    BY <1>5
  <2>2. \A f \in Upload : put'[f].inode = put[f].inode
    BY DEF SameUpload
  <2>3. \A n : Whole(content[n])' <=> Whole(content[n])
    BY DEF Whole
  <2> QED BY <2>1, <2>2, <2>3 DEF SentIsWhole
<1>6. Whole(content[final]) => Whole(content[final])'
  BY DEF Whole
<1> QED BY <1>1, <1>2, <1>3, <1>4, <1>5, <1>6

LEMMA NextQuiet ==
    ASSUME TransferInv, NEW f \in Upload,
           StartUpload(f) \/ PutReturns(f) \/ CreateFails(f) \/ CutPut(f)
    PROVE  TransferInv'
<1> USE DEF TransferInv
<1>t. TransferTypeOK
  OBVIOUS
<1>p. put[f] \in PutRec /\ put \in [Upload -> PutRec]
  BY <1>t, TypeSplit
<1>1. CASE StartUpload(f)
  <2>1. PICK k \in Kind : put' = [put EXCEPT ![f].client = "open", ![f].kind = k, ![f].agent = "create"]
    BY <1>1 DEF StartUpload
  <2>2. put[f].client = "idle" /\ put[f].agent = "none" /\ put[f].inode = NoInode
    BY <1>1, <1>t, TypeSplit DEF StartUpload, FreshInode
  <2>3. TransferTypeOK'
    BY <1>1, <1>t, <1>p, <2>1, <2>2, TypeSplit, TypeSplitPrime DEF StartUpload, PutRec, disk
  <2>4. \A g \in Upload : SameUpload(g)
    BY <1>p, <2>1, <2>2 DEF PutRec, SameUpload, FreshInode
  <2> QED BY <1>1, <2>3, <2>4, QuietUploads DEF StartUpload, disk
<1>2. CASE PutReturns(f)
  <2>0. put' \in [Upload -> PutRec]
        /\ \A g \in Upload : put'[g].agent = "read" <=> put'[g].inode # NoInode
    <3>1. put'[f] \in PutRec /\ (put'[f].agent = "read" <=> put'[f].inode # NoInode)
      <4>1. PICK r \in {"ok", "failed"}, b \in BOOLEAN :
               put'[f] = [put[f] EXCEPT !.client = r, !.cut = b]
        <5>1. put[f].cut \in BOOLEAN
          BY <1>p DEF PutRec
        <5>2. CASE put' = [put EXCEPT ![f].client = "failed"]
          <6>1. put'[f] = [put[f] EXCEPT !.client = "failed", !.cut = put[f].cut]
            BY <1>p, <5>2 DEF PutRec
          <6> QED BY <5>1, <6>1
        <5>3. CASE put' = [put EXCEPT ![f].client = IF put[f].reply = "ok" THEN "ok" ELSE "failed",
                                      ![f].cut = TRUE]
          BY <1>p, <5>3
        <5> QED BY <1>2, <5>2, <5>3 DEF PutReturns
      <4>2. put[f].agent = "read" <=> put[f].inode # NoInode
        BY <1>t, TypeSplit
      <4> QED BY <1>p, <4>1, <4>2 DEF PutRec
    <3> QED BY <1>2, <1>t, <1>p, <3>1, TypeSplit DEF PutReturns
  <2>1. TransferTypeOK'
    BY <1>2, <1>t, <2>0, TypeSplit, TypeSplitPrime DEF PutReturns, disk
  <2>2. \A g \in Upload : SameUpload(g)
    BY <1>2, <1>p DEF PutReturns, PutRec, SameUpload, FreshInode
  <2> QED BY <1>2, <2>1, <2>2, QuietUploads DEF PutReturns, disk
<1>3. CASE CreateFails(f)
  <2>0. put' \in [Upload -> PutRec]
        /\ \A g \in Upload : put'[g].agent = "read" <=> put'[g].inode # NoInode
    <3>1. put'[f] \in PutRec /\ (put'[f].agent = "read" <=> put'[f].inode # NoInode)
      BY <1>3, <1>t, <1>p, TypeSplit DEF CreateFails, PutRec, Reply
    <3> QED BY <1>3, <1>t, <1>p, <3>1, TypeSplit DEF CreateFails
  <2>1. TransferTypeOK'
    BY <1>3, <1>t, <2>0, TypeSplit, TypeSplitPrime DEF CreateFails, Trouble, disk
  <2>2. \A g \in Upload : SameUpload(g)
    BY <1>3, <1>p DEF CreateFails, PutRec, SameUpload, FreshInode
  <2> QED BY <1>3, <2>1, <2>2, QuietUploads DEF CreateFails, disk
<1>4. CASE CutPut(f)
  <2>0. put' \in [Upload -> PutRec]
        /\ \A g \in Upload : put'[g].agent = "read" <=> put'[g].inode # NoInode
    <3>1. put'[f] \in PutRec /\ (put'[f].agent = "read" <=> put'[f].inode # NoInode)
      BY <1>4, <1>t, <1>p, TypeSplit DEF CutPut, PutRec
    <3> QED BY <1>4, <1>t, <1>p, <3>1, TypeSplit DEF CutPut
  <2>1. TransferTypeOK'
    BY <1>4, <1>t, <2>0, TypeSplit, TypeSplitPrime DEF CutPut, Trouble, disk
  <2>2. \A g \in Upload : SameUpload(g)
    BY <1>4, <1>p DEF CutPut, PutRec, SameUpload, FreshInode
  <2> QED BY <1>4, <2>1, <2>2, QuietUploads DEF CutPut, disk
<1> QED BY <1>1, <1>2, <1>3, <1>4

-----------------------------------------------------------------------------
(* Steps of an upload in the agent. *)

LEMMA NextCreate ==
    ASSUME TransferInv, NEW f \in Upload, Create(f)
    PROVE  TransferInv'
<1> USE DEF TransferInv
<1> DEFINE n == IF part = NoInode THEN f ELSE part
<1>t. TransferTypeOK
  OBVIOUS
<1>p. put[f] \in PutRec /\ put \in [Upload -> PutRec]
  BY <1>t, TypeSplit
<1>n. n \in Upload /\ n \in Inode /\ n # NoInode /\ (part # NoInode => n = part) /\ (part = NoInode => n = f)
  BY <1>t, TypeSplit DEF Inode
<1>a. /\ put[f].agent = "create" /\ put[f].client # "idle" /\ put[f].total = 0
      /\ part' = n /\ content' = [content EXCEPT ![n] = Empty]
      /\ put' = [put EXCEPT ![f].agent = "read", ![f].inode = n]
      /\ mixed' = (mixed \/ Receiving # {})
      /\ UNCHANGED <<system, final, get, crashed, trouble>>
  BY DEF Create, FreshInode
<1> HIDE DEF n
<1>b. /\ \A g \in Upload : g # f => put'[g] = put[g]
      /\ put'[f].agent = "read" /\ put'[f].inode = n /\ put'[f].total = 0 /\ put'[f].client # "idle"
  BY <1>a, <1>p DEF PutRec
<1>c. /\ content' \in [Inode -> [1..Chunks -> Chunk]]
      /\ \A m \in Inode : m # n => content'[m] = content[m]
  <2>1. Empty \in [1..Chunks -> Chunk]
    BY DEF Empty, Chunk, Inode
  <2> QED BY <1>a, <1>n, <1>t, <2>1, TypeSplit
<1>1. TransferTypeOK'
  <2>1. put' \in [Upload -> PutRec]
    BY <1>a, <1>n, <1>p DEF PutRec
  <2>2. \A g \in Upload : put'[g].agent = "read" <=> put'[g].inode # NoInode
    BY <1>b, <1>n, <1>t, TypeSplit
  <2> QED BY <1>a, <1>n, <1>t, <1>c, <2>1, <2>2, TypeSplit, TypeSplitPrime
<1>2. FreshInode'
  <2> SUFFICES ASSUME NEW g \in Upload
               PROVE  /\ put'[g].client = "idle" => put'[g].agent = "none"
                      /\ put'[g].agent \in {"none", "create"} =>
                            /\ put'[g].total = 0 /\ n # g /\ final # g
                            /\ \A h \in Upload : put'[h].inode # g
                            /\ \A d \in Download : get[d].inode # g
    BY <1>a DEF FreshInode
  <2>1. CASE g = f
    BY <1>b, <2>1
  <2>2. CASE g # f
    BY <1>b, <1>n, <2>2 DEF FreshInode
  <2> QED BY <2>1, <2>2
<1>3. PartIsOwned'
  BY <1>b DEF PartIsOwned
<1>4. ResultIsWhole'
  BY <1>a DEF ResultIsWhole, Whole
<1>5. ASSUME ~mixed' PROVE OneReceiver' /\ SentIsWhole' /\ Whole(content[final])'
  <2>1. ~mixed /\ \A g \in Upload : put[g].inode = NoInode
    BY <1>5, <1>a DEF Receiving
  <2>2. n # final /\ \A d \in Download : get[d].inode # n
    BY <1>n, <1>a, <2>1 DEF OneReceiver, SentIsWhole, FreshInode
  <2>3. OneReceiver'
    <3>1. Receiving' = {f}
      BY <1>b, <1>n, <2>1 DEF Receiving
    <3>2. \A g, h \in Receiving' : g = h
      BY <3>1
    <3>3. put'[f].inode = part' /\ part' # final' /\ 1..put'[f].total = {}
      <4>1. put'[f].total = 0 /\ put'[f].inode = n
        BY <1>b
      <4>2. part' = n /\ final' = final
        BY <1>a
      <4> QED BY <4>1, <4>2, <2>2
    <3> QED BY <3>1, <3>2, <3>3 DEF OneReceiver
  <2>4. SentIsWhole'
    <3> SUFFICES ASSUME NEW d \in Download, get[d].inode # NoInode
                 PROVE  /\ get[d].inode # n /\ \A g \in Upload : put'[g].inode # get[d].inode
                        /\ Whole(content'[get[d].inode])
                        /\ \A i \in 1..Len(get[d].got) : get[d].got[i] = content'[get[d].inode][i]
      <4>1. part' = n /\ get' = get
        BY <1>a
      <4> QED BY <4>1 DEF SentIsWhole
    <3>1. get[d].inode \in Inode
      BY <1>t, TypeSplit DEF GetRec
    <3> QED BY <1>b, <1>c, <2>1, <2>2, <3>1 DEF SentIsWhole
  <2>5. Whole(content[final])'
    <3>1. content'[final'] = content[final]
      BY <1>a, <1>c, <1>t, <2>2, TypeSplit
    <3> QED BY <2>1, <3>1 DEF Whole
  <2> QED BY <2>3, <2>4, <2>5
<1> QED BY <1>1, <1>2, <1>3, <1>4, <1>5

LEMMA NextReceiveChunk ==
    ASSUME TransferInv, NEW f \in Upload, ReceiveChunk(f)
    PROVE  TransferInv'
<1> USE DEF TransferInv
<1> DEFINE at == put[f].total + 1
           n == put[f].inode
           ch == <<f, put[f].kind # "edited">>
<1>t. TransferTypeOK
  OBVIOUS
<1>p. put[f] \in PutRec /\ put \in [Upload -> PutRec]
  BY <1>t, TypeSplit
<1>a. /\ put[f].agent = "read" /\ put[f].client = "open"
      /\ at \in 1..Chunks /\ content' = [content EXCEPT ![n][at] = ch]
      /\ put' = [put EXCEPT ![f].total = at]
      /\ UNCHANGED <<system, part, final, get, mixed, crashed, trouble>>
  BY <1>p DEF ReceiveChunk, PutRec
<1>n. n \in Inode /\ n # NoInode /\ ch \in Chunk
  BY <1>a, <1>p, <1>t, TypeSplit DEF PutRec, Chunk, Inode
<1> HIDE DEF at, n, ch
<1>b. /\ \A g \in Upload : g # f => put'[g] = put[g]
      /\ put'[f].agent = "read" /\ put'[f].inode = put[f].inode /\ put'[f].total = at
      /\ put'[f].client = "open" /\ put'[f].kind = put[f].kind
  BY <1>a, <1>p DEF PutRec
<1>c. /\ content' \in [Inode -> [1..Chunks -> Chunk]]
      /\ \A m \in Inode : m # n => content'[m] = content[m]
      /\ content'[n][at] = ch /\ \A i \in 1..Chunks : i # at => content'[n][i] = content[n][i]
  BY <1>a, <1>n, <1>t, TypeSplit
<1>1. TransferTypeOK'
  <2>1. put' \in [Upload -> PutRec]
    BY <1>a, <1>p DEF PutRec
  <2>2. \A g \in Upload : put'[g].agent = "read" <=> put'[g].inode # NoInode
    BY <1>b, <1>n, <1>t, TypeSplit DEF n
  <2> QED BY <1>a, <1>t, <1>c, <2>1, <2>2, TypeSplit, TypeSplitPrime
<1>2. FreshInode'
  BY <1>a, <1>b DEF FreshInode
<1>3. PartIsOwned'
  BY <1>a, <1>b DEF PartIsOwned
<1>4. ResultIsWhole'
  BY <1>a DEF ResultIsWhole, Whole
<1>5. ASSUME ~mixed PROVE OneReceiver' /\ SentIsWhole' /\ Whole(content[final])'
  <2>1. f \in Receiving /\ Receiving' = Receiving
    BY <1>a, <1>b, <1>n DEF Receiving, n
  <2>2. OneReceiver /\ Receiving = {f} /\ n # final /\ (part = NoInode \/ part = n)
    BY <1>5, <2>1 DEF OneReceiver, n
  <2>3. OneReceiver'
    <3>1. \A i \in 1..put'[f].total : content'[put'[f].inode][i] = <<f, put'[f].kind # "edited">>
      <4>1. \A i \in 1..put[f].total : content[n][i] = ch
        BY <2>2 DEF OneReceiver, n, ch
      <4>2. put[f].total \in 0..Chunks
        BY <1>p DEF PutRec
      <4>3. \A i \in 1..at : content'[n][i] = ch
        BY <1>a, <1>c, <4>1, <4>2 DEF at
      <4> QED BY <1>b, <4>3 DEF n, ch
    <3> QED BY <1>a, <1>b, <2>1, <2>2, <3>1 DEF OneReceiver, n
  <2>4. SentIsWhole'
    <3> SUFFICES ASSUME NEW d \in Download, get[d].inode # NoInode
                 PROVE  /\ get[d].inode # part /\ \A g \in Upload : put'[g].inode # get[d].inode
                        /\ Whole(content'[get[d].inode])
                        /\ \A i \in 1..Len(get[d].got) : get[d].got[i] = content'[get[d].inode][i]
      BY <1>a DEF SentIsWhole
    <3>1. get[d].inode \in Inode
      BY <1>t, TypeSplit DEF GetRec
    <3> QED BY <1>5, <1>b, <1>c, <3>1 DEF SentIsWhole, n
  <2>5. Whole(content[final])'
    <3>1. content'[final'] = content[final]
      BY <1>a, <1>c, <1>t, <2>2, TypeSplit
    <3> QED BY <1>5, <3>1 DEF Whole
  <2> QED BY <2>3, <2>4, <2>5
<1> QED BY <1>1, <1>2, <1>3, <1>4, <1>5, <1>a

LEMMA EndsRec ==
    ASSUME NEW y \in PutRec, NEW r \in Reply
    PROVE  LET x == [y EXCEPT !.agent = "cleanup", !.inode = NoInode, !.total = 0, !.reply = r]
           IN x \in PutRec /\ x.agent = "cleanup" /\ x.inode = NoInode /\ x.client = y.client
<1> DEFINE a == [y EXCEPT !.agent = "cleanup", !.inode = NoInode]
           x == [a EXCEPT !.total = 0, !.reply = r]
<1>1. a \in PutRec /\ a.agent = "cleanup" /\ a.inode = NoInode /\ a.client = y.client
  BY DEF PutRec
<1> HIDE DEF a
<1>2. 0 \in 0..Chunks
  OBVIOUS
<1>3. x \in PutRec /\ x.agent = "cleanup" /\ x.inode = NoInode /\ x.client = y.client
  BY <1>1, <1>2 DEF PutRec
<1> QED BY <1>3 DEF a

\* An upload that ends takes the part file away, or leaves it, or makes it the
\* file of the path; only while it is received whole does it do the last.
LEMMA UploadEnds ==
    ASSUME TransferInv, NEW f \in Upload, NEW r \in Reply, put[f].agent = "read",
           put' = Ends(f, r), trouble' \in 0..MaxFaults,
           \/ part' \in {part, NoInode} /\ final' = final
           \/ part # NoInode /\ part' = NoInode /\ final' = part /\ Verified(f),
           UNCHANGED <<system, content, get, mixed, crashed>>
    PROVE  TransferInv'
<1> USE DEF TransferInv
<1>t. TransferTypeOK
  OBVIOUS
<1>p. put[f] \in PutRec /\ put \in [Upload -> PutRec]
  BY <1>t, TypeSplit
<1>b. /\ put' \in [Upload -> PutRec] /\ \A g \in Upload : g # f => put'[g] = put[g]
      /\ put'[f].agent = "cleanup" /\ put'[f].inode = NoInode /\ put'[f].client = put[f].client
  <2>1. put' = [put EXCEPT ![f].agent = "cleanup", ![f].inode = NoInode, ![f].total = 0, ![f].reply = r]
    BY DEF Ends
  <2> DEFINE x == [put[f] EXCEPT !.agent = "cleanup", !.inode = NoInode, !.total = 0, !.reply = r]
  <2>2. x \in PutRec /\ x.agent = "cleanup" /\ x.inode = NoInode /\ x.client = put[f].client
    BY <1>p, EndsRec
  <2>3. put' = [put EXCEPT ![f] = x]
    BY <2>1, <1>p
  <2> HIDE DEF x
  <2> QED BY <1>p, <2>2, <2>3
<1>n. put[f].inode # NoInode /\ put[f].client # "idle"
  BY <1>t, TypeSplit DEF FreshInode
<1>f. part' \in Upload \cup {NoInode} /\ final' \in Inode
  BY <1>t, TypeSplit DEF Inode
<1>1. TransferTypeOK'
  <2>2. \A g \in Upload : put'[g].agent = "read" <=> put'[g].inode # NoInode
    BY <1>b, <1>t, TypeSplit
  <2> QED BY <1>b, <1>f, <1>t, <2>2, TypeSplit, TypeSplitPrime
<1>2. FreshInode'
  BY <1>b, <1>n DEF FreshInode
<1>3. PartIsOwned'
  BY <1>b DEF PartIsOwned
<1>4. ResultIsWhole'
  BY DEF ResultIsWhole, Whole
<1>5. ASSUME ~mixed PROVE OneReceiver' /\ SentIsWhole' /\ Whole(content[final])'
  <2>1. Receiving = {f} /\ Receiving' = {}
    BY <1>5, <1>b, <1>n DEF Receiving, OneReceiver
  <2>2. part' # final'
    BY <1>5, <1>t, TypeSplit DEF OneReceiver, Inode
  <2>3. OneReceiver'
    BY <2>1, <2>2 DEF OneReceiver
  <2>4. SentIsWhole'
    <3> SUFFICES ASSUME NEW d \in Download, get[d].inode # NoInode
                 PROVE  /\ get[d].inode # part' /\ \A g \in Upload : put'[g].inode # get[d].inode
                        /\ Whole(content[get[d].inode])
                        /\ \A i \in 1..Len(get[d].got) : get[d].got[i] = content[get[d].inode][i]
      BY DEF SentIsWhole, Whole
    <3> QED BY <1>5, <1>b DEF SentIsWhole
  <2>5. Whole(content[final])'
    <3>1. CASE final' = final
      BY <1>5, <3>1 DEF Whole
    <3>2. CASE part # NoInode /\ final' = part /\ Verified(f)
      <4>1. part = put[f].inode /\ put[f].total = Chunks /\ put[f].kind # "edited"
        BY <1>5, <2>1, <3>2 DEF OneReceiver, Verified
      <4>2. \A i \in 1..Chunks : content[part][i] = <<f, TRUE>>
        <5>1. \A i \in 1..Chunks : content[part][i] = <<f, put[f].kind # "edited">>
          BY <1>5, <2>1, <4>1 DEF OneReceiver
        <5>2. (put[f].kind # "edited") = TRUE
          BY <4>1
        <5> QED BY <5>1, <5>2
      <4> QED BY <3>2, <4>2 DEF Whole, Inode
    <3> QED BY <3>1, <3>2
  <2> QED BY <2>3, <2>4, <2>5
<1> QED BY <1>1, <1>2, <1>3, <1>4, <1>5

LEMMA NextUploadEnds ==
    ASSUME TransferInv, NEW f \in Upload, ReceiveFails(f) \/ FinishUpload(f)
    PROVE  TransferInv'
<1>t. trouble \in 0..MaxFaults
  BY DEF TransferInv, TransferTypeOK
<1>r. Removed(f) \in {part, NoInode}
  BY DEF Removed
<1>1. CASE ReceiveFails(f)
  <2>1. put[f].agent = "read" /\ put' = Ends(f, "error") /\ part' \in {part, NoInode}
    BY <1>1, <1>r DEF ReceiveFails
  <2>2. trouble' \in 0..MaxFaults /\ UNCHANGED <<system, final, content, get, mixed, crashed>>
    BY <1>1, <1>t DEF ReceiveFails, Trouble
  <2> QED BY <2>1, <2>2, UploadEnds DEF Reply
<1>2. CASE FinishUpload(f)
  <2>1. /\ put[f].agent = "read" /\ (put' = Ends(f, "error") \/ put' = Ends(f, "ok"))
        /\ \/ part' \in {part, NoInode} /\ final' = final
           \/ part # NoInode /\ part' = NoInode /\ final' = part /\ Verified(f)
        /\ UNCHANGED <<system, content, get, mixed, crashed, trouble>>
    BY <1>2, <1>r DEF FinishUpload, Movable
  <2> QED BY <1>t, <2>1, UploadEnds DEF Reply
<1> QED BY <1>1, <1>2

LEMMA NextCleanup ==
    ASSUME TransferInv, NEW f \in Upload, Cleanup(f)
    PROVE  TransferInv'
<1> USE DEF TransferInv
<1>t. TransferTypeOK
  OBVIOUS
<1>p. put[f] \in PutRec /\ put \in [Upload -> PutRec]
  BY <1>t, TypeSplit
<1>a. /\ put[f].agent = "cleanup" /\ put[f].client # "idle" /\ put[f].inode = NoInode
      /\ put' = [put EXCEPT ![f].agent = "done"] /\ part' = Removed(f)
      /\ UNCHANGED <<system, final, content, get, mixed, crashed, trouble>>
  BY <1>t, TypeSplit DEF Cleanup, FreshInode
<1>b. /\ put' \in [Upload -> PutRec] /\ \A g \in Upload : g # f => put'[g] = put[g]
      /\ put'[f].agent = "done" /\ put'[f].inode = NoInode /\ put'[f].client # "idle"
  BY <1>a, <1>p DEF PutRec
<1>r. part' \in {part, NoInode}
  BY <1>a DEF Removed
<1>1. TransferTypeOK'
  <2>2. \A g \in Upload : put'[g].agent = "read" <=> put'[g].inode # NoInode
    BY <1>b, <1>t, TypeSplit
  <2> QED BY <1>a, <1>b, <1>r, <1>t, <2>2, TypeSplit, TypeSplitPrime
<1>2. FreshInode'
  BY <1>a, <1>b, <1>r DEF FreshInode
<1>3. PartIsOwned'
  \* What f may not remove another has open.
  <2> SUFFICES ASSUME part' # NoInode PROVE \E g \in Upload : put'[g].agent \in {"read", "cleanup"}
    BY DEF PartIsOwned
  <2>1. part # NoInode /\ ~(Open(part) \subseteq {f})
    BY <1>a DEF Removed, Removable
  <2>2. PICK g \in Upload : g # f /\ put[g].inode = part
    BY <2>1 DEF Open
  <2>3. put[g].agent = "read" /\ put'[g] = put[g]
    BY <2>1, <2>2, <1>b, <1>t, TypeSplit
  <2> QED BY <2>3
<1>4. ResultIsWhole'
  BY <1>a DEF ResultIsWhole, Whole
<1>5. ASSUME ~mixed PROVE OneReceiver' /\ SentIsWhole' /\ Whole(content[final])'
  <2>1. OneReceiver'
    <3>1. Receiving' = Receiving /\ \A g \in Receiving : put'[g] = put[g]
      BY <1>a, <1>b DEF Receiving
    <3>2. part' # final
      BY <1>5, <1>r, <1>t, TypeSplit DEF OneReceiver, Inode
    <3> QED BY <1>5, <1>a, <1>r, <3>1, <3>2 DEF OneReceiver
  <2>2. SentIsWhole'
    <3>1. \A g \in Upload : put'[g].inode = put[g].inode
      BY <1>a, <1>b
    <3>2. \A m : Whole(content[m])' <=> Whole(content[m])
      BY <1>a DEF Whole
    <3> QED BY <1>5, <1>a, <1>r, <3>1, <3>2 DEF SentIsWhole
  <2>3. Whole(content[final])'
    BY <1>5, <1>a DEF Whole
  <2> QED BY <2>1, <2>2, <2>3
<1> QED BY <1>1, <1>2, <1>3, <1>4, <1>5, <1>a

-----------------------------------------------------------------------------
(* Steps of a download. *)

\* What the invariant says of the result of one download.
GoodResult(x) ==
    /\ x.client = "idle" => x.agent = "none"
    /\ x.client = "ok" => x.reply = "ok"
    /\ x.agent \in {"none", "open", "read"} => x.reply = "none"
    /\ x.agent = "read" <=> x.inode # NoInode
    /\ x.agent \in {"none", "open"} => x.got = <<>>
    /\ x.reply = "ok" /\ ~x.erred /\ ~mixed => Len(x.got) = Chunks /\ Whole(x.got)

\* A step of one download keeps the invariant where it keeps what is said of
\* that download.
LEMMA OneDownload ==
    ASSUME TransferInv, NEW d \in Download, NEW x \in GetRec, get' = [get EXCEPT ![d] = x],
           trouble' \in 0..MaxFaults, UNCHANGED <<system, part, final, content, put, mixed, crashed>>,
           x.inode \in {NoInode, get[d].inode, final},
           GoodResult(x),
           ~mixed /\ x.inode # NoInode =>
              \A i \in 1..Len(x.got) : x.got[i] = content[x.inode][i]
    PROVE  TransferInv'
<1> USE DEF TransferInv
<1>t. TransferTypeOK
  OBVIOUS
<1>g. get \in [Download -> GetRec]
  BY <1>t, TypeSplit
<1>b. /\ get' \in [Download -> GetRec] /\ get'[d] = x
      /\ \A e \in Download : e # d => get'[e] = get[e]
  BY <1>g
<1>1. TransferTypeOK'
  BY <1>t, <1>b, TypeSplit, TypeSplitPrime
<1>2. FreshInode'
  <2>1. \A g \in Upload : put[g].agent \in {"none", "create"} => x.inode # g
    BY <1>t, TypeSplit DEF FreshInode
  <2> QED BY <1>b, <2>1 DEF FreshInode
<1>3. PartIsOwned'
  BY DEF PartIsOwned
<1>4. ResultIsWhole'
  BY <1>b DEF ResultIsWhole, GoodResult
<1>5. ASSUME ~mixed PROVE OneReceiver' /\ SentIsWhole' /\ Whole(content[final])'
  <2>1. OneReceiver'
    BY <1>5 DEF OneReceiver, Receiving
  <2>2. x.inode # NoInode => /\ x.inode # part /\ \A f \in Upload : put[f].inode # x.inode
                             /\ Whole(content[x.inode])
    <3>1. CASE x.inode = get[d].inode
      BY <1>5, <3>1 DEF SentIsWhole
    <3>2. CASE x.inode = final
      BY <1>5, <3>2 DEF OneReceiver, Receiving
    <3> QED BY <3>1, <3>2
  <2>3. SentIsWhole'
    BY <1>5, <1>b, <2>2 DEF SentIsWhole
  <2>4. Whole(content[final])'
    BY <1>5
  <2> QED BY <2>1, <2>3, <2>4
<1> QED BY <1>1, <1>2, <1>3, <1>4, <1>5

LEMMA NextDownload ==
    ASSUME TransferInv, NEW d \in Download,
           \/ StartDownload(d) \/ OpenFinal(d) \/ OpenFails(d) \/ StopSending(d) \/ GetReturns(d)
           \/ CutGet(d)
    PROVE  TransferInv'
<1>t. TransferTypeOK /\ ResultIsWhole /\ (~mixed => SentIsWhole)
  BY DEF TransferInv
<1>g. get[d] \in GetRec /\ get \in [Download -> GetRec] /\ trouble \in 0..MaxFaults /\ final \in Inode
  BY <1>t, TypeSplit
<1> DEFINE y == get[d]
<1>y. GoodResult(y)
  BY <1>t DEF ResultIsWhole, GoodResult
<1>z. ~mixed /\ y.inode # NoInode => \A i \in 1..Len(y.got) : y.got[i] = content[y.inode][i]
  BY <1>t DEF SentIsWhole
<1>1. CASE StartDownload(d)
  <2> DEFINE x == [y EXCEPT !.client = "open", !.agent = "open"]
  <2>1. /\ x \in GetRec /\ x.client = "open" /\ x.agent = "open" /\ x.inode = y.inode /\ x.got = y.got
        /\ x.reply = y.reply /\ x.erred = y.erred /\ get' = [get EXCEPT ![d] = x]
    BY <1>1, <1>g DEF StartDownload, GetRec
  <2>2. y.agent = "none" /\ UNCHANGED <<system, part, final, content, put, mixed, crashed, trouble>>
    BY <1>1, <1>y DEF StartDownload, disk, GoodResult
  <2> HIDE DEF x
  <2>4. GoodResult(x)
    BY <1>y, <2>1, <2>2 DEF GoodResult
  <2>5. x.inode = NoInode
    BY <1>y, <2>1, <2>2 DEF GoodResult
  <2> QED BY <1>g, <2>1, <2>2, <2>4, <2>5, OneDownload
<1>2. CASE OpenFinal(d)
  <2> DEFINE x == [y EXCEPT !.agent = "read", !.inode = final]
  <2>1. /\ x \in GetRec /\ x.client = y.client /\ x.agent = "read" /\ x.inode = final /\ x.got = y.got
        /\ x.reply = y.reply /\ x.erred = y.erred /\ get' = [get EXCEPT ![d] = x]
    BY <1>2, <1>g DEF OpenFinal, GetRec
  <2>2. y.agent = "open" /\ UNCHANGED <<system, part, final, content, put, mixed, crashed, trouble>>
    BY <1>2 DEF OpenFinal, disk
  <2>3. x.got = <<>> /\ Len(x.got) = 0 /\ final # NoInode
    BY <1>g, <1>y, <2>1, <2>2, EmptyGot DEF Inode, GoodResult
  <2> HIDE DEF x
  <2>4. GoodResult(x)
    BY <1>y, <2>1, <2>2, <2>3 DEF GoodResult
  <2>5. \A i \in 1..Len(x.got) : x.got[i] = content[x.inode][i]
    BY <2>3
  <2> QED BY <1>g, <2>1, <2>2, <2>4, <2>5, OneDownload
<1>3. CASE OpenFails(d)
  <2> DEFINE x == [y EXCEPT !.agent = "done", !.reply = "error"]
  <2>1. /\ x \in GetRec /\ x.client = y.client /\ x.agent = "done" /\ x.inode = y.inode /\ x.got = y.got
        /\ x.reply = "error" /\ x.erred = y.erred /\ get' = [get EXCEPT ![d] = x]
    BY <1>3, <1>g DEF OpenFails, GetRec, Reply
  <2>2. /\ y.agent = "open" /\ trouble' \in 0..MaxFaults
        /\ UNCHANGED <<system, part, final, content, put, mixed, crashed>>
    BY <1>3, <1>g DEF OpenFails, Trouble, disk
  <2> HIDE DEF x
  <2>4. GoodResult(x)
    BY <1>y, <2>1, <2>2 DEF GoodResult
  <2>5. x.inode = NoInode
    BY <1>y, <2>1, <2>2 DEF GoodResult
  <2> QED BY <1>g, <2>1, <2>2, <2>4, <2>5, OneDownload
<1>4. CASE StopSending(d)
  <2> DEFINE x == [y EXCEPT !.agent = "done", !.inode = NoInode]
  <2>1. /\ x \in GetRec /\ x.client = y.client /\ x.agent = "done" /\ x.inode = NoInode /\ x.got = y.got
        /\ x.reply = y.reply /\ x.erred = y.erred /\ get' = [get EXCEPT ![d] = x]
    BY <1>4, <1>g DEF StopSending, GetRec
  <2>2. y.agent \in {"open", "read"} /\ UNCHANGED <<system, part, final, content, put, mixed, crashed, trouble>>
    BY <1>4 DEF StopSending, disk
  <2> HIDE DEF x
  <2>4. GoodResult(x)
    BY <1>y, <2>1, <2>2 DEF GoodResult
  <2>5. x.inode = NoInode
    BY <1>y, <2>1, <2>2 DEF GoodResult
  <2> QED BY <1>g, <2>1, <2>2, <2>4, <2>5, OneDownload
<1>5. CASE GetReturns(d)
  <2>0. PICK c \in {"ok", "failed"} :
          /\ y.client = "open" /\ (c = "ok" => y.reply = "ok")
          /\ get' = [get EXCEPT ![d].client = c]
          /\ UNCHANGED <<system, part, final, content, put, mixed, crashed, trouble>>
    BY <1>5 DEF GetReturns, disk
  <2> DEFINE x == [y EXCEPT !.client = c]
  <2>1. /\ x \in GetRec /\ x.client = c /\ x.agent = y.agent /\ x.inode = y.inode /\ x.got = y.got
        /\ x.reply = y.reply /\ x.erred = y.erred /\ get' = [get EXCEPT ![d] = x]
    BY <2>0, <1>g DEF GetRec
  <2> HIDE DEF x
  <2>4. GoodResult(x)
    <3>1. (c = "ok" \/ c = "failed") /\ (c = "ok" => y.reply = "ok")
      BY <2>0
    <3> HIDE DEF y
    <3> QED BY <1>y, <2>1, <3>1 DEF GoodResult
  <2>5. trouble' \in 0..MaxFaults /\ UNCHANGED <<system, part, final, content, put, mixed, crashed>>
    BY <2>0, <1>g
  <2> QED BY <1>g, <1>z, <2>1, <2>4, <2>5, OneDownload
<1>6. CASE CutGet(d)
  <2> DEFINE x == [y EXCEPT !.cut = TRUE]
  <2>1. /\ x \in GetRec /\ x.client = y.client /\ x.agent = y.agent /\ x.inode = y.inode /\ x.got = y.got
        /\ x.reply = y.reply /\ x.erred = y.erred /\ get' = [get EXCEPT ![d] = x]
    BY <1>6, <1>g DEF CutGet, GetRec
  <2>2. trouble' \in 0..MaxFaults /\ UNCHANGED <<system, part, final, content, put, mixed, crashed>>
    BY <1>6, <1>g DEF CutGet, Trouble, disk
  <2> HIDE DEF x
  <2>4. GoodResult(x)
    BY <1>y, <2>1, <2>2 DEF GoodResult
  <2> QED BY <1>g, <1>z, <2>1, <2>2, <2>4, OneDownload
<1> QED BY <1>1, <1>2, <1>3, <1>4, <1>5, <1>6

\* A whole file has no hole: the handler comes to its end, or fails.
LEMMA NextSend ==
    ASSUME TransferInv, NEW d \in Download, SendNext(d)
    PROVE  TransferInv'
<1> DEFINE y == get[d]
           at == Len(y.got) + 1
           here == y.inode
<1>t. TransferTypeOK /\ ResultIsWhole /\ (~mixed => SentIsWhole)
  BY DEF TransferInv
<1>g. y \in GetRec /\ get \in [Download -> GetRec] /\ trouble \in 0..MaxFaults
  BY <1>t, TypeSplit
<1>y. /\ y.agent = "read" /\ y.client # "idle" /\ y.reply = "none" /\ y.client # "ok"
      /\ here # NoInode /\ here \in Inode
  BY <1>t, <1>g DEF SendNext, ResultIsWhole, GetRec
<1>l. y.got \in Got /\ y.got \in Seq(Chunk) /\ Len(y.got) \in 0..Chunks /\ at \in Nat
  <2>1. y.got \in Got
    BY <1>g DEF GetRec
  <2> QED BY <2>1, GotIsSeq
<1>z. ~mixed => /\ Whole(content[here])
                /\ \A i \in 1..Len(y.got) : y.got[i] = content[here][i]
  BY <1>t, <1>y DEF SentIsWhole
<1>u. UNCHANGED <<system, part, final, content, put, mixed, crashed>>
  BY DEF SendNext, disk
<1>1. CASE /\ at <= Chunks /\ UNCHANGED trouble
           /\ get' = [get EXCEPT ![d].got = Append(@, content[here][at])]
  <2> DEFINE c == content[here][at]
             x == [y EXCEPT !.got = Append(y.got, c)]
  <2>1. c \in Chunk
    <3>1. content[here] \in [1..Chunks -> Chunk] /\ at \in 1..Chunks
      BY <1>1, <1>t, <1>y, <1>l, TypeSplit
    <3> QED BY <3>1
  <2>2. Append(y.got, c) \in Got
    BY <1>1, <1>l, <2>1, GotIsSeq
  <2>3. /\ x \in GetRec /\ x.client = y.client /\ x.agent = y.agent /\ x.inode = here
        /\ x.got = Append(y.got, c) /\ x.reply = y.reply /\ get' = [get EXCEPT ![d] = x]
    BY <1>1, <1>g, <2>2 DEF GetRec
  <2>4. ~mixed => \A i \in 1..Len(x.got) : x.got[i] = content[here][i]
    <3>1. /\ Len(Append(y.got, c)) = at /\ Append(y.got, c)[at] = c
          /\ \A i \in 1..Len(y.got) : Append(y.got, c)[i] = y.got[i]
      BY <1>l, <2>1, AppendProperties
    <3> QED BY <1>z, <1>l, <2>3, <3>1
  <2> HIDE DEF x
  <2>5. GoodResult(x)
    BY <1>y, <2>3 DEF GoodResult
  <2> QED BY <1>g, <1>u, <1>1, <2>3, <2>4, <2>5, OneDownload
<1>2. ASSUME NEW e \in BOOLEAN, trouble' \in 0..MaxFaults,
             get' = [get EXCEPT ![d].agent = "done", ![d].inode = NoInode, ![d].reply = "ok", ![d].erred = e],
             e = TRUE \/ at > Chunks \/ (at <= Chunks /\ content[here][at] = Nothing)
      PROVE  TransferInv'
  <2> DEFINE x == [y EXCEPT !.agent = "done", !.inode = NoInode, !.reply = "ok", !.erred = e]
  <2>1. x \in GetRec /\ x.client = y.client /\ x.agent = "done" /\ x.inode = NoInode
        /\ x.got = y.got /\ x.reply = "ok" /\ x.erred = e
    BY <1>g DEF GetRec, Reply
  <2>2. get' = [get EXCEPT ![d] = x]
    BY <1>2, <1>g
  <2>3. ~mixed /\ e = FALSE => Len(y.got) = Chunks /\ Whole(y.got)
    <3> SUFFICES ASSUME ~mixed, e = FALSE PROVE Len(y.got) = Chunks /\ Whole(y.got)
      OBVIOUS
    <3>1. PICK w \in Inode : \A i \in 1..Chunks : content[here][i] = <<w, TRUE>>
      BY <1>z DEF Whole
    <3>2. at > Chunks
      <4> SUFFICES ASSUME at <= Chunks PROVE FALSE
        BY <1>l
      <4>1. at \in 1..Chunks /\ content[here][at] = Nothing
        BY <1>2, <1>l
      <4>2. <<w, TRUE>> = <<old, FALSE>>
        BY <3>1, <4>1 DEF Nothing
      <4> QED BY <4>2
    <3>3. Len(y.got) = Chunks
      BY <1>l, <3>2
    <3> QED BY <1>z, <3>1, <3>3 DEF Whole
  <2> HIDE DEF x
  <2>4. GoodResult(x)
    BY <1>2, <1>y, <2>1, <2>3 DEF GoodResult
  <2> QED BY <1>u, <1>2, <2>1, <2>2, <2>4, OneDownload
<1>3. trouble < MaxFaults /\ trouble' = trouble + 1 => trouble' \in 0..MaxFaults
  BY <1>g
<1>4. trouble' = trouble => trouble' \in 0..MaxFaults
  BY <1>g
<1> HIDE DEF y
<1> QED BY <1>1, <1>2, <1>3, <1>4 DEF SendNext, Trouble, y

-----------------------------------------------------------------------------
LEMMA NextCrash ==
    ASSUME TransferInv, AgentCrashes
    PROVE  TransferInv'
<1> USE DEF TransferInv
<1>t. TransferTypeOK
  OBVIOUS
<1>p. put \in [Upload -> PutRec] /\ get \in [Download -> GetRec]
  BY <1>t, TypeSplit
<1>u. UNCHANGED <<system, part, final, content, mixed>> /\ crashed' = TRUE
  BY DEF AgentCrashes, disk
<1>f. trouble' \in 0..MaxFaults
  <2>1. trouble \in 0..MaxFaults /\ trouble < MaxFaults /\ trouble' = trouble + 1
    BY <1>t, TypeSplit DEF AgentCrashes, Trouble
  <2> QED BY <2>1
<1>1. /\ put' \in [Upload -> PutRec]
      /\ \A f \in Upload : /\ put'[f].inode = NoInode
                            /\ put'[f].agent = (IF put[f].agent = "none" THEN "none" ELSE "done")
                            /\ put'[f].client = put[f].client /\ put'[f].total = put[f].total
  <2> DEFINE x(f) == [put[f] EXCEPT !.agent = "done", !.inode = NoInode, !.cut = TRUE]
  <2>1. \A f \in Upload : /\ x(f) \in PutRec /\ x(f).inode = NoInode /\ x(f).agent = "done"
                          /\ x(f).client = put[f].client /\ x(f).total = put[f].total
    BY <1>p DEF PutRec
  <2>2. put' = [f \in Upload |-> IF put[f].agent = "none" THEN put[f] ELSE x(f)]
    BY DEF AgentCrashes
  <2> HIDE DEF x
  <2>3. \A f \in Upload : put[f].agent = "none" => put[f].inode = NoInode
    BY <1>t, TypeSplit
  <2> QED BY <1>p, <2>1, <2>2, <2>3
<1>2. /\ get' \in [Download -> GetRec]
      /\ \A d \in Download : /\ get'[d].inode = NoInode
                              /\ get'[d].agent = (IF get[d].agent = "none" THEN "none" ELSE "done")
                              /\ get'[d].client = get[d].client /\ get'[d].got = get[d].got
                              /\ get'[d].reply = get[d].reply /\ get'[d].erred = get[d].erred
  <2> DEFINE x(d) == [get[d] EXCEPT !.agent = "done", !.inode = NoInode, !.cut = TRUE]
  <2>1. \A d \in Download : /\ x(d) \in GetRec /\ x(d).inode = NoInode /\ x(d).agent = "done"
                            /\ x(d).client = get[d].client /\ x(d).got = get[d].got
                            /\ x(d).reply = get[d].reply /\ x(d).erred = get[d].erred
    BY <1>p DEF GetRec
  <2>2. get' = [d \in Download |-> IF get[d].agent = "none" THEN get[d] ELSE x(d)]
    BY DEF AgentCrashes
  <2> HIDE DEF x
  <2>3. \A d \in Download : get[d].agent = "none" => get[d].inode = NoInode
    BY DEF ResultIsWhole
  <2> QED BY <1>p, <2>1, <2>2, <2>3
<1>3. TransferTypeOK'
  BY <1>t, <1>u, <1>f, <1>1, <1>2, TypeSplit, TypeSplitPrime
<1>4. FreshInode'
  BY <1>u, <1>1, <1>2 DEF FreshInode
<1>5. PartIsOwned'
  BY <1>u DEF PartIsOwned
<1>6. ResultIsWhole'
  BY <1>u, <1>2 DEF ResultIsWhole
<1>7. ASSUME ~mixed PROVE OneReceiver' /\ SentIsWhole' /\ Whole(content[final])'
  <2>1. Receiving' = {}
    BY <1>1 DEF Receiving
  <2>2. OneReceiver'
    BY <1>7, <1>u, <2>1 DEF OneReceiver
  <2>3. SentIsWhole'
    BY <1>2 DEF SentIsWhole
  <2> QED BY <1>7, <1>u, <2>2, <2>3
<1> QED BY <1>3, <1>4, <1>5, <1>6, <1>7, <1>u

LEMMA NextTransfer == TransferInv /\ [TransferNext]_transferVars => TransferInv'
<1> SUFFICES ASSUME TransferInv, [TransferNext]_transferVars PROVE TransferInv'
  OBVIOUS
<1>1. CASE UNCHANGED transferVars
  BY <1>1 DEF transferVars, TransferInv, TransferTypeOK, FreshInode, PartIsOwned, ResultIsWhole,
              OneReceiver, SentIsWhole, Receiving
<1>2. ASSUME NEW f \in Upload, StartUpload(f) \/ UploadSteps(f) \/ CreateFails(f) \/ CutPut(f)
      PROVE  TransferInv'
  BY <1>2, NextQuiet, NextCreate, NextReceiveChunk, NextUploadEnds, NextCleanup DEF UploadSteps
<1>3. ASSUME NEW d \in Download, StartDownload(d) \/ DownloadSteps(d) \/ OpenFails(d) \/ CutGet(d)
      PROVE  TransferInv'
  BY <1>3, NextDownload, NextSend DEF DownloadSteps
<1> QED BY <1>1, <1>2, <1>3, NextCrash DEF TransferNext

LEMMA TransferInvariant == TransferSpec => []TransferInv
<1>1. TransferInit => TransferInv
  BY InitTransfer
<1>2. TransferInv /\ [TransferNext]_transferVars => TransferInv'
  BY NextTransfer
<1> QED BY <1>1, <1>2, PTL DEF TransferSpec

(* The variables of the transfers keep their types, and a file is open exactly
   while a handler reads into it (agent/session/file.go). *)
THEOREM TransferTypeCorrect == TransferSpec => []TransferTypeOK
<1>1. TransferInv => TransferTypeOK
  BY DEF TransferInv
<1> QED BY <1>1, TransferInvariant, PTL

(* An upload takes place as a whole or not at all: the path holds one upload
   or the file of before unless two uploads were received at the same time,
   and no part file is left when all handlers have returned, for any number of
   uploads, of chunks and of faults (handleUpload of agent/session/file.go). *)
THEOREM UploadsAtomic == TransferSpec => []UploadAtomic
<1>1. TransferInv => UploadAtomic
  BY DEF TransferInv, PartIsOwned, UploadAtomic, PathWhole, NoResidue
<1> QED BY <1>1, TransferInvariant, PTL

(* A download that reports success has all of one upload, however many uploads
   replace the file under it (handleDownload of agent/session/file.go). *)
THEOREM DownloadsHonest == TransferSpec => []DownloadHonest
<1>1. TransferInv => DownloadHonest
  BY DEF TransferInv, ResultIsWhole, DownloadHonest
<1> QED BY <1>1, TransferInvariant, PTL
=============================================================================
