------------------------------- MODULE Tenancy ------------------------------
(***************************************************************************)
(* Accounts, clusters, members, enrolment tokens and the nodes registered  *)
(* in clusters, as the REST handlers of the server change them.            *)
(*                                                                         *)
(* A request that changes something is two steps.  The first is what the   *)
(* handler reads before it writes: the user's row of the middleware, the   *)
(* role, the target, the counts it decides on; a request that is refused   *)
(* there changes nothing and is not a step.  The second is the statement   *)
(* or the transaction that writes, with the conditions the database tests  *)
(* in it.  Between the two any other request may run.  The rows have       *)
(* identities that are never used again.  Names, passwords and display     *)
(* names of rows, and the keys and the status of nodes (NodeControl), are  *)
(* left out; "member" stands for the roles operator and viewer.            *)
(***************************************************************************)
EXTENDS Naturals, FiniteSets

CONSTANTS
    User, Cluster, Token, Row,   \* identities of rows
    Machine,                     \* machine ids
    Request,                     \* slots of requests in progress, numbers; the least free one is taken
    MaxUses,                     \* max_uses of a token
    ClusterLimit,                \* MaxClustersPerUser
    MaxRequests,                 \* bound: requests in a behaviour
    root, home,                  \* the account and the cluster of the first boot
    None

ASSUME TenancyAssumption ==
    /\ root \in User /\ home \in Cluster /\ Request \subseteq Nat /\ MaxUses \in Nat /\ ClusterLimit \in Nat
    /\ MaxRequests \in Nat /\ IsFiniteSet(User) /\ IsFiniteSet(Row)
    /\ None \notin User \cup Cluster \cup Token \cup Row \cup Machine

VARIABLES
    account,    \* users, with is_admin
    cluster,    \* clusters: deleted_at, owner_id; history: the writes under way at its deletion
    role,       \* cluster_members
    token,      \* enrollment_tokens: cluster, created_by, uses that are left
    node,       \* nodes: machine, cluster; history: the token that let it in
    request,    \* what a handler has read and is about to write
    asked       \* requests so far

tables == <<account, cluster, role, token, node>>
tenancyVars == <<tables, request, asked>>

Exists(u) == account[u] \in {"user", "admin"}
Admins == {u \in User : account[u] = "admin"}
Live(c) == cluster[c].state = "live"
Stored(c) == cluster[c].state \in {"live", "deleted"}
Owners(c) == {u \in User : role[c][u] = "owner"}
Owned(u) == {c \in Cluster : Live(c) /\ role[c][u] = "owner"}
Present == {i \in Row : node[i].state = "present"}
NodesIn(c) == {i \in Present : node[i].cluster = c}

NewCluster == CHOOSE c \in Cluster :
                cluster[c].state = "none" \/ \A d \in Cluster : cluster[d].state # "none"
NewRow == CHOOSE i \in Row : node[i].state = "none" \/ \A j \in Row : node[j].state # "none"

Idle == [op |-> "none"]

TenancyTypeOK ==
    /\ account \in [User -> {"none", "user", "admin", "gone"}]
    /\ cluster \in [Cluster -> [state : {"none", "live", "deleted", "gone"}, by : User \cup {None},
                                race : SUBSET Request]]
    /\ role \in [Cluster -> [User -> {"none", "member", "owner"}]]
    /\ token \in [Token -> [state : {"none", "present", "gone"}, cluster : Cluster \cup {None},
                            by : User \cup {None}, left : 0..MaxUses]]
    /\ node \in [Row -> [state : {"none", "present", "gone"}, machine : Machine \cup {None},
                         cluster : Cluster \cup {None}, via : Token \cup {None}]]
    \* Foreign keys: a row points at rows that exist.
    /\ \A c \in Cluster, u \in User : role[c][u] # "none" => Stored(c) /\ Exists(u)
    /\ \A c \in Cluster : Stored(c) => Exists(cluster[c].by)
    /\ \A i \in Present : Stored(node[i].cluster)
    /\ \A t \in Token : token[t].state = "present" => Stored(token[t].cluster) /\ Exists(token[t].by)

NewLive(u) == [state |-> "live", by |-> u, race |-> {}]

(* The first boot: the administrator and the cluster "default". *)
TenancyInit ==
    /\ account = [u \in User |-> IF u = root THEN "admin" ELSE "none"]
    /\ cluster = [c \in Cluster |-> IF c = home THEN NewLive(root)
                                                ELSE [state |-> "none", by |-> None, race |-> {}]]
    /\ role = [c \in Cluster |-> [u \in User |->
                 IF c = home /\ u = root THEN "owner" ELSE "none"]]
    /\ token = [t \in Token |-> [state |-> "none", cluster |-> None, by |-> None, left |-> 0]]
    /\ node = [i \in Row |-> [state |-> "none", machine |-> None, cluster |-> None, via |-> None]]
    /\ request = [r \in Request |-> Idle] /\ asked = 0

-----------------------------------------------------------------------------
(* How a request begins, is answered, or is given up: the client goes away,
   the database refuses, or a name is taken. *)

Begin(r, q) ==
    /\ request[r] = Idle
    /\ \A s \in Request : s < r => request[s] # Idle
    /\ request' = [request EXCEPT ![r] = q]
    /\ asked < MaxRequests /\ asked' = asked + 1
    /\ UNCHANGED tables

Answer(r, op) ==
    /\ request[r].op = op
    /\ request' = [request EXCEPT ![r] = Idle]
    /\ UNCHANGED asked

Fails(r) ==
    /\ request[r] # Idle
    /\ request' = [request EXCEPT ![r] = Idle]
    /\ UNCHANGED <<tables, asked>>

(* What the handlers ask of the caller. *)
IsAdmin(u) == account[u] = "admin"
authorizeClusterOwner(u, c) == Exists(u) /\ Live(c) /\ role[c][u] = "owner"

-----------------------------------------------------------------------------
(* Accounts *)

(* The personal cluster: same transaction as the account. *)
EnsurePersonalCluster(u) ==
    LET c == NewCluster
    IN /\ cluster[c].state = "none"
       /\ cluster' = [cluster EXCEPT ![c] = NewLive(u)]
       /\ role' = [role EXCEPT ![c][u] = "owner"]

AskCreateUser(r) ==
    \E a \in User : IsAdmin(a) /\ Begin(r, [op |-> "createUser"])

createUser(r) ==
    /\ Answer(r, "createUser")
    /\ \E u \in User : /\ account[u] = "none"
                       /\ account' = [account EXCEPT ![u] = "user"]
                       /\ EnsurePersonalCluster(u)
    /\ UNCHANGED <<token, node>>

(* The administrator bit: the target's row is read, and only a change of it
   goes to the guarded UPDATE under the advisory lock. *)
AskUpdateUser(r) ==
    \E a, u \in User : \E want \in BOOLEAN :
        /\ IsAdmin(a) /\ Exists(u)
        /\ want # IsAdmin(u)
        /\ Begin(r, [op |-> "updateUser", user |-> u, want |-> want])

UpdateUserIsAdminUnguarded(u, want) ==
    IF Exists(u)
    THEN account' = [account EXCEPT ![u] = IF want THEN "admin" ELSE "user"]
    ELSE UNCHANGED account

UpdateUserIsAdmin(u, want) ==
    IF Exists(u) /\ (want \/ Cardinality(Admins) > 1)
    THEN account' = [account EXCEPT ![u] = IF want THEN "admin" ELSE "user"]
    ELSE UNCHANGED account

updateUser(r) ==
    /\ Answer(r, "updateUser")
    /\ UpdateUserIsAdmin(request[r].user, request[r].want)
    /\ UNCHANGED <<cluster, role, token, node>>

(* A user goes with the clusters whose owner_id he is, if they have no node;
   the tokens of those clusters and all his memberships cascade.  A token he
   made in another cluster has a foreign key to him without a rule for
   deletion, and the transaction fails. *)
AskDeleteUser(r) ==
    \E a, u \in User :
        /\ IsAdmin(a) /\ Exists(u)
        /\ Begin(r, [op |-> "deleteUser", user |-> u, wasAdmin |-> IsAdmin(u)])

MayDelete(u, wasAdmin, owned) ==
    /\ wasAdmin => Cardinality(Admins) > 1
    /\ \A c \in owned : NodesIn(c) = {}
    /\ \A t \in Token : token[t].state = "present" /\ token[t].by = u => token[t].cluster \in owned

deleteUser(r) ==
    /\ Answer(r, "deleteUser")
    /\ LET u == request[r].user
           owned == {c \in Cluster : Stored(c) /\ cluster[c].by = u}
       IN IF Exists(u) /\ MayDelete(u, request[r].wasAdmin, owned)
          THEN /\ account' = [account EXCEPT ![u] = "gone"]
               /\ cluster' = [c \in Cluster |-> IF c \in owned THEN [cluster[c] EXCEPT !.state = "gone"]
                                                               ELSE cluster[c]]
               /\ role' = [c \in Cluster |-> [v \in User |->
                              IF c \in owned \/ v = u THEN "none" ELSE role[c][v]]]
               /\ token' = [t \in Token |-> IF token[t].cluster \in owned
                                            THEN [token[t] EXCEPT !.state = "gone"] ELSE token[t]]
          ELSE UNCHANGED <<account, cluster, role, token>>
    /\ UNCHANGED node

-----------------------------------------------------------------------------
(* Clusters and members *)

AskCreateCluster(r) ==
    \E u \in User :
        /\ Exists(u)
        /\ Cardinality(Owned(u)) < ClusterLimit
        /\ Begin(r, [op |-> "createCluster", by |-> u])

(* Two statements without a transaction: the row, then the owner. *)
createCluster(r) ==
    /\ request[r].op = "createCluster"
    /\ Exists(request[r].by)
    /\ LET c == NewCluster
       IN /\ cluster[c].state = "none"
          /\ cluster' = [cluster EXCEPT ![c] = NewLive(request[r].by)]
          /\ request' = [request EXCEPT ![r] = [op |-> "AddMembership", by |-> request[r].by,
                                                cluster |-> c]]
    /\ UNCHANGED <<account, role, token, node, asked>>

AddMembership(r) ==
    /\ Answer(r, "AddMembership")
    /\ LET u == request[r].by
           c == request[r].cluster
       IN IF Exists(u) /\ Stored(c) /\ role[c][u] = "none"
          THEN role' = [role EXCEPT ![c][u] = "owner"]
          ELSE UNCHANGED role
    /\ UNCHANGED <<account, cluster, token, node>>

AskDeleteCluster(r) ==
    \E u \in User, c \in Cluster :
        /\ authorizeClusterOwner(u, c)
        /\ NodesIn(c) = {}
        /\ Begin(r, [op |-> "deleteCluster", cluster |-> c])

deleteCluster(r) ==
    /\ Answer(r, "deleteCluster")
    /\ LET c == request[r].cluster
           underWay == {s \in Request : request[s].op \in {"CreateNode", "moveNode"} /\ request[s].cluster = c}
       IN IF Live(c)
          THEN cluster' = [cluster EXCEPT ![c].state = "deleted", ![c].race = underWay]
          ELSE UNCHANGED cluster
    /\ UNCHANGED <<account, role, token, node>>

(* What the three member handlers read: the caller's role, and whether the
   target is there (addMember) or a member (updateMemberRole). *)
AskMember(r) ==
    \E u, v \in User, c \in Cluster : \E as \in {"member", "owner"} :
        /\ authorizeClusterOwner(u, c)
        /\ \/ Exists(v) /\ Begin(r, [op |-> "addMember", cluster |-> c, user |-> v, as |-> as])
           \/ Begin(r, [op |-> "removeMember", cluster |-> c, user |-> v])
           \/ /\ role[c][v] # "none"
              /\ Begin(r, [op |-> "updateMemberRole", cluster |-> c, user |-> v, as |-> as])

addMember(r) ==
    /\ Answer(r, "addMember")
    /\ LET c == request[r].cluster
           v == request[r].user
       IN IF Stored(c) /\ Exists(v) /\ role[c][v] = "none"
          THEN role' = [role EXCEPT ![c][v] = request[r].as]
          ELSE UNCHANGED role
    /\ UNCHANGED <<account, cluster, token, node>>

(* The guard of RemoveMemberGuarded and UpdateMemberRole, decided in the
   statement, under the membership lock of the cluster. *)
KeepsAnOwner(c, v) == role[c][v] # "owner" \/ Cardinality(Owners(c)) > 1

withMembershipLock(c, v, as) ==
    IF role[c][v] # "none" /\ (as = "owner" \/ KeepsAnOwner(c, v))
    THEN role' = [role EXCEPT ![c][v] = as]
    ELSE UNCHANGED role

removeMember(r) ==
    /\ Answer(r, "removeMember")
    /\ withMembershipLock(request[r].cluster, request[r].user, "none")
    /\ UNCHANGED <<account, cluster, token, node>>

updateMemberRole(r) ==
    /\ Answer(r, "updateMemberRole")
    /\ withMembershipLock(request[r].cluster, request[r].user, request[r].as)
    /\ UNCHANGED <<account, cluster, token, node>>

-----------------------------------------------------------------------------
(* Tokens and nodes *)

AskCreateToken(r) ==
    \E u \in User, c \in Cluster :
        /\ authorizeClusterOwner(u, c)
        /\ Begin(r, [op |-> "createEnrollToken", by |-> u, cluster |-> c])

createEnrollToken(r) ==
    /\ Answer(r, "createEnrollToken")
    /\ LET q == request[r]
       IN \E t \in Token :
          /\ token[t].state = "none"
          /\ IF Stored(q.cluster) /\ Exists(q.by)
             THEN token' = [token EXCEPT ![t] = [state |-> "present", cluster |-> q.cluster,
                                                 by |-> q.by, left |-> MaxUses]]
             ELSE UNCHANGED token
    /\ UNCHANGED <<account, cluster, role, node>>

(* An agent with a token, and a member of the cluster with his own login,
   come to the same transaction. *)
AskAgentEnroll(r) ==
    \E t \in Token, m \in Machine :
        /\ token[t].state = "present"
        /\ Live(token[t].cluster)
        /\ Begin(r, [op |-> "enroll", cluster |-> token[t].cluster, machine |-> m, token |-> t])

AskRegisterNode(r) ==
    \E u \in User, c \in Cluster, m \in Machine :
        /\ Exists(u) /\ Live(c) /\ role[c][u] # "none"
        /\ ~\E i \in Present : /\ node[i].machine = m /\ node[i].cluster # c
                               /\ Live(node[i].cluster)
        /\ Begin(r, [op |-> "enroll", cluster |-> c, machine |-> m, token |-> None])

ConsumeEnrollmentToken(t) ==
    IF t = None THEN UNCHANGED token
    ELSE /\ token[t].left > 0
         /\ token' = [token EXCEPT ![t].left = @ - 1]

enrollNodeAnywhere(r) ==
    /\ LET q == request[r]
       IN /\ q.op = "enroll"
          /\ ~\E i \in NodesIn(q.cluster) : node[i].machine = q.machine
          /\ request' = [request EXCEPT ![r] = [q EXCEPT !.op = "CreateNode"]]
    /\ UNCHANGED <<tables, asked>>

(* The transaction reads that the cluster is live and that the machine is
   not in it yet: the same machine again keeps its row, with the same key or
   with a new one, and no token is spent. *)
enrollNode(r) ==
    /\ LET q == request[r]
       IN /\ q.op = "enroll"
          /\ Live(q.cluster)
          /\ ~\E i \in NodesIn(q.cluster) : node[i].machine = q.machine
          /\ request' = [request EXCEPT ![r] = [q EXCEPT !.op = "CreateNode"]]
    /\ UNCHANGED <<tables, asked>>

(* It then writes and commits: a use of the token, if the token has one
   left, and the row, if no cluster has a row of this machine
   (nodes_machine_id_key).  An error on the way rolls everything back. *)
CreateNode(r) ==
    /\ LET q == request[r]
       IN /\ q.op = "CreateNode" /\ Stored(q.cluster)
          /\ ConsumeEnrollmentToken(q.token)
          /\ \A i \in Present : node[i].machine # q.machine
          /\ node[NewRow].state = "none"
          /\ node' = [node EXCEPT ![NewRow] = [state |-> "present", machine |-> q.machine,
                                               cluster |-> q.cluster, via |-> q.token]]
    /\ Answer(r, "CreateNode")
    /\ UNCHANGED <<account, cluster, role>>

AskMoveNode(r) ==
    \E u \in User, i \in Present, c \in Cluster :
        /\ Exists(u) /\ Live(c) /\ c # node[i].cluster
        /\ role[node[i].cluster][u] = "owner" /\ role[c][u] = "owner"
        /\ Begin(r, [op |-> "moveNode", row |-> i, from |-> node[i].cluster, cluster |-> c])

(* MoveNodeCluster writes only while the node is where it was read. *)
moveNode(r) ==
    /\ Answer(r, "moveNode")
    /\ LET q == request[r]
       IN IF q.row \in NodesIn(q.from) /\ Stored(q.cluster)
          THEN node' = [node EXCEPT ![q.row].cluster = q.cluster]
          ELSE UNCHANGED node
    /\ UNCHANGED <<account, cluster, role, token>>

AskDeleteNode(r) ==
    \E a \in User, i \in Present :
        IsAdmin(a) /\ Begin(r, [op |-> "adminDeleteNode", row |-> i])

adminDeleteNode(r) ==
    /\ Answer(r, "adminDeleteNode")
    /\ node' = [node EXCEPT ![request[r].row].state = "gone"]
    /\ UNCHANGED <<account, cluster, role, token>>

-----------------------------------------------------------------------------
TenancyAsks(r) ==
    \/ AskCreateUser(r) \/ AskUpdateUser(r) \/ AskDeleteUser(r)
    \/ AskCreateCluster(r) \/ AskDeleteCluster(r) \/ AskMember(r)
    \/ AskCreateToken(r) \/ AskAgentEnroll(r) \/ AskRegisterNode(r)
    \/ AskMoveNode(r) \/ AskDeleteNode(r)

TenancyWrites(r) ==
    \/ createUser(r) \/ updateUser(r) \/ deleteUser(r)
    \/ createCluster(r) \/ AddMembership(r) \/ deleteCluster(r)
    \/ addMember(r) \/ removeMember(r) \/ updateMemberRole(r)
    \/ createEnrollToken(r) \/ enrollNode(r) \/ CreateNode(r) \/ moveNode(r) \/ adminDeleteNode(r)

TenancyNext == \E r \in Request : TenancyAsks(r) \/ TenancyWrites(r) \/ Fails(r)

TenancySpec == TenancyInit /\ [][TenancyNext]_tenancyVars

-----------------------------------------------------------------------------
(* The last administrator is lost in one way only: a deletion that read its
   target before he became one.  Demotions of each other, deletions of each
   other and deletions of oneself, in any overlap, leave an administrator:
   the lock and the count in the statement see to it. *)
AdminRemains ==
    [][Admins # {} /\ Admins' = {} =>
         \E r \in Request : /\ request[r].op = "deleteUser" /\ ~request[r].wasAdmin
                            /\ IsAdmin(request[r].user) /\ request'[r] = Idle]_tenancyVars

Orphaned(c) == Live(c) /\ Owners(c) = {}

(* A cluster is left without an owner only when an account is deleted, or
   between the two statements that create it: never by owners who remove or
   demote each other or themselves. *)
OwnerRemains ==
    [][\A c \in Cluster : ~Orphaned(c) /\ Orphaned(c)' =>
         cluster[c].state = "none" \/ \E u \in User : Exists(u) /\ ~Exists(u)']_tenancyVars

Ghosts(c) == ~Live(c) /\ NodesIn(c) # {}

(* A deleted cluster gets no node, whatever token or login is still around,
   except from an enrolment whose transaction had read it live, or a move
   that had been checked, when it was deleted; or it is deleted under a node
   that came after the count. *)
NoGhostEnrolled ==
    [][\A c \in Cluster : ~Ghosts(c) /\ Ghosts(c)' =>
         Live(c) \/ \E r \in cluster[c].race : request[r] # Idle /\ request'[r] = Idle]_tenancyVars

(* What the comments of the handlers say without these exceptions: there is
   always an administrator; every account owns a cluster; a deleted cluster
   has no nodes.  None of the three holds. *)
AnAdminIsLeft == Admins # {}
EveryoneOwns == \A u \in User : Exists(u) => Owned(u) # {}
DeletedIsEmpty == \A c \in Cluster : ~Ghosts(c)

(* A machine is a node once, in one cluster: registrations in two clusters,
   enrolments with tokens and moves that overlap included. *)
OneMachine ==
    \A i, j \in Present : node[i].machine = node[j].machine => i = j

(* A token lets in no more machines than it was made for, however many agents
   present it at the same time. *)
TokenBounded ==
    \A t \in Token : Cardinality({i \in Row : node[i].state # "none" /\ node[i].via = t}) <= MaxUses
=============================================================================
