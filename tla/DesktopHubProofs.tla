-------------------------- MODULE DesktopHubProofs --------------------------
(***************************************************************************)
(* TLAPS proofs about the desktop of a node: the hub and the arbiter       *)
(* implement the lease of InputLease, and a viewer that was added to the   *)
(* serving host has that host's config.                                    *)
(***************************************************************************)
EXTENDS DesktopHub, TLAPS

USE HubAssumption

\* Legs and kills that act on a host have looked one up.
LookedUp ==
    /\ \A v \in Viewer : leg[v] \in {"adding", "added", "leaving"} => at[v] \in Host
    /\ \A v \in Viewer : leg[v] = "off" => at[v] = None
    /\ \A s \in Session : desk[s] = "killing" => at[s] \in Host

\* The registered host has come through RegisterHost and not yet to its end.
HostIsUp == host # None => hpc[host] \in {"moving", "up", "cached", "on"}

\* A lease that is alive has a holder.
LeaseHeld == lease.alive => lease.holder \in Session

\* ConfigReachesBound, for a leg that is between reads or in the middle of one.
ConfigHeld ==
    \A v \in Viewer :
        (/\ host # None /\ hpc[host] = "on" /\ at[v] = host
         /\ leg[v] \in {"open", "gate"} /\ v \notin shut /\ v \in bound[host]
         /\ \A g \in Host \ {host} : v \notin bound[g])
        => page[v] = host

HubInv == TypeOK /\ LookedUp /\ HostIsUp /\ LeaseHeld /\ ConfigHeld

LEMMA InitHub == Init => HubInv
<1> SUFFICES ASSUME Init PROVE HubInv
  OBVIOUS
<1>1. NoLease \in [holder : Session \cup {None}, alive : BOOLEAN, cool : BOOLEAN] /\ ~NoLease.alive
  BY DEF NoLease
<1>2. TypeOK
  BY <1>1 DEF Init, TypeOK, Ages
<1>3. LookedUp /\ HostIsUp /\ LeaseHeld /\ ConfigHeld
  BY <1>1 DEF Init, LookedUp, HostIsUp, LeaseHeld, ConfigHeld
<1> QED BY <1>2, <1>3 DEF HubInv

-----------------------------------------------------------------------------
(* The operations of the arbiter. *)

LeaseRec == [holder : Session \cup {None}, alive : BOOLEAN, cool : BOOLEAN]

LEMMA ArbiterType ==
    ASSUME NEW l \in LeaseRec, NEW s \in Session, l.alive => l.holder \in Session
    PROVE  /\ NoLease \in LeaseRec
           /\ Grant(l, s) \in LeaseRec /\ Grant(l, s).holder \in Session
           /\ TakeLease(l, s) \in LeaseRec /\ TakeLease(l, s).holder \in Session
           /\ Touch(l, s) \in LeaseRec /\ (Touch(l, s).alive => Touch(l, s).holder \in Session)
           /\ Drop(l, s) \in LeaseRec /\ (Drop(l, s).alive => Drop(l, s).holder \in Session)
BY DEF LeaseRec, NoLease, Grant, TakeLease, Touch, Drop

LEMMA NextLease == TypeOK /\ LeaseHeld /\ [Next]_vars => lease' \in LeaseRec /\ LeaseHeld'
<1> SUFFICES ASSUME TypeOK, LeaseHeld, [Next]_vars PROVE lease' \in LeaseRec /\ LeaseHeld'
  OBVIOUS
<1>l. lease \in LeaseRec /\ (lease.alive => lease.holder \in Session)
  BY DEF TypeOK, LeaseHeld, LeaseRec
<1>n. NoLease \in LeaseRec /\ ~NoLease.alive
  BY DEF NoLease, LeaseRec
<1>1. CASE UNCHANGED lease
  BY <1>1, <1>l DEF LeaseHeld
<1>2. CASE LeaseExpires \/ CooldownEnds
  BY <1>2, <1>l DEF LeaseExpires, CooldownEnds, LeaseHeld, LeaseRec
<1>3. ASSUME NEW s \in Session, DesktopStart(s) \/ DropForKill(s)
      PROVE  lease' \in LeaseRec /\ LeaseHeld'
  BY <1>3, <1>l, ArbiterType DEF DesktopStart, DropForKill, LeaseHeld
<1>4. ASSUME NEW v \in Viewer,
             Hello(v) \/ TouchViewer(v) \/ TakeControl(v) \/ ReleaseControl(v) \/ RemoveViewer(v)
      PROVE  lease' \in LeaseRec /\ LeaseHeld'
  <2>1. SessionOf[v] \in Session
    OBVIOUS
  <2> QED BY <1>4, <1>l, <1>n, <2>1, ArbiterType
          DEF Hello, TouchViewer, TakeControl, ReleaseControl, RemoveViewer, LeaseHeld
<1> QED BY <1>1, <1>2, <1>3, <1>4
        DEF Next, TicketsAge, KillNode, KillSession, HostConnect, HostRefused, RegisterHost,
            MigrateViewers, CacheConfig, BroadcastConfig, UnregisterHost, BroadcastOffline, Dial,
            AddViewer, SendCachedConfig, Input, InputSent, LegEnds, vars

-----------------------------------------------------------------------------
(* Hosts, viewers and legs. *)

\* Everything but the lease keeps its type, and who acts on a host has one.
LEMMA NextHubType == HubInv /\ [Next]_vars => TypeOK' /\ LookedUp' /\ HostIsUp'
<1> SUFFICES ASSUME HubInv, [Next]_vars PROVE TypeOK' /\ LookedUp' /\ HostIsUp'
  OBVIOUS
<1> USE DEF HubInv
<1>l. lease' \in LeaseRec
  BY NextLease
<1> USE DEF TypeOK, LeaseRec
<1>1. CASE LeaseExpires \/ CooldownEnds \/ UNCHANGED vars
  BY <1>1, <1>l DEF LeaseExpires, CooldownEnds, vars, sess, hosts, legs, LookedUp, HostIsUp
<1>2. CASE TicketsAge \/ KillNode
  <2>1. CASE TicketsAge
    BY <2>1, <1>l DEF TicketsAge, Ages, hosts, legs, LookedUp, HostIsUp
  <2>2. CASE KillNode
    <3>1. host' = None /\ banned' \in BOOLEAN /\ closed' \subseteq Host
          /\ page' \in [Viewer -> Host \cup {None}]
      BY <2>2 DEF KillNode
    <3> QED BY <2>2, <3>1, <1>l DEF KillNode, legs, LookedUp, HostIsUp
  <2> QED BY <1>2, <2>1, <2>2
<1>3. ASSUME NEW s \in Session, DesktopStart(s) PROVE TypeOK' /\ LookedUp' /\ HostIsUp'
  BY <1>3, <1>l DEF DesktopStart, HostTicketFor, Ages, hosts, legs, LookedUp, HostIsUp
<1>4. ASSUME NEW s \in Session, KillSession(s) PROVE TypeOK' /\ LookedUp' /\ HostIsUp'
  BY <1>4, <1>l DEF KillSession, hosts, LookedUp, HostIsUp
<1>5. ASSUME NEW s \in Session, DropForKill(s) PROVE TypeOK' /\ LookedUp' /\ HostIsUp'
  <2>1. at[s] \in Host
    BY <1>5 DEF DropForKill, LookedUp
  <2> QED BY <1>5, <1>l, <2>1 DEF DropForKill, hosts, LookedUp, HostIsUp
<1>6. ASSUME NEW h \in Host, HostConnect(h) \/ HostRefused(h) \/ CacheConfig(h)
      PROVE TypeOK' /\ LookedUp' /\ HostIsUp'
  BY <1>6, <1>l DEF HostConnect, HostRefused, CacheConfig, sess, legs, LookedUp, HostIsUp
<1>7. ASSUME NEW h \in Host, RegisterHost(h) PROVE TypeOK' /\ LookedUp' /\ HostIsUp'
  BY <1>7, <1>l DEF RegisterHost, sess, legs, LookedUp, HostIsUp
<1>8. ASSUME NEW h \in Host, MigrateViewers(h) PROVE TypeOK' /\ LookedUp' /\ HostIsUp'
  BY <1>8, <1>l DEF MigrateViewers, sess, legs, LookedUp, HostIsUp
<1>9. ASSUME NEW h \in Host, BroadcastConfig(h) \/ BroadcastOffline(h) \/ UnregisterHost(h)
      PROVE TypeOK' /\ LookedUp' /\ HostIsUp'
  BY <1>9, <1>l DEF BroadcastConfig, BroadcastOffline, UnregisterHost, sess, legs, LookedUp, HostIsUp
<1>10. ASSUME NEW v \in Viewer, Dial(v) \/ Hello(v) \/ Input(v) \/ InputSent(v) \/ LegEnds(v)
       PROVE TypeOK' /\ LookedUp' /\ HostIsUp'
  BY <1>10, <1>l DEF Dial, Hello, Input, InputSent, LegEnds, Reads, IsViewerBound, sess, hosts,
                     LookedUp, HostIsUp
<1>11. ASSUME NEW v \in Viewer, TouchViewer(v) \/ TakeControl(v) \/ ReleaseControl(v)
       PROVE TypeOK' /\ LookedUp' /\ HostIsUp'
  BY <1>11, <1>l DEF TouchViewer, TakeControl, ReleaseControl, sess, hosts, legs, LookedUp, HostIsUp
<1>12. ASSUME NEW v \in Viewer, AddViewer(v) \/ SendCachedConfig(v) \/ RemoveViewer(v)
       PROVE TypeOK' /\ LookedUp' /\ HostIsUp'
  <2>1. at[v] \in Host
    BY <1>12 DEF AddViewer, SendCachedConfig, RemoveViewer, LookedUp
  <2>2. CASE AddViewer(v)
    BY <1>l, <2>1, <2>2 DEF AddViewer, sess, hosts, LookedUp, HostIsUp
  <2>3. CASE SendCachedConfig(v)
    BY <1>l, <2>1, <2>3 DEF SendCachedConfig, sess, hosts, LookedUp, HostIsUp
  <2>4. CASE RemoveViewer(v)
    BY <1>l, <2>1, <2>4 DEF RemoveViewer, sess, hosts, LookedUp, HostIsUp
  <2> QED BY <1>12, <2>2, <2>3, <2>4
<1> QED BY <1>1, <1>2, <1>3, <1>4, <1>5, <1>6, <1>7, <1>8, <1>9, <1>10, <1>11, <1>12 DEF Next

\* The config of the serving host stays with who has it, and whoever is added
\* has it from the cache or from the broadcast.
LEMMA NextConfig == HubInv /\ [Next]_vars => ConfigHeld'
<1> SUFFICES ASSUME HubInv, [Next]_vars, NEW v \in Viewer,
                    host' # None, hpc'[host'] = "on", at'[v] = host',
                    leg'[v] \in {"open", "gate"}, v \notin shut', v \in bound'[host'],
                    \A g \in Host \ {host'} : v \notin bound'[g]
             PROVE  page'[v] = host'
  BY DEF ConfigHeld
<1> USE DEF HubInv, TypeOK
<1>c. ASSUME UNCHANGED <<host, at, leg, shut, bound, page>>, hpc[host] = "on"
      PROVE  page'[v] = host'
  BY <1>c DEF ConfigHeld
<1>1. CASE LeaseExpires \/ CooldownEnds \/ TicketsAge \/ UNCHANGED vars
  BY <1>1, <1>c DEF LeaseExpires, CooldownEnds, TicketsAge, vars, hosts, legs
<1>2. CASE KillNode
  BY <1>2 DEF KillNode
<1>3. ASSUME NEW s \in Session, DesktopStart(s) PROVE page'[v] = host'
  BY <1>3, <1>c DEF DesktopStart, hosts, legs
<1>4. ASSUME NEW s \in Session, KillSession(s) PROVE page'[v] = host'
  <2>1. at'[v] = at[v]
    BY <1>4 DEF KillSession
  <2> QED BY <1>4, <2>1 DEF KillSession, hosts, ConfigHeld
<1>5. ASSUME NEW s \in Session, DropForKill(s) PROVE page'[v] = host'
  <2>1. at[s] \in Host /\ at'[v] = at[v]
    BY <1>5 DEF DropForKill, LookedUp
  <2>2. v \notin shut /\ \A g \in Host : v \in bound'[g] <=> v \in bound[g]
    BY <1>5, <2>1 DEF DropForKill
  <2> QED BY <1>5, <2>1, <2>2 DEF DropForKill, hosts, ConfigHeld
<1>6. ASSUME NEW h \in Host, HostConnect(h) \/ HostRefused(h) \/ CacheConfig(h)
      PROVE  page'[v] = host'
  <2>1. UNCHANGED <<host, at, leg, shut, bound, page>>
    BY <1>6 DEF HostConnect, HostRefused, CacheConfig, legs
  <2>2. hpc[host] = "on"
    BY <1>6, <2>1 DEF HostConnect, HostRefused, CacheConfig
  <2> QED BY <1>c, <2>1, <2>2
<1>7. ASSUME NEW h \in Host, RegisterHost(h) PROVE page'[v] = host'
  BY <1>7 DEF RegisterHost
<1>8. ASSUME NEW h \in Host, MigrateViewers(h) PROVE page'[v] = host'
  <2>1. h # host /\ hpc[host] = "on" /\ UNCHANGED <<host, at, leg, shut, page>>
    BY <1>8 DEF MigrateViewers, legs
  <2>2. \A g \in Host : bound[g] \subseteq bound'[g]
    BY <1>8 DEF MigrateViewers
  <2>3. bound'[host] = bound[host]
    BY <1>8, <2>1 DEF MigrateViewers
  <2> QED BY <2>1, <2>2, <2>3 DEF ConfigHeld
<1>9. ASSUME NEW h \in Host, BroadcastConfig(h) PROVE page'[v] = host'
  BY <1>9 DEF BroadcastConfig, legs, ConfigHeld
<1>10. ASSUME NEW h \in Host, UnregisterHost(h) \/ BroadcastOffline(h) PROVE page'[v] = host'
  <2>1. h # host'
    BY <1>10 DEF UnregisterHost, BroadcastOffline, HostIsUp
  <2> QED BY <1>10, <2>1 DEF UnregisterHost, BroadcastOffline, legs, ConfigHeld
<1>11. ASSUME NEW w \in Viewer, Dial(w) \/ Hello(w) \/ LegEnds(w) PROVE page'[v] = host'
  BY <1>11 DEF Dial, Hello, LegEnds, Reads, hosts, LookedUp, ConfigHeld
<1>12. ASSUME NEW w \in Viewer, Input(w) \/ InputSent(w) PROVE page'[v] = host'
  BY <1>12 DEF Input, InputSent, Reads, hosts, ConfigHeld
<1>13. ASSUME NEW w \in Viewer, TouchViewer(w) \/ TakeControl(w) \/ ReleaseControl(w)
       PROVE page'[v] = host'
  BY <1>13, <1>c DEF TouchViewer, TakeControl, ReleaseControl, hosts, legs
<1>14. ASSUME NEW w \in Viewer, AddViewer(w) PROVE page'[v] = host'
  <2>1. at[w] \in Host /\ v # w
    BY <1>14 DEF AddViewer, LookedUp
  <2>2. \A g \in Host : v \in bound'[g] <=> v \in bound[g]
    BY <1>14, <2>1 DEF AddViewer
  <2> QED BY <1>14, <2>1, <2>2 DEF AddViewer, hosts, ConfigHeld
<1>15. ASSUME NEW w \in Viewer, SendCachedConfig(w) PROVE page'[v] = host'
  BY <1>15 DEF SendCachedConfig, hosts, LookedUp, ConfigHeld
<1>16. ASSUME NEW w \in Viewer, RemoveViewer(w) PROVE page'[v] = host'
  <2>1. at[w] \in Host /\ v # w /\ at'[v] = at[v] /\ leg'[v] = leg[v]
    BY <1>16 DEF RemoveViewer, LookedUp
  <2>2. \A g \in Host : v \in bound'[g] <=> v \in bound[g]
    BY <1>16, <2>1 DEF RemoveViewer
  <2> QED BY <1>16, <2>1, <2>2 DEF RemoveViewer, hosts, ConfigHeld
<1> QED BY <1>1, <1>2, <1>3, <1>4, <1>5, <1>6, <1>7, <1>8, <1>9, <1>10, <1>11, <1>12, <1>13,
           <1>14, <1>15, <1>16 DEF Next

LEMMA NextHub == HubInv /\ [Next]_vars => HubInv'
BY NextLease, NextHubType, NextConfig DEF HubInv

LEMMA HubInvariant == Spec => []HubInv
BY InitHub, NextHub, PTL DEF Spec

\* Every variable keeps its type.
THEOREM HubTypeCorrect == Spec => []TypeOK
<1>1. HubInv => TypeOK
  BY DEF HubInv
<1> QED BY <1>1, HubInvariant, PTL

\* A viewer that was added to the serving host has the config of that host once
\* it was broadcast, for any number of hosts that replace each other and of
\* viewers that come, migrate and go, in whatever order their goroutines run.
THEOREM ConfigSafe == Spec => []ConfigReachesBound
<1>1. HubInv => ConfigReachesBound
  BY DEF HubInv, ConfigHeld, ConfigReachesBound
<1> QED BY <1>1, HubInvariant, PTL

-----------------------------------------------------------------------------
(* Refinement: Holder(lease), lease.cool and the sessions of the legs at the *)
(* gate are the holder, the cooldown and the admitted of InputLease.         *)

Admitted == {SessionOf[v] : v \in {w \in Viewer : leg[w] = "gate"}}

\* Without a leg at the gate before and after, admissions are as they were.
LEMMA AdmittedKept ==
    ASSUME TypeOK, TypeOK', \A v \in Viewer : leg'[v] = "gate" <=> leg[v] = "gate"
    PROVE  Admitted' = Admitted
BY DEF Admitted

LeaseStep == Lease!Next \/ UNCHANGED <<Holder(lease), lease.cool, Admitted>>

\* The arbiter's operations, as the abstract lease sees them.
LEMMA GrantImplements ==
    ASSUME LeaseHeld, lease \in LeaseRec, NEW s \in Session, lease' = Grant(lease, s),
           Admitted' = Admitted
    PROVE  LeaseStep
<1>1. CASE lease.alive
  BY <1>1 DEF Grant, LeaseStep
<1>2. CASE ~lease.alive
  <2>1. lease'.alive = TRUE /\ lease'.holder = s /\ lease'.cool = FALSE
    BY <1>2 DEF Grant
  <2>2. Lease!Take
    BY <1>2, <2>1 DEF Lease!Take, Holder, Admitted, LeaseRec
  <2> QED BY <2>2 DEF Lease!Next, LeaseStep
<1> QED BY <1>1, <1>2

LEMMA TouchImplements ==
    ASSUME LeaseHeld, lease \in LeaseRec, NEW s \in Session, lease' = Touch(lease, s),
           Admitted' = Admitted
    PROVE  LeaseStep
<1>1. CASE lease.holder # s
  BY <1>1 DEF Touch, LeaseStep
<1>2. CASE lease.holder = s
  <2>1. lease'.alive = TRUE /\ lease'.holder = s /\ lease'.cool = lease.cool
    BY <1>2 DEF Touch, LeaseRec
  <2>2. CASE lease.alive
    BY <1>2, <2>1, <2>2 DEF Holder, LeaseStep
  <2>3. CASE ~lease.alive
    <3>1. Lease!Take
      BY <2>1, <2>3 DEF Lease!Take, Holder, Admitted
    <3> QED BY <3>1 DEF Lease!Next, LeaseStep
  <2> QED BY <2>2, <2>3
<1> QED BY <1>1, <1>2

LEMMA TakeImplements ==
    ASSUME LeaseHeld, lease \in LeaseRec, NEW s \in Session,
           ~TakeRefused(lease, s), lease' = TakeLease(lease, s), Admitted' = Admitted
    PROVE  LeaseStep
<1>1. lease'.alive = TRUE /\ lease'.holder = s
      /\ lease'.cool = (lease.cool \/ (lease.alive /\ lease.holder # s))
  BY DEF TakeLease
<1>2. CASE ~lease.alive
  <2>1. lease'.cool = lease.cool
    BY <1>1, <1>2 DEF LeaseRec
  <2>2. Lease!Take
    BY <1>1, <1>2, <2>1 DEF Lease!Take, Holder, Admitted
  <2> QED BY <2>2 DEF Lease!Next, LeaseStep
<1>3. CASE lease.alive /\ lease.holder = s
  <2>1. lease'.cool = lease.cool
    BY <1>1, <1>3 DEF LeaseRec
  <2> QED BY <1>1, <1>3, <2>1 DEF Holder, LeaseStep
<1>4. CASE lease.alive /\ lease.holder # s
  <2>1. ~lease.cool /\ lease'.cool = TRUE
    BY <1>1, <1>4 DEF TakeRefused
  <2>2. Lease!Steal
    BY <1>1, <1>4, <2>1 DEF Lease!Steal, Holder, Admitted, LeaseHeld
  <2> QED BY <2>2 DEF Lease!Next, LeaseStep
<1> QED BY <1>2, <1>3, <1>4

\* A lease that ends, by its holder, with its viewer, by silence or by time.
LEMMA EndImplements ==
    ASSUME LeaseHeld, lease \in LeaseRec, lease' \in LeaseRec, ~lease'.alive,
           lease'.cool \in {lease.cool, FALSE}, Admitted' = Admitted
    PROVE  LeaseStep
<1>1. CASE lease.alive
  <2>1. Lease!Lose
    BY <1>1 DEF Lease!Lose, Holder, Admitted, LeaseHeld
  <2> QED BY <2>1 DEF Lease!Next, LeaseStep
<1>2. CASE ~lease.alive /\ lease'.cool = lease.cool
  BY <1>2 DEF Holder, LeaseStep
<1>3. CASE ~lease.alive /\ lease'.cool # lease.cool
  <2>1. Lease!Cool
    BY <1>3 DEF Lease!Cool, Holder, Admitted, LeaseRec
  <2> QED BY <2>1 DEF Lease!Next, LeaseStep
<1> QED BY <1>1, <1>2, <1>3

LEMMA DropImplements ==
    ASSUME LeaseHeld, lease \in LeaseRec, NEW s \in Session, lease' = Drop(lease, s),
           Admitted' = Admitted
    PROVE  LeaseStep
<1>1. NoLease \in LeaseRec /\ ~NoLease.alive /\ NoLease.cool = FALSE
  BY DEF NoLease, LeaseRec
<1>2. CASE lease' = NoLease
  BY <1>1, <1>2, EndImplements
<1>3. CASE lease' = lease
  BY <1>3 DEF LeaseStep
<1> QED BY <1>2, <1>3 DEF Drop

LEMMA HubStepImplements == HubInv /\ HubInv' /\ [Next]_vars => LeaseStep
<1> SUFFICES ASSUME HubInv, HubInv', [Next]_vars PROVE LeaseStep
  OBVIOUS
<1>t. TypeOK /\ TypeOK' /\ LeaseHeld /\ lease \in LeaseRec /\ lease' \in LeaseRec
  BY DEF HubInv, TypeOK, LeaseRec
<1>u. ASSUME UNCHANGED lease, \A v \in Viewer : leg'[v] = "gate" <=> leg[v] = "gate"
      PROVE  LeaseStep
  BY <1>t, <1>u, AdmittedKept DEF LeaseStep
<1>k. ASSUME UNCHANGED legs PROVE Admitted' = Admitted
  BY <1>t, <1>k, AdmittedKept DEF legs
<1>1. CASE LeaseExpires \/ CooldownEnds
  <2>1. CASE LeaseExpires
    <3>1. ~lease'.alive /\ lease'.cool = lease.cool /\ UNCHANGED legs
      BY <2>1, <1>t DEF LeaseExpires, LeaseRec
    <3> QED BY <1>t, <1>k, <3>1, EndImplements
  <2>2. CASE CooldownEnds
    <3>1. /\ lease.cool /\ lease'.cool = FALSE /\ lease'.alive = lease.alive
          /\ lease'.holder = lease.holder /\ UNCHANGED legs
      BY <2>2, <1>t DEF CooldownEnds, LeaseRec
    <3>2. Lease!Cool
      BY <1>k, <3>1 DEF Lease!Cool, Holder, Admitted
    <3> QED BY <3>2 DEF Lease!Next, LeaseStep
  <2> QED BY <1>1, <2>1, <2>2
<1>2. CASE UNCHANGED <<lease, leg>>
  BY <1>u, <1>2
<1>3. ASSUME NEW s \in Session, DesktopStart(s) PROVE LeaseStep
  BY <1>3, <1>t, <1>k, GrantImplements DEF DesktopStart
<1>4. ASSUME NEW s \in Session, DropForKill(s) PROVE LeaseStep
  <2>1. Admitted' = Admitted
    BY <1>4, <1>t, AdmittedKept DEF DropForKill
  <2>2. lease' = Drop(lease, s) \/ lease' = lease
    BY <1>4 DEF DropForKill
  <2> QED BY <1>t, <2>1, <2>2, DropImplements DEF LeaseStep
<1>5. ASSUME NEW v \in Viewer, Dial(v) \/ AddViewer(v) \/ SendCachedConfig(v) \/ LegEnds(v)
      PROVE LeaseStep
  <2>1. UNCHANGED lease /\ \A w \in Viewer : leg'[w] = "gate" <=> leg[w] = "gate"
    BY <1>5, <1>t DEF Dial, AddViewer, SendCachedConfig, LegEnds, TypeOK
  <2> QED BY <1>u, <2>1
<1>6. ASSUME NEW v \in Viewer, Hello(v) PROVE LeaseStep
  <2>1. \A w \in Viewer : leg'[w] = "gate" <=> leg[w] = "gate"
    BY <1>6, <1>t DEF Hello, Reads, TypeOK
  <2>2. Admitted' = Admitted /\ SessionOf[v] \in Session
    BY <1>t, <2>1, AdmittedKept
  <2> QED BY <1>6, <1>t, <2>2, TouchImplements DEF Hello
<1>7. ASSUME NEW v \in Viewer, TouchViewer(v) PROVE LeaseStep
  <2>1. SessionOf[v] \in Session
    OBVIOUS
  <2> QED BY <1>7, <1>t, <1>k, <2>1, TouchImplements DEF TouchViewer
<1>8. ASSUME NEW v \in Viewer, TakeControl(v) PROVE LeaseStep
  <2>1. SessionOf[v] \in Session
    OBVIOUS
  <2> QED BY <1>8, <1>t, <1>k, <2>1, TakeImplements DEF TakeControl
<1>9. ASSUME NEW v \in Viewer, ReleaseControl(v) PROVE LeaseStep
  <2>1. SessionOf[v] \in Session /\ lease' = Drop(lease, SessionOf[v])
    BY <1>9 DEF ReleaseControl, Drop
  <2> QED BY <1>9, <1>t, <1>k, <2>1, DropImplements DEF ReleaseControl
<1>10. ASSUME NEW v \in Viewer, RemoveViewer(v) PROVE LeaseStep
  <2>1. \A w \in Viewer : leg'[w] = "gate" <=> leg[w] = "gate"
    BY <1>10, <1>t DEF RemoveViewer, TypeOK
  <2>2. Admitted' = Admitted /\ SessionOf[v] \in Session
    BY <1>t, <2>1, AdmittedKept
  <2> QED BY <1>10, <1>t, <2>2, DropImplements DEF RemoveViewer
<1>11. ASSUME NEW v \in Viewer, Input(v) PROVE LeaseStep
  <2>1. leg' = [leg EXCEPT ![v] = "gate"] /\ Holder(lease) = SessionOf[v] /\ UNCHANGED lease
    BY <1>11 DEF Input
  <2>2. Admitted' = Admitted \cup {SessionOf[v]}
    BY <1>t, <2>1 DEF Admitted, TypeOK
  <2>3. Lease!Admit
    BY <2>1, <2>2 DEF Lease!Admit, Holder, Admitted
  <2> QED BY <2>3 DEF Lease!Next, LeaseStep
<1>12. ASSUME NEW v \in Viewer, InputSent(v) PROVE LeaseStep
  <2>1. leg[v] = "gate" /\ leg' = [leg EXCEPT ![v] = "open"] /\ UNCHANGED lease
    BY <1>12 DEF InputSent
  <2>2. SessionOf[v] \in Admitted
    BY <2>1 DEF Admitted
  <2>3. CASE \E w \in Viewer \ {v} : leg[w] = "gate" /\ SessionOf[w] = SessionOf[v]
    <3>1. Admitted' = Admitted
      BY <1>t, <2>1, <2>3 DEF Admitted, TypeOK
    <3> QED BY <2>1, <3>1 DEF LeaseStep
  <2>4. CASE \A w \in Viewer \ {v} : leg[w] = "gate" => SessionOf[w] # SessionOf[v]
    <3>1. Admitted' = Admitted \ {SessionOf[v]}
      BY <1>t, <2>1, <2>4 DEF Admitted, TypeOK
    <3>2. Lease!Deliver
      BY <2>1, <2>2, <3>1 DEF Lease!Deliver, Admitted
    <3> QED BY <3>2 DEF Lease!Next, LeaseStep
  <2> QED BY <2>3, <2>4
<1> QED BY <1>1, <1>2, <1>3, <1>4, <1>5, <1>6, <1>7, <1>8, <1>9, <1>10, <1>11, <1>12
        DEF Next, TicketsAge, KillNode, KillSession, HostConnect, HostRefused, RegisterHost,
            MigrateViewers, CacheConfig, BroadcastConfig, UnregisterHost, BroadcastOffline,
            vars, legs

\* Hub and arbiter implement the lease: for any number of sessions, viewers and
\* hosts, one session controls at a time, a holder is displaced at most once
\* per cooldown, and input is admitted only while its session is in control.
THEOREM HubImplementsLease == Spec => LeaseSpec
<1>1. Init => Lease!Init
  BY DEF Init, Lease!Init, Holder, NoLease
<1>2. HubInv /\ HubInv' /\ [Next]_vars =>
          [Lease!Next]_<<Holder(lease), lease.cool,
                         {SessionOf[v] : v \in {w \in Viewer : leg[w] = "gate"}}>>
  BY HubStepImplements DEF LeaseStep, Admitted
<1> QED BY <1>1, <1>2, HubInvariant, PTL DEF Spec, LeaseSpec, Lease!Spec
=============================================================================
