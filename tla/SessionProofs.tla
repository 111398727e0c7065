---------------------------- MODULE SessionProofs ----------------------------
(***************************************************************************)
(* TLAPS proofs of the safety properties of SessionManager and of          *)
(* SessionPlane, for every set of nodes and sessions, every assignment of  *)
(* requests to sessions and every value of the timeouts and limits that    *)
(* the assumptions allow.  The first part is about the session table       *)
(* alone; in the second the server half of the plane is shown to implement *)
(* the table, a lone leg to have a timer always, and no end of a session   *)
(* at the relay to go unnoticed except with the control connection.        *)
(***************************************************************************)
EXTENDS SessionPlane, FiniteSetTheorems, TLAPS

USE RequestAssumption, TimeAssumption, LimitAssumption

-----------------------------------------------------------------------------
(* Types. *)

\* The initial state is well typed.
LEMMA InitType == Init => TypeOK
BY DEF Init, TypeOK, Phase, Timer, Leg

\* close preserves the types of what it writes, if the caller leaves a
\* well-typed timer.
LEMMA CloseType ==
    ASSUME NEW s \in Session, NEW remove \in BOOLEAN, NEW timer \in Timer,
           TypeOK, CloseLocked(s, remove, timer)
    PROVE  /\ ttl' \in [Session -> Timer]
           /\ table' \subseteq Session
           /\ closed' \subseteq Session
           /\ ending' \subseteq Session
           /\ hooked' \subseteq Session
           /\ lease' \in [Node -> Session \cup {NoSession}]
BY DEF TypeOK, CloseLocked

LEMMA NotifyType ==
    ASSUME NEW s \in Session, TypeOK, NotifyClose(s)
    PROVE  /\ ttl' \in [Session -> Timer]
           /\ table' \subseteq Session
           /\ closed' \subseteq Session
           /\ ending' \subseteq Session
           /\ hooked' \subseteq Session
           /\ lease' \in [Node -> Session \cup {NoSession}]
<1>1. CASE s \in table
  <2> DEFINE timer == IF s \in closed THEN ttl[s] ELSE Stopped(s)
  <2>1. timer \in Timer
    BY DEF TypeOK, Stopped, Timer
  <2>2. CloseLocked(s, TRUE, timer)
    BY <1>1 DEF NotifyClose
  <2> QED BY <2>1, <2>2, CloseType
<1>2. CASE s \notin table
  BY <1>2 DEF NotifyClose, TypeOK
<1> QED BY <1>1, <1>2

\* Every step, of the lease operations too, preserves the types.
LEMMA NextType == TypeOK /\ [ControlNext]_vars => TypeOK'
<1> SUFFICES ASSUME TypeOK, [ControlNext]_vars PROVE TypeOK'
  OBVIOUS
<1>1. ASSUME NEW s \in Session, Handler(s) PROVE TypeOK'
  <2>1. CASE Create(s)
    BY <2>1 DEF TypeOK, Create, Phase, Timer, Governed
  <2>2. CASE MarkRelayRouted(s)
    BY <2>2 DEF TypeOK, MarkRelayRouted, Phase, Timer, Stopped
  <2>3. CASE InstallHooks(s)
    BY <2>3 DEF TypeOK, InstallHooks, Phase
  <2>4. CASE SendOpen(s)
    BY <2>4 DEF TypeOK, SendOpen, Phase
  <2>5. CASE SendOpenFails(s)
    <3>1. NotifyClose(s)
      BY <2>5 DEF SendOpenFails
    <3> QED BY <2>5, <3>1, NotifyType DEF TypeOK, SendOpenFails, Phase
  <2> QED BY <1>1, <2>1, <2>2, <2>3, <2>4, <2>5 DEF Handler
<1>2. ASSUME NEW s \in Session, Peers(s) PROVE TypeOK'
  <2>1. ASSUME NEW side \in Side, Attach(s, side) PROVE TypeOK'
    BY <2>1 DEF TypeOK, Attach, Timer, Stopped, Leg
  <2>2. CASE PumpFrame(s)
    BY <2>2 DEF TypeOK, PumpFrame
  <2>3. CASE PumpError(s)
    <3>1. NotifyClose(s)
      BY <2>3 DEF PumpError
    <3> QED BY <2>3, <3>1, NotifyType DEF TypeOK, PumpError
  <2>4. CASE PeerClose(s)
    <3>1. NotifyClose(s)
      BY <2>4 DEF PeerClose
    <3> QED BY <2>4, <3>1, NotifyType DEF TypeOK, PeerClose
  <2>5. CASE TouchActivity(s)
    BY <2>5 DEF TypeOK, TouchActivity
  <2> QED BY <1>2, <2>1, <2>2, <2>3, <2>4, <2>5 DEF Peers
<1>3. ASSUME NEW s \in Session, Background(s) PROVE TypeOK'
  <2>1. CASE TimerFires(s)
    BY <2>1 DEF TypeOK, TimerFires, Timer
  <2>2. CASE Expire(s)
    BY <2>2 DEF TypeOK, Expire, Timer
  <2>3. CASE ExpireClose(s)
    <3>1. CloseLocked(s, FALSE, "retained") /\ "retained" \in Timer
      BY <2>3 DEF ExpireClose, Timer
    <3> QED BY <2>3, <3>1, CloseType DEF TypeOK, ExpireClose
  <2>4. CASE Reclaim(s)
    BY <2>4 DEF TypeOK, Reclaim, Timer
  <2>5. CASE CloseEnds(s)
    BY <2>5 DEF TypeOK, CloseEnds
  <2>6. CASE SweepClose(s)
    <3>1. NotifyClose(s)
      BY <2>6 DEF SweepClose
    <3> QED BY <2>6, <3>1, NotifyType DEF TypeOK, SweepClose
  <2> QED BY <1>3, <2>1, <2>2, <2>3, <2>4, <2>5, <2>6 DEF Background
<1>4. ASSUME NEW n \in Node, Reconnect(n) PROVE TypeOK'
  BY <1>4 DEF TypeOK, Reconnect
<1>5. CASE Sweep
  BY <1>5 DEF TypeOK, Sweep
<1>6. CASE Tick
  BY <1>6 DEF TypeOK, Tick, Older
<1>7. ASSUME NEW s \in Session,
             AttachClientRTV(s) \/ TakeDesktopControl(s) \/ ReleaseDesktopControl(s)
      PROVE  TypeOK'
  BY <1>7 DEF TypeOK, AttachClientRTV, TakeDesktopControl, ReleaseDesktopControl,
              Timer, Stopped
<1>8. CASE UNCHANGED vars
  BY <1>8 DEF TypeOK, vars
<1> QED BY <1>1, <1>2, <1>3, <1>4, <1>5, <1>6, <1>7, <1>8 DEF ControlNext, Next

\* Every variable keeps its type, with the exported lease operations in play.
THEOREM TypeCorrect == ControlSpec => []TypeOK
BY InitType, NextType, PTL DEF ControlSpec

-----------------------------------------------------------------------------
(***************************************************************************)
(* The life of one session: the inductive invariant behind                 *)
(* NoLegOutlivesClose, ExpiryNeverCutsPumped and EndAudited.  A session is *)
(* in the table from Create until close or, if it expired, until the       *)
(* delayed delete; expire has moved its deadline to the past by then, which*)
(* is what keeps late legs out; and no close comes before the hooks.       *)
(***************************************************************************)
Early == {"unborn", "created", "routed"}

Unborn(s) == phase[s] = "unborn" => s \notin table /\ s \notin closed /\ ttl[s] = "none"

\* While the hooks are not installed no timeout can be due.
Fresh(s) == phase[s] \in Early =>
    /\ left[s] = OpeningTTL /\ age[s] = 0
    /\ Governed(s) => idle[s] = 0
    /\ ttl[s] \in {"none", "armed", "off"}
    /\ s \notin doomed /\ s \notin closed
    /\ Legs(s) \cap attached = {}

Tabled(s) ==
    /\ phase[s] # "unborn" /\ s \notin closed => s \in table
    /\ phase[s] = "failed" => s \in closed

\* What is closed and kept, or about to be, has passed its deadline.
Expired(s) ==
    /\ ttl[s] \in {"expiring", "retained"} => left[s] = -1
    /\ ttl[s] = "retained" => s \in closed
    /\ s \in closed /\ s \in table => left[s] = -1

Ended(s) ==
    /\ s \in ending => s \in closed
    /\ s \in closed => s \in hooked
    /\ s \in closed \ ending => s \in finished /\ Legs(s) \cap live = {}

Pumped(s) ==
    /\ Legs(s) \subseteq attached => s \in glued
    /\ ttl[s] \in {"expiring", "retained"} => ~(Legs(s) \subseteq attached)

Life(s) == Unborn(s) /\ Fresh(s) /\ Tabled(s) /\ Expired(s) /\ Ended(s) /\ Pumped(s)

LifeInv == \A s \in Session : Life(s)

LEMMA InitLife == Init => LifeInv
BY DEF Init, LifeInv, Life, Unborn, Fresh, Tabled, Expired, Ended, Pumped, Early,
       Governed, Legs

\* Closing a session with its hooks installed, and out of the table or past
\* its deadline, keeps the invariant of every session.
LEMMA CloseLife ==
    ASSUME NEW s \in Session, NEW t \in Session, NEW remove \in BOOLEAN,
           NEW timer \in Timer,
           TypeOK, Life(t), CloseLocked(s, remove, timer),
           UNCHANGED <<glued, left, attached, live, idle, age, finished>>,
           doomed' \subseteq doomed,
           s = t => \/ phase[s] \in {"hooked", "open"}
                    \/ s \in closed,
           s # t => phase'[t] = phase[t],
           s = t => phase'[t] \notin Early,
           s = t /\ s \notin closed => remove \/ left[s] = -1,
           s = t => \/ timer \notin {"expiring", "retained"}
                    \/ left[s] = -1 /\ ~(Legs(s) \subseteq attached)
    PROVE  Life(t)'
<1>1. CASE s # t
  BY <1>1 DEF TypeOK, Life, CloseLocked, Unborn, Fresh, Tabled, Expired, Ended,
              Pumped, Early, Governed, Legs
<1>2. CASE s = t /\ s \in closed
  BY <1>2 DEF TypeOK, Life, CloseLocked, Unborn, Fresh, Tabled, Expired, Ended,
              Pumped, Early, Governed, Legs
<1>3. CASE s = t /\ s \notin closed
  BY <1>3 DEF TypeOK, Life, CloseLocked, Unborn, Fresh, Tabled, Expired, Ended,
              Pumped, Early, Governed, Legs
<1> QED BY <1>1, <1>2, <1>3

\* NotifyClose, by whatever party, keeps the invariant.
LEMMA NotifyLife ==
    ASSUME NEW s \in Session, NEW t \in Session,
           TypeOK, Life(s), Life(t), NotifyClose(s), phase[s] \notin Early,
           UNCHANGED <<glued, left, attached, live, idle, age, finished>>,
           doomed' \subseteq doomed,
           \/ phase' = phase
           \/ phase[s] = "hooked" /\ phase' = [phase EXCEPT ![s] = "failed"]
    PROVE  Life(t)'
<1>1. CASE s \in table
  <2> DEFINE timer == IF s \in closed THEN ttl[s] ELSE Stopped(s)
  <2>1. timer \in Timer
    BY DEF TypeOK, Stopped, Timer
  <2>2. CloseLocked(s, TRUE, timer)
    BY <1>1 DEF NotifyClose
  <2>3. \/ phase[s] \in {"hooked", "open"}
        \/ s \in closed
    BY DEF TypeOK, Phase, Early, Life, Tabled
  <2>4. \/ timer \notin {"expiring", "retained"}
        \/ left[s] = -1 /\ ~(Legs(s) \subseteq attached)
    BY DEF Life, Expired, Pumped, Stopped
  <2>5. phase'[s] \notin Early /\ (s # t => phase'[t] = phase[t])
    BY DEF TypeOK, Early
  <2> HIDE DEF timer
  <2> QED BY <2>1, <2>2, <2>3, <2>4, <2>5, CloseLife
<1>2. CASE s \notin table
  <2>1. s \in closed
    BY <1>2 DEF Life, Tabled, Early
  <2> QED BY <1>2, <2>1 DEF NotifyClose, TypeOK, Life, Unborn, Fresh, Tabled, Expired,
                            Ended, Pumped, Early, Governed, Legs
<1> QED BY <1>1, <1>2

\* Every step, of the lease operations too, keeps the invariant.
LEMMA NextLife == TypeOK /\ LifeInv /\ [ControlNext]_vars => LifeInv'
<1> SUFFICES ASSUME TypeOK, LifeInv, [ControlNext]_vars, NEW t \in Session
             PROVE  Life(t)'
  BY DEF LifeInv
<1>0. \A s \in Session : Life(s)
  BY DEF LifeInv
<1>t. Life(t)
  BY <1>0
<1>1. ASSUME NEW s \in Session, Handler(s) PROVE Life(t)'
  <2>0. Life(s)
    BY <1>0
  <2>1. CASE Create(s)
    BY <2>0, <2>1, <1>t DEF Create, TypeOK, Life, Unborn, Fresh, Tabled,
         Expired, Ended, Pumped, Early, Governed, Legs
  <2>2. CASE MarkRelayRouted(s)
    BY <2>0, <2>2, <1>t DEF MarkRelayRouted, Stopped, TypeOK, Life, Unborn, Fresh, Tabled,
         Expired, Ended, Pumped, Early, Governed, Legs
  <2>3. CASE InstallHooks(s)
    BY <2>0, <2>3, <1>t DEF InstallHooks, TypeOK, Life, Unborn, Fresh, Tabled,
         Expired, Ended, Pumped, Early, Governed, Legs
  <2>4. CASE SendOpen(s)
    BY <2>0, <2>4, <1>t DEF SendOpen, TypeOK, Life, Unborn, Fresh, Tabled,
         Expired, Ended, Pumped, Early, Governed, Legs
  <2>5. CASE SendOpenFails(s)
    <3>1. NotifyClose(s) /\ phase[s] \notin Early
      BY <2>0, <2>5 DEF SendOpenFails, Early
    <3> QED BY <2>0, <2>5, <3>1, <1>t, NotifyLife DEF SendOpenFails
  <2> QED BY <1>1, <2>1, <2>2, <2>3, <2>4, <2>5 DEF Handler
<1>2. ASSUME NEW s \in Session, Peers(s) PROVE Life(t)'
  <2>0. Life(s)
    BY <1>0
  <2>1. ASSUME NEW side \in Side, Attach(s, side) PROVE Life(t)'
    BY <2>0, <2>1, <1>t DEF Attach, Side, Stopped, TypeOK, Life, Unborn, Fresh,
         Tabled, Expired, Ended, Pumped, Early, Governed, Legs
  <2>2. CASE PumpFrame(s)
    BY <2>0, <2>2, <1>t DEF PumpFrame, TypeOK, Life, Unborn, Fresh, Tabled,
         Expired, Ended, Pumped, Early, Governed, Legs
  <2>3. CASE PumpError(s)
    <3>1. NotifyClose(s) /\ phase[s] \notin Early
      BY <2>0, <2>3 DEF PumpError, Early, Life, Fresh, Legs
    <3> QED BY <2>0, <2>3, <3>1, <1>t, NotifyLife DEF PumpError
  <2>4. CASE PeerClose(s)
    <3>1. NotifyClose(s) /\ phase[s] \notin Early
      BY <2>0, <2>4 DEF PeerClose, Early
    <3> QED BY <2>0, <2>4, <3>1, <1>t, NotifyLife DEF PeerClose
  <2>5. CASE TouchActivity(s)
    BY <2>0, <2>5, <1>t DEF TouchActivity, TypeOK, Life, Unborn, Fresh, Tabled,
         Expired, Ended, Pumped, Early, Governed, Legs
  <2> QED BY <1>2, <2>1, <2>2, <2>3, <2>4, <2>5 DEF Peers
<1>3. ASSUME NEW s \in Session, Background(s) PROVE Life(t)'
  <2>0. Life(s)
    BY <1>0
  <2>1. CASE TimerFires(s)
    BY <2>0, <2>1, <1>t DEF TimerFires, TypeOK, Life, Unborn, Fresh, Tabled,
         Expired, Ended, Pumped, Early, Governed, Legs
  <2>2. CASE Expire(s)
    BY <2>0, <2>2, <1>t DEF Expire, TypeOK, Life, Unborn, Fresh, Tabled,
         Expired, Ended, Pumped, Early, Governed, Legs
  <2>3. CASE ExpireClose(s)
    <3>1. /\ CloseLocked(s, FALSE, "retained")
          /\ "retained" \in Timer
          /\ left[s] = -1 /\ ~(Legs(s) \subseteq attached)
          /\ phase[s] \notin Early
      BY <2>0, <2>3 DEF ExpireClose, Timer, Life, Expired, Pumped, Fresh
    <3>2. phase[s] \in {"hooked", "open"} \/ s \in closed
      BY <2>0, <3>1 DEF TypeOK, Phase, Early, Life, Tabled
    <3> QED BY <2>3, <3>1, <3>2, <1>t, CloseLife DEF ExpireClose
  <2>4. CASE Reclaim(s)
    BY <2>0, <2>4, <1>t DEF Reclaim, TypeOK, Life, Unborn, Fresh, Tabled,
         Expired, Ended, Pumped, Early, Governed, Legs
  <2>5. CASE CloseEnds(s)
    BY <2>0, <2>5, <1>t DEF CloseEnds, TypeOK, Life, Unborn, Fresh, Tabled,
         Expired, Ended, Pumped, Early, Governed, Legs
  <2>6. CASE SweepClose(s)
    <3>1. NotifyClose(s) /\ phase[s] \notin Early
      BY <2>0, <2>6 DEF SweepClose, Early, Life, Fresh
    <3> QED BY <2>0, <2>6, <3>1, <1>t, NotifyLife DEF SweepClose
  <2> QED BY <1>3, <2>1, <2>2, <2>3, <2>4, <2>5, <2>6 DEF Background
<1>4. ASSUME NEW n \in Node, Reconnect(n) PROVE Life(t)'
  BY <1>4, <1>t DEF Reconnect, TypeOK, Life, Unborn, Fresh, Tabled, Expired, Ended,
                    Pumped, Early, Governed, Legs
<1>5. CASE Sweep
  BY <1>5, <1>t DEF Sweep, SweepDue, TypeOK, Life, Unborn, Fresh, Tabled, Expired, Ended,
                    Pumped, Early, Governed, Legs
<1>6. CASE Tick
  BY <1>6, <1>t DEF Tick, HandlerBusy, TypeOK, Life, Unborn, Fresh, Tabled, Expired,
                    Ended, Pumped, Early, Governed, Legs
<1>7. ASSUME NEW s \in Session,
             AttachClientRTV(s) \/ TakeDesktopControl(s) \/ ReleaseDesktopControl(s)
      PROVE  Life(t)'
  BY <1>7, <1>t DEF AttachClientRTV, TakeDesktopControl, ReleaseDesktopControl, Stopped,
                    TypeOK, Life, Unborn, Fresh, Tabled, Expired, Ended, Pumped, Early,
                    Governed, Legs
<1>8. CASE UNCHANGED vars
  BY <1>8, <1>t DEF vars, Life, Unborn, Fresh, Tabled, Expired, Ended, Pumped, Early,
                    Governed, Legs
<1> QED BY <1>1, <1>2, <1>3, <1>4, <1>5, <1>6, <1>7, <1>8 DEF ControlNext, Next

\* What the Opening timer, the pump, the agent, the relay, the janitor and
\* the handler may do to a session in any order never leaves a leg open after
\* its close, never times out a session with both legs, and never ends a
\* session without its finish hook (manager.go: attach, expire, close).
THEOREM SessionLifeSafe ==
    ControlSpec => [](NoLegOutlivesClose /\ ExpiryNeverCutsPumped /\ EndAudited)
<1>1. TypeOK /\ LifeInv => NoLegOutlivesClose /\ ExpiryNeverCutsPumped /\ EndAudited
  BY DEF TypeOK, LifeInv, Life, Ended, Pumped, NoLegOutlivesClose,
         ExpiryNeverCutsPumped, EndAudited
<1> QED BY <1>1, InitType, NextType, InitLife, NextLife, PTL DEF ControlSpec

\* Of these, that every session that has ended ran its finish hook, whoever
\* ended it and however early (startSession, close).
THEOREM EndsAudited == ControlSpec => []EndAudited
BY SessionLifeSafe, PTL

-----------------------------------------------------------------------------
(* The desktop lease, without the exported take and release operations. *)

LEMMA CloseLease ==
    ASSUME NEW s \in Session, NEW remove \in BOOLEAN, NEW timer \in Timer,
           TypeOK, LeaseHolderLive, CloseLocked(s, remove, timer)
    PROVE  LeaseHolderLive'
BY DEF TypeOK, LeaseHolderLive, CloseLocked

LEMMA NotifyLease ==
    ASSUME NEW s \in Session, TypeOK, LeaseHolderLive, NotifyClose(s)
    PROVE  LeaseHolderLive'
<1>1. CASE s \in table
  <2> DEFINE timer == IF s \in closed THEN ttl[s] ELSE Stopped(s)
  <2>1. timer \in Timer
    BY DEF TypeOK, Stopped, Timer
  <2>2. CloseLocked(s, TRUE, timer)
    BY <1>1 DEF NotifyClose
  <2> QED BY <2>1, <2>2, CloseLease
<1>2. CASE s \notin table
  BY <1>2 DEF NotifyClose, LeaseHolderLive
<1> QED BY <1>1, <1>2

\* A step of the deployed system keeps the lease with a live session.
LEMMA NextLease == TypeOK /\ LifeInv /\ LeaseHolderLive /\ [Next]_vars => LeaseHolderLive'
<1> SUFFICES ASSUME TypeOK, LifeInv, LeaseHolderLive, [Next]_vars PROVE LeaseHolderLive'
  OBVIOUS
<1>1. ASSUME NEW s \in Session, Create(s) PROVE LeaseHolderLive'
  <2>1. s \notin closed
    BY <1>1 DEF LifeInv, Life, Unborn, Create
  <2> QED BY <1>1, <2>1 DEF Create, TypeOK, LeaseHolderLive
<1>2. ASSUME NEW s \in Session,
             \/ SendOpenFails(s) \/ PumpError(s) \/ PeerClose(s) \/ SweepClose(s)
      PROVE  LeaseHolderLive'
  BY <1>2, NotifyLease DEF SendOpenFails, PumpError, PeerClose, SweepClose
<1>3. ASSUME NEW s \in Session, ExpireClose(s) PROVE LeaseHolderLive'
  BY <1>3, CloseLease DEF ExpireClose, Timer
<1>4. ASSUME NEW s \in Session, Reclaim(s) PROVE LeaseHolderLive'
  <2>1. s \in closed
    BY <1>4 DEF LifeInv, Life, Expired, Reclaim
  <2> QED BY <1>4, <2>1 DEF Reclaim, LeaseHolderLive
<1>5. ASSUME NEW s \in Session,
             \/ MarkRelayRouted(s) \/ InstallHooks(s) \/ SendOpen(s)
             \/ \E side \in Side : Attach(s, side)
             \/ PumpFrame(s) \/ TouchActivity(s)
             \/ TimerFires(s) \/ Expire(s) \/ CloseEnds(s)
      PROVE  LeaseHolderLive'
  BY <1>5 DEF LeaseHolderLive, MarkRelayRouted, InstallHooks, SendOpen, Attach,
              PumpFrame, TouchActivity, TimerFires, Expire, CloseEnds
<1>6. CASE Sweep
  BY <1>6 DEF Sweep, TypeOK, LeaseHolderLive
<1>7. CASE Tick \/ (\E n \in Node : Reconnect(n)) \/ UNCHANGED vars
  BY <1>7 DEF Tick, Reconnect, vars, LeaseHolderLive
<1> QED BY <1>1, <1>2, <1>3, <1>4, <1>5, <1>6, <1>7 DEF Next, Handler, Peers, Background

\* The input lease of a node is never held by a closed session, by a session
\* that is out of the table, or by one of another node: close releases it and
\* the delayed delete comes after close.
THEOREM LeaseSafe == Spec => []LeaseHolderLive
<1>1. Init => LeaseHolderLive
  BY DEF Init, LeaseHolderLive
<1>2. Next => ControlNext
  BY DEF ControlNext
<1> QED BY <1>1, <1>2, InitType, NextType, InitLife, NextLife, NextLease, PTL DEF Spec

\* No step of the deployed system takes the lease of a holder that was active
\* within the lease TTL, except the close of that holder: neither the passive
\* grant of Create nor the janitor.
THEOREM ActiveHolderSafe == Spec => ActiveHolderKeepsLease
<1> DEFINE Keeps == \A n \in Node : \A s \in table \ closed :
                       lease[n] = s /\ idle[s] <= DesktopLeaseTTL
                          => lease'[n] = s \/ s \in closed'
<1>1. TypeOK /\ [Next]_vars => Keeps
  <2> SUFFICES ASSUME TypeOK, [Next]_vars, NEW n \in Node, NEW t \in table \ closed,
                      lease[n] = t, idle[t] <= DesktopLeaseTTL
               PROVE  lease'[n] = t \/ t \in closed'
    OBVIOUS
  <2>0. holderAlive(n)
    BY DEF holderAlive
  <2>1. ASSUME NEW s \in Session, Create(s) PROVE lease'[n] = t
    BY <2>0, <2>1 DEF Create, TypeOK
  <2>2. ASSUME NEW s \in Session,
               \/ SendOpenFails(s) \/ PumpError(s) \/ PeerClose(s) \/ SweepClose(s)
               \/ ExpireClose(s)
        PROVE  lease'[n] = t \/ t \in closed'
    BY <2>2 DEF SendOpenFails, PumpError, PeerClose, SweepClose, ExpireClose,
                NotifyClose, CloseLocked, TypeOK
  <2>3. ASSUME NEW s \in Session,
               \/ MarkRelayRouted(s) \/ InstallHooks(s) \/ SendOpen(s)
               \/ \E side \in Side : Attach(s, side)
               \/ PumpFrame(s) \/ TouchActivity(s) \/ Reclaim(s)
               \/ TimerFires(s) \/ Expire(s) \/ CloseEnds(s)
        PROVE  lease'[n] = t
    BY <2>3 DEF MarkRelayRouted, InstallHooks, SendOpen, Attach, PumpFrame,
                TouchActivity, Reclaim, TimerFires, Expire, CloseEnds
  <2>4. CASE Sweep
    BY <2>0, <2>4 DEF Sweep
  <2>5. CASE Tick \/ (\E m \in Node : Reconnect(m)) \/ UNCHANGED vars
    BY <2>5 DEF Tick, Reconnect, vars
  <2> QED BY <2>1, <2>2, <2>3, <2>4, <2>5 DEF Next, Handler, Peers, Background
<1>2. Next => ControlNext
  BY DEF ControlNext
<1> QED BY <1>1, <1>2, InitType, NextType, PTL DEF Spec, ActiveHolderKeepsLease

-----------------------------------------------------------------------------
(* The per-node limits. *)

Limit(k) == IF k = "shell" THEN ShellPerNode ELSE DesktopPerNode

Of(n, k, S) == {s \in S : NodeOf[s] = n /\ KindOf[s] = k}

WithinLimits(S) ==
    /\ IsFiniteSet(S)
    /\ \A n \in Node, k \in {"shell", "desktop"} :
          Limit(k) > 0 => Cardinality(Of(n, k, S)) <= Limit(k)

\* Removing sessions from the table keeps it within the limits.
LEMMA FewerWithin ==
    ASSUME NEW S, NEW T \in SUBSET S, WithinLimits(S)
    PROVE  WithinLimits(T)
<1>1. IsFiniteSet(T)
  BY FS_Subset DEF WithinLimits
<1>2. ASSUME NEW n \in Node, NEW k \in {"shell", "desktop"}, Limit(k) > 0
      PROVE  Cardinality(Of(n, k, T)) <= Limit(k)
  <2>1. Of(n, k, T) \subseteq Of(n, k, S) /\ Of(n, k, S) \subseteq S
    BY DEF Of
  <2>2. IsFiniteSet(Of(n, k, S))
    BY <2>1, FS_Subset DEF WithinLimits
  <2>3. /\ Cardinality(Of(n, k, T)) \in Nat /\ Cardinality(Of(n, k, S)) \in Nat
        /\ Cardinality(Of(n, k, T)) <= Cardinality(Of(n, k, S))
    BY <2>1, <2>2, FS_Subset, FS_CardinalityType
  <2>4. Cardinality(Of(n, k, S)) <= Limit(k)
    BY <1>2 DEF WithinLimits
  <2>5. Limit(k) \in Nat
    BY DEF Limit
  <2> QED BY <2>3, <2>4, <2>5
<1> QED BY <1>1, <1>2 DEF WithinLimits

\* Create adds one session, and only below the limit of its kind.
LEMMA OneMoreWithin ==
    ASSUME NEW s \in Session, table \subseteq Session, WithinLimits(table), UnderLimit(s)
    PROVE  WithinLimits(table \cup {s})
<1>1. IsFiniteSet(table \cup {s})
  BY FS_AddElement DEF WithinLimits
<1>2. ASSUME NEW n \in Node, NEW k \in {"shell", "desktop"}, Limit(k) > 0
      PROVE  Cardinality(Of(n, k, table \cup {s})) <= Limit(k)
  <2>0. /\ IsFiniteSet(Of(n, k, table))
        /\ Cardinality(Of(n, k, table)) \in Nat
        /\ Limit(k) \in Nat
        /\ Cardinality(Of(n, k, table)) <= Limit(k)
    <3>1. Of(n, k, table) \subseteq table
      BY DEF Of
    <3>2. IsFiniteSet(Of(n, k, table))
      BY <3>1, FS_Subset DEF WithinLimits
    <3> QED BY <1>2, <3>2, FS_CardinalityType DEF WithinLimits, Limit
  <2>1. CASE NodeOf[s] = n /\ KindOf[s] = k
    <3>1. Of(n, k, table \cup {s}) = Of(n, k, table) \cup {s}
      BY <2>1 DEF Of
    <3>2. Cardinality(Of(n, k, table)) < Limit(k)
      <4>1. countByNode(n, k) = Cardinality(Of(n, k, table))
        BY DEF countByNode, Of
      <4> QED BY <1>2, <2>1, <4>1 DEF UnderLimit, Limit
    <3>3. \/ Cardinality(Of(n, k, table) \cup {s}) = Cardinality(Of(n, k, table)) + 1
          \/ Cardinality(Of(n, k, table) \cup {s}) = Cardinality(Of(n, k, table))
      BY <2>0, FS_AddElement
    <3> QED BY <2>0, <3>1, <3>2, <3>3
  <2>2. CASE ~(NodeOf[s] = n /\ KindOf[s] = k)
    <3>1. Of(n, k, table \cup {s}) = Of(n, k, table)
      BY <2>2 DEF Of
    <3> QED BY <2>0, <3>1
  <2> QED BY <2>1, <2>2
<1> QED BY <1>1, <1>2 DEF WithinLimits

\* Only Create adds to the table.
LEMMA NextWithin ==
    TypeOK /\ WithinLimits(table) /\ [ControlNext]_vars => WithinLimits(table)'
<1> SUFFICES ASSUME TypeOK, WithinLimits(table), [ControlNext]_vars
             PROVE  WithinLimits(table')
  BY DEF WithinLimits, Of, Limit
<1>1. ASSUME NEW s \in Session, Create(s) PROVE WithinLimits(table')
  BY <1>1, OneMoreWithin DEF Create, TypeOK
<1>2. ASSUME NEW s \in Session,
             \/ SendOpenFails(s) \/ PumpError(s) \/ PeerClose(s) \/ SweepClose(s)
             \/ ExpireClose(s) \/ Reclaim(s)
      PROVE  table' \subseteq table
  BY <1>2 DEF SendOpenFails, PumpError, PeerClose, SweepClose, ExpireClose, Reclaim,
              NotifyClose, CloseLocked
<1>3. ASSUME NEW s \in Session,
             \/ MarkRelayRouted(s) \/ InstallHooks(s) \/ SendOpen(s)
             \/ \E side \in Side : Attach(s, side)
             \/ PumpFrame(s) \/ TouchActivity(s)
             \/ TimerFires(s) \/ Expire(s) \/ CloseEnds(s)
             \/ AttachClientRTV(s) \/ TakeDesktopControl(s) \/ ReleaseDesktopControl(s)
      PROVE  table' \subseteq table
  BY <1>3 DEF MarkRelayRouted, InstallHooks, SendOpen, Attach, PumpFrame, TouchActivity,
              TimerFires, Expire, CloseEnds, AttachClientRTV, TakeDesktopControl,
              ReleaseDesktopControl
<1>4. CASE Sweep \/ Tick \/ (\E n \in Node : Reconnect(n)) \/ UNCHANGED vars
  BY <1>4, FewerWithin DEF Sweep, Tick, Reconnect, vars
<1> QED BY <1>1, <1>2, <1>3, <1>4, FewerWithin
        DEF ControlNext, Next, Handler, Peers, Background

\* However many creates race, the shells and desktops of a node stay within
\* its limits (manager.go: the limit check and the insertion under one lock).
THEOREM LimitsSafe == ControlSpec => []NodeLimits
<1>1. Init => WithinLimits(table)
  <2> SUFFICES ASSUME table = {} PROVE WithinLimits(table)
    BY DEF Init
  <2>1. \A n \in Node, k \in {"shell", "desktop"} : Of(n, k, table) = {}
    BY DEF Of
  <2>2. IsFiniteSet({}) /\ Cardinality({}) = 0
    BY FS_EmptySet
  <2>3. \A k : Limit(k) \in Nat
    BY DEF Limit
  <2>4. IsFiniteSet(table)
    BY <2>2
  <2>5. ASSUME NEW n \in Node, NEW k \in {"shell", "desktop"}
        PROVE  Cardinality(Of(n, k, table)) <= Limit(k)
    <3>1. Cardinality(Of(n, k, table)) = 0
      <4>1. Of(n, k, table) = {}
        BY <2>1
      <4> QED BY <4>1, <2>2
    <3>2. Limit(k) \in Nat
      BY <2>3
    <3> QED BY <3>1, <3>2
  <2> QED BY <2>4, <2>5 DEF WithinLimits
<1>2. WithinLimits(table) => NodeLimits
  <2> SUFFICES ASSUME WithinLimits(table), NEW n \in Node
               PROVE  /\ ShellPerNode > 0 => countByNode(n, "shell") <= ShellPerNode
                      /\ DesktopPerNode > 0 => countByNode(n, "desktop") <= DesktopPerNode
    BY DEF NodeLimits
  <2>1. \A k : countByNode(n, k) = Cardinality(Of(n, k, table))
    BY DEF countByNode, Of
  <2>2. Limit("shell") = ShellPerNode /\ Limit("desktop") = DesktopPerNode
    BY DEF Limit
  <2> QED BY <2>1, <2>2 DEF WithinLimits
<1> QED BY <1>1, <1>2, NextWithin, InitType, NextType, PTL DEF ControlSpec

-----------------------------------------------------------------------------
(* The plane. *)

USE PlaneAssumption

-----------------------------------------------------------------------------
(* Refinement: every step of the plane is a step of the table or leaves the *)
(* table unchanged.                                                         *)

LEMMA PlaneStepIsTableStep == PlaneTypeOK /\ [PlaneNext]_planeVars => [Next]_vars
<1> SUFFICES ASSUME PlaneTypeOK, [PlaneNext]_planeVars PROVE [Next]_vars
  OBVIOUS
<1>1. CASE ServerStep
  BY <1>1 DEF ServerStep, Next, Handler, Peers, Background
<1>2. ASSUME NEW s \in Session, RouteViaRelay(s) PROVE Next
  BY <1>2 DEF RouteViaRelay, Next, Handler
<1>3. ASSUME NEW s \in Session, FinishKills(s) PROVE Next
  BY <1>3 DEF FinishKills, Next, Background
<1>4. CASE RelayStep \/ UNCHANGED planeVars
  BY <1>4 DEF RelayStep, VerifyLeg, RouterAttach, RouterPumpEnds, WaitExpires, ReportStats,
              RelayReceives, LinkDrops, LinkReturns, RelayRestarts, planeVars
<1>5. CASE ServerReceives
  <2> DEFINE s == Head(toServer).sid
  <2>1. CASE s \notin table
    BY <1>5, <2>1 DEF ServerReceives
  <2>2. CASE s \in table
    <3>1. TouchActivity(s) \/ PeerClose(s)
      BY <1>5, <2>2 DEF ServerReceives
    <3>2. s \in Session
      BY <1>5, <2>2 DEF PlaneTypeOK, TypeOK
    <3> QED BY <3>1, <3>2 DEF Next, Peers
  <2> QED BY <2>1, <2>2
<1> QED BY <1>1, <1>2, <1>3, <1>4, <1>5 DEF PlaneNext

-----------------------------------------------------------------------------
(* Types of the relay and of the connection. *)

LEMMA InitPlaneType == PlaneInit => PlaneTypeOK
BY InitType DEF PlaneInit, PlaneTypeOK

\* The relay's half of the type invariant.
RelayTypeOK ==
    /\ routed \subseteq Session
    /\ link \in {"up", "down"}
    /\ toRelay \in Seq(Session)
    /\ toServer \in Seq(Report)
    /\ tomb \subseteq Session
    /\ verified \subseteq Leg
    /\ rlegs \subseteq Leg
    /\ entry \subseteq Session
    /\ rglued \subseteq entry
    /\ waits \in [Session -> Nat]
    /\ dials \in [Session -> 0..MaxDials]
    /\ dialed \subseteq Session
    /\ lost \subseteq Session

LEMMA PlaneTypeSplit == PlaneTypeOK <=> TypeOK /\ RelayTypeOK
BY DEF PlaneTypeOK, RelayTypeOK

LEMMA NextRelayType == PlaneTypeOK /\ [PlaneNext]_planeVars => RelayTypeOK'
<1> SUFFICES ASSUME PlaneTypeOK, [PlaneNext]_planeVars PROVE RelayTypeOK'
  OBVIOUS
<1>r. RelayTypeOK
  BY PlaneTypeSplit
<1>1. CASE UNCHANGED relayVars
  BY <1>r, <1>1 DEF relayVars, RelayTypeOK
<1>2. ASSUME NEW s \in Session, RouteViaRelay(s) PROVE RelayTypeOK'
  BY <1>r, <1>2 DEF RouteViaRelay, RelayTypeOK
<1>3. ASSUME NEW s \in Session, FinishKills(s) PROVE RelayTypeOK'
  BY <1>r, <1>3 DEF FinishKills, RelayTypeOK
<1>4. CASE ServerReceives
  BY <1>r, <1>4 DEF ServerReceives, RelayTypeOK
<1>5. ASSUME NEW s \in Session, NEW side \in Side, VerifyLeg(s, side) PROVE RelayTypeOK'
  BY <1>r, <1>5 DEF VerifyLeg, RelayTypeOK, Leg
<1>6. ASSUME NEW s \in Session, NEW side \in Side, RouterAttach(s, side) PROVE RelayTypeOK'
  <2>1. <<s, side>> \in Leg
    BY DEF Leg
  <2>2. waits' \in [Session -> Nat] /\ verified' \subseteq Leg
    <3>1. waits \in [Session -> Nat] /\ verified \subseteq Leg
      BY <1>r DEF RelayTypeOK
    <3>2. verified' \subseteq verified
      BY <1>6 DEF RouterAttach
    <3>3. waits' = waits \/ waits' = [waits EXCEPT ![s] = @ + 1]
      BY <1>6 DEF RouterAttach
    <3> QED BY <3>1, <3>2, <3>3
  <2>3. /\ rlegs' \subseteq Leg /\ entry' \subseteq Session
        /\ rglued' \subseteq entry' /\ dialed' \subseteq Session
    BY <1>r, <1>6, <2>1 DEF RouterAttach, RelayTypeOK
  <2> QED BY <1>r, <1>6, <2>2, <2>3 DEF RouterAttach, RelayTypeOK
<1>7. ASSUME NEW s \in Session, RouterPumpEnds(s) \/ WaitExpires(s) PROVE RelayTypeOK'
  <2>1. Closed(s) \in Report
    BY DEF Closed, Report
  <2>2. ReportClosed(s) => toServer' \in Seq(Report) /\ lost' \subseteq Session
    <3>1. toServer \in Seq(Report) /\ lost \subseteq Session
      BY <1>r DEF RelayTypeOK
    <3>2. Append(toServer, Closed(s)) \in Seq(Report)
      BY <2>1, <3>1
    <3> QED BY <3>1, <3>2 DEF ReportClosed
  <2>3. DropEntry(s) => rlegs' \subseteq Leg /\ entry' \subseteq Session /\ rglued' \subseteq entry'
    BY <1>r DEF DropEntry, RelayTypeOK
  <2>4. CASE RouterPumpEnds(s)
    BY <1>r, <2>2, <2>3, <2>4 DEF RouterPumpEnds, RelayTypeOK
  <2>5. CASE WaitExpires(s)
    BY <1>r, <2>2, <2>3, <2>5 DEF WaitExpires, RelayTypeOK
  <2> QED BY <1>7, <2>4, <2>5
<1>8. ASSUME NEW s \in Session, ReportStats(s) PROVE RelayTypeOK'
  <2>1. Stats(s) \in Report
    BY DEF Stats, Report
  <2> QED BY <1>r, <1>8, <2>1 DEF ReportStats, RelayTypeOK
<1>9. CASE RelayReceives
  BY <1>r, <1>9 DEF RelayReceives, DropEntry, RelayTypeOK
<1>10. CASE LinkDrops
  <2>1. lost' \subseteq Session
    BY <1>r, <1>10 DEF LinkDrops, RelayTypeOK
  <2> QED BY <1>r, <1>10, <2>1 DEF LinkDrops, RelayTypeOK
<1>11. CASE LinkReturns
  BY <1>r, <1>11 DEF LinkReturns, RelayTypeOK
<1>12. CASE RelayRestarts
  <2>1. lost' \subseteq Session
    BY <1>r, <1>12 DEF RelayRestarts, RelayTypeOK
  <2> QED BY <1>r, <1>12, <2>1 DEF RelayRestarts, RelayTypeOK
<1> QED BY <1>1, <1>2, <1>3, <1>4, <1>5, <1>6, <1>7, <1>8, <1>9, <1>10, <1>11, <1>12
        DEF PlaneNext, RelayStep, planeVars, relayVars

LEMMA NextPlaneType == PlaneTypeOK /\ [PlaneNext]_planeVars => PlaneTypeOK'
<1> SUFFICES ASSUME PlaneTypeOK, [PlaneNext]_planeVars PROVE PlaneTypeOK'
  OBVIOUS
<1>1. [ControlNext]_vars
  BY PlaneStepIsTableStep DEF ControlNext
<1>2. TypeOK'
  BY <1>1, NextType, PlaneTypeSplit
<1>3. RelayTypeOK'
  BY NextRelayType
<1> QED BY <1>2, <1>3 DEF PlaneTypeOK, RelayTypeOK

\* Every variable of the composed system keeps its type.
THEOREM PlaneTypeCorrect == PlaneSpec => []PlaneTypeOK
BY InitPlaneType, NextPlaneType, PTL DEF PlaneSpec

\* The server's half of the plane implements the session table: whatever the
\* relay reports, in whatever order and with whatever losses, and so every
\* safety theorem of the table holds in the plane.
THEOREM PlaneImplementsTable == PlaneSpec => TableSpec
<1>1. PlaneInit => Init
  BY DEF PlaneInit
<1> QED BY <1>1, PlaneStepIsTableStep, PlaneTypeCorrect, PTL DEF PlaneSpec, TableSpec, Spec

-----------------------------------------------------------------------------
(* The router's timers. *)

LEMMA NextTimer ==
    PlaneTypeOK /\ LoneLegHasTimer /\ [PlaneNext]_planeVars => LoneLegHasTimer'
<1> SUFFICES ASSUME PlaneTypeOK, LoneLegHasTimer, [PlaneNext]_planeVars
             PROVE  LoneLegHasTimer'
  OBVIOUS
<1>r. RelayTypeOK
  BY PlaneTypeSplit
<1>1. CASE UNCHANGED <<entry, rglued, waits>>
  BY <1>1 DEF LoneLegHasTimer
<1>2. ASSUME NEW s \in Session, NEW side \in Side, RouterAttach(s, side)
      PROVE  LoneLegHasTimer'
  BY <1>r, <1>2 DEF RouterAttach, RelayTypeOK, LoneLegHasTimer
<1>3. ASSUME NEW s \in Session, RouterPumpEnds(s) \/ WaitExpires(s) PROVE LoneLegHasTimer'
  BY <1>r, <1>3 DEF RouterPumpEnds, WaitExpires, DropEntry, RelayTypeOK, LoneLegHasTimer
<1>4. CASE RelayReceives \/ RelayRestarts
  BY <1>r, <1>4 DEF RelayReceives, RelayRestarts, DropEntry, RelayTypeOK, LoneLegHasTimer
<1>5. ASSUME NEW s \in Session,
             \/ RouteViaRelay(s) \/ FinishKills(s) \/ ReportStats(s)
             \/ \E side \in Side : VerifyLeg(s, side)
      PROVE  UNCHANGED <<entry, rglued, waits>>
  BY <1>5 DEF RouteViaRelay, FinishKills, ReportStats, VerifyLeg
<1>6. ServerReceives \/ LinkDrops \/ LinkReturns \/ UNCHANGED relayVars
      => UNCHANGED <<entry, rglued, waits>>
  BY DEF ServerReceives, LinkDrops, LinkReturns, relayVars
<1> QED BY <1>1, <1>2, <1>3, <1>4, <1>5, <1>6 DEF PlaneNext, RelayStep, planeVars, relayVars

\* A leg that waits alone at the relay has a pending timer, although a timer
\* of an earlier entry with the same session id may fire on a later one.
THEOREM LoneLegSafe == PlaneSpec => []LoneLegHasTimer
<1>1. PlaneInit => LoneLegHasTimer
  BY DEF PlaneInit, LoneLegHasTimer
<1> QED BY <1>1, NextTimer, InitPlaneType, NextPlaneType, PTL DEF PlaneSpec

-----------------------------------------------------------------------------
(* Ends of sessions at the relay.  What is killed was closed before, and a *)
(* session with a leg at the relay was created before.                     *)

\* What a queue contains after a message is appended.
LEMMA ContainsAppend ==
    ASSUME NEW S, NEW q \in Seq(S), NEW e \in S, NEW x
    PROVE  Contains(Append(q, e), x) <=> Contains(q, x) \/ x = e
<1>1. /\ Len(Append(q, e)) = Len(q) + 1 /\ Len(q) \in Nat
      /\ \A j \in 1..Len(q) : Append(q, e)[j] = q[j]
      /\ Append(q, e)[Len(q) + 1] = e
  OBVIOUS
<1>2. ASSUME Contains(Append(q, e), x) PROVE Contains(q, x) \/ x = e
  BY <1>1, <1>2 DEF Contains
<1>3. ASSUME Contains(q, x) PROVE Contains(Append(q, e), x)
  BY <1>1, <1>3 DEF Contains
<1>4. ASSUME x = e PROVE Contains(Append(q, e), x)
  BY <1>1, <1>4 DEF Contains
<1> QED BY <1>2, <1>3, <1>4

\* What a queue contains besides its head is in its tail.
LEMMA ContainsTail ==
    ASSUME NEW S, NEW q \in Seq(S), q # <<>>, NEW x
    PROVE  Contains(q, x) <=> x = Head(q) \/ Contains(Tail(q), x)
<1>1. /\ Len(q) \in Nat \ {0} /\ Len(Tail(q)) = Len(q) - 1
      /\ Head(q) = q[1]
      /\ \A j \in 1..Len(q) - 1 : Tail(q)[j] = q[j + 1]
  OBVIOUS
<1>2. ASSUME NEW k \in 1..Len(q), q[k] = x PROVE x = Head(q) \/ Contains(Tail(q), x)
  <2>1. CASE k = 1
    BY <1>1, <1>2, <2>1
  <2>2. CASE k # 1
    <3>1. k - 1 \in 1..Len(q) - 1 /\ Tail(q)[k - 1] = q[(k - 1) + 1] /\ (k - 1) + 1 = k
      BY <1>1, <2>2
    <3> QED BY <1>1, <1>2, <3>1 DEF Contains
  <2> QED BY <2>1, <2>2
<1>3. ASSUME NEW k \in 1..Len(Tail(q)), Tail(q)[k] = x PROVE Contains(q, x)
  <2>1. k + 1 \in 1..Len(q) /\ q[k + 1] = x
    BY <1>1, <1>3
  <2> QED BY <2>1 DEF Contains
<1>4. Contains(q, Head(q))
  <2>1. 1 \in 1..Len(q) /\ q[1] = Head(q)
    BY <1>1
  <2> QED BY <2>1 DEF Contains
<1> QED BY <1>2, <1>3, <1>4 DEF Contains

KilledWereClosed == \A s \in Session : Contains(toRelay, s) => s \in closed

DialedWereCreated ==
    \A s \in Session :
        s \in dialed \/ (\E side \in Side : <<s, side>> \in verified) => phase[s] # "unborn"

\* closed only grows and a created session stays created.
LEMMA TableMonotone ==
    TypeOK /\ [Next]_vars =>
        /\ closed \subseteq closed'
        /\ \A s \in Session : phase[s] # "unborn" => phase'[s] # "unborn"
<1> SUFFICES ASSUME TypeOK, [Next]_vars
             PROVE  /\ closed \subseteq closed'
                    /\ \A s \in Session : phase[s] # "unborn" => phase'[s] # "unborn"
  OBVIOUS
<1>1. ASSUME NEW s \in Session,
             \/ SendOpenFails(s) \/ PumpError(s) \/ PeerClose(s) \/ SweepClose(s)
             \/ ExpireClose(s)
      PROVE  closed \subseteq closed'
  BY <1>1 DEF SendOpenFails, PumpError, PeerClose, SweepClose, ExpireClose,
              NotifyClose, CloseLocked
<1>2. ASSUME NEW s \in Session,
             \/ Create(s) \/ MarkRelayRouted(s) \/ InstallHooks(s) \/ SendOpen(s)
             \/ SendOpenFails(s)
      PROVE  \A t \in Session : phase[t] # "unborn" => phase'[t] # "unborn"
  BY <1>2 DEF TypeOK, Create, MarkRelayRouted, InstallHooks, SendOpen, SendOpenFails
<1>3. ASSUME NEW s \in Session,
             Create(s) \/ MarkRelayRouted(s) \/ InstallHooks(s) \/ SendOpen(s)
      PROVE  closed' = closed
  BY <1>3 DEF Create, MarkRelayRouted, InstallHooks, SendOpen
<1>4. ASSUME NEW s \in Session,
             \/ PumpError(s) \/ PeerClose(s) \/ SweepClose(s) \/ ExpireClose(s)
      PROVE  phase' = phase
  BY <1>4 DEF PumpError, PeerClose, SweepClose, ExpireClose
<1>5. ASSUME NEW s \in Session,
             \/ \E side \in Side : Attach(s, side)
             \/ PumpFrame(s) \/ TouchActivity(s) \/ TimerFires(s) \/ Expire(s)
             \/ Reclaim(s) \/ CloseEnds(s)
      PROVE  closed' = closed /\ phase' = phase
  BY <1>5 DEF Attach, PumpFrame, TouchActivity, TimerFires, Expire, Reclaim, CloseEnds
<1>6. CASE Sweep \/ Tick \/ (\E n \in Node : Reconnect(n)) \/ UNCHANGED vars
  BY <1>6 DEF Sweep, Tick, Reconnect, vars
<1> QED BY <1>1, <1>2, <1>3, <1>4, <1>5, <1>6 DEF Next, Handler, Peers, Background

\* The inductive invariant: types, the life of the sessions, and the three
\* facts about what is in flight.
PlaneInv ==
    /\ PlaneTypeOK
    /\ LifeInv
    /\ KilledWereClosed
    /\ DialedWereCreated
    /\ EndsReported

LEMMA InitPlane == PlaneInit => PlaneInv
<1> SUFFICES ASSUME PlaneInit PROVE PlaneInv
  OBVIOUS
<1>1. PlaneTypeOK /\ LifeInv
  BY InitPlaneType, InitLife DEF PlaneInit
<1>2. KilledWereClosed
  BY DEF PlaneInit, KilledWereClosed, Contains
<1>3. DialedWereCreated /\ EndsReported
  BY DEF PlaneInit, DialedWereCreated, EndsReported
<1> QED BY <1>1, <1>2, <1>3 DEF PlaneInv

\* A report that arrives finds its session in the table or closed.
LEMMA ReportFindsSession ==
    ASSUME PlaneInv, NEW s \in Session, s \in dialed, s \notin table
    PROVE  s \in closed
BY DEF PlaneInv, DialedWereCreated, LifeInv, Life, Tabled

LEMMA NextKilled == PlaneInv /\ [PlaneNext]_planeVars => KilledWereClosed'
<1> SUFFICES ASSUME PlaneInv, [PlaneNext]_planeVars, NEW t \in Session,
                    Contains(toRelay', t)
             PROVE  t \in closed'
  BY DEF KilledWereClosed, Contains
<1>0. /\ RelayTypeOK /\ TypeOK
      /\ closed \subseteq closed'
  BY PlaneTypeSplit, PlaneStepIsTableStep, TableMonotone DEF PlaneInv
<1>1. CASE toRelay' = toRelay
  BY <1>0, <1>1 DEF PlaneInv, KilledWereClosed
<1>2. ASSUME NEW s \in Session, FinishKills(s) PROVE t \in closed'
  <2>1. s \in closed
    BY <1>2 DEF FinishKills, CloseEnds, PlaneInv, LifeInv, Life, Ended
  <2>2. Contains(toRelay, t) \/ t = s
    <3>1. CASE toRelay' = Append(toRelay, s)
      <4>1. toRelay \in Seq(Session)
        BY <1>0 DEF RelayTypeOK
      <4>2. Contains(Append(toRelay, s), t)
        BY <3>1
      <4> QED BY <4>1, <4>2, ContainsAppend
    <3>2. CASE toRelay' = toRelay
      BY <3>2
    <3> QED BY <1>2, <3>1, <3>2 DEF FinishKills
  <2> QED BY <1>0, <2>1, <2>2 DEF PlaneInv, KilledWereClosed
<1>3. CASE RelayReceives
  <2>1. toRelay \in Seq(Session) /\ toRelay # <<>> /\ Contains(Tail(toRelay), t)
    BY <1>0, <1>3 DEF RelayReceives, RelayTypeOK
  <2>2. Contains(toRelay, t)
    BY <2>1, ContainsTail
  <2> QED BY <1>0, <2>2 DEF PlaneInv, KilledWereClosed
<1>4. CASE toRelay' = <<>>
  <2>1. Contains(<<>>, t)
    BY <1>4
  <2> QED BY <2>1 DEF Contains
<1>5. ASSUME NEW s \in Session,
             \/ RouteViaRelay(s) \/ ReportStats(s) \/ RouterPumpEnds(s) \/ WaitExpires(s)
             \/ \E side \in Side : VerifyLeg(s, side) \/ RouterAttach(s, side)
      PROVE  toRelay' = toRelay
  BY <1>5 DEF RouteViaRelay, ReportStats, RouterPumpEnds, WaitExpires, VerifyLeg, RouterAttach
<1>6. ServerReceives \/ LinkReturns \/ UNCHANGED relayVars => toRelay' = toRelay
  BY DEF ServerReceives, LinkReturns, relayVars
<1>7. LinkDrops \/ RelayRestarts => toRelay' = <<>>
  BY DEF LinkDrops, RelayRestarts
<1> QED BY <1>1, <1>2, <1>3, <1>4, <1>5, <1>6, <1>7
        DEF PlaneNext, RelayStep, planeVars, relayVars

LEMMA NextDialed == PlaneInv /\ [PlaneNext]_planeVars => DialedWereCreated'
<1> SUFFICES ASSUME PlaneInv, [PlaneNext]_planeVars, NEW t \in Session,
                    t \in dialed' \/ (\E side \in Side : <<t, side>> \in verified')
             PROVE  phase'[t] # "unborn"
  BY DEF DialedWereCreated
<1>0. phase[t] # "unborn" => phase'[t] # "unborn"
  BY PlaneTypeSplit, PlaneStepIsTableStep, TableMonotone DEF PlaneInv
<1> DEFINE Known == t \in dialed \/ (\E side \in Side : <<t, side>> \in verified)
<1>1. CASE Known
  BY <1>0, <1>1 DEF PlaneInv, DialedWereCreated
<1>2. ASSUME NEW s \in Session, NEW side \in Side, VerifyLeg(s, side)
      PROVE  Known \/ phase[t] # "unborn"
  BY <1>2 DEF VerifyLeg
<1>3. ASSUME NEW s \in Session, NEW side \in Side, RouterAttach(s, side) PROVE Known
  BY <1>3 DEF RouterAttach
<1>4. ASSUME NEW s \in Session,
             \/ RouteViaRelay(s) \/ FinishKills(s) \/ ReportStats(s)
             \/ RouterPumpEnds(s) \/ WaitExpires(s)
      PROVE  Known
  BY <1>4 DEF RouteViaRelay, FinishKills, ReportStats, RouterPumpEnds, WaitExpires
<1>5. ServerReceives \/ RelayReceives \/ LinkReturns \/ LinkDrops \/ RelayRestarts
      \/ UNCHANGED relayVars => Known
  BY DEF ServerReceives, RelayReceives, LinkReturns, LinkDrops, RelayRestarts, relayVars
<1> QED BY <1>0, <1>1, <1>2, <1>3, <1>4, <1>5
        DEF PlaneNext, RelayStep, planeVars, relayVars

LEMMA NextReported == PlaneInv /\ [PlaneNext]_planeVars => EndsReported'
<1> SUFFICES ASSUME PlaneInv, [PlaneNext]_planeVars, NEW t \in dialed' \ entry',
                    t \notin closed', t \notin lost'
             PROVE  Contains(toServer', Closed(t))
  BY DEF EndsReported, Contains
<1>0. /\ RelayTypeOK /\ TypeOK /\ RelayTypeOK'
      /\ closed \subseteq closed'
  BY PlaneTypeSplit, PlaneStepIsTableStep, TableMonotone, NextRelayType DEF PlaneInv
<1>t. t \in Session /\ t \notin closed
  BY <1>0 DEF RelayTypeOK
<1>q. toServer \in Seq(Report)
  BY <1>0 DEF RelayTypeOK
<1> DEFINE Before == t \in dialed \ entry /\ t \notin lost
<1>b. Before => Contains(toServer, Closed(t))
  BY <1>t DEF PlaneInv, EndsReported
<1>1. CASE Before /\ toServer' = toServer
  BY <1>b, <1>1
<1>2. ASSUME NEW s \in Session, RouterPumpEnds(s) \/ (WaitExpires(s) /\ s \in entry \ rglued)
      PROVE  Contains(toServer', Closed(t))
  <2>1. DropEntry(s) /\ ReportClosed(s) /\ dialed' = dialed
    BY <1>2 DEF RouterPumpEnds, WaitExpires
  <2>2. CASE t = s
    <3>1. toServer' = Append(toServer, Closed(s)) /\ Closed(s) \in Report
      BY <2>1, <2>2 DEF ReportClosed, Closed, Report
    <3>2. Contains(Append(toServer, Closed(s)), Closed(s))
      BY <1>q, <3>1, ContainsAppend
    <3> QED BY <2>2, <3>1, <3>2
  <2>3. CASE t # s
    <3>1. Before
      BY <2>1, <2>3 DEF DropEntry, ReportClosed
    <3>2. CASE toServer' = toServer
      BY <1>b, <3>1, <3>2
    <3>3. CASE toServer' = Append(toServer, Closed(s))
      <4>1. Closed(s) \in Report
        BY DEF Closed, Report
      <4>2. Contains(Append(toServer, Closed(s)), Closed(t))
        BY <1>b, <1>q, <3>1, <4>1, ContainsAppend
      <4> QED BY <3>3, <4>2
    <3> QED BY <2>1, <3>2, <3>3 DEF ReportClosed
  <2> QED BY <2>2, <2>3
<1>3. ASSUME NEW s \in Session, ReportStats(s) PROVE Contains(toServer', Closed(t))
  <2>1. Before /\ toServer' = Append(toServer, Stats(s)) /\ Stats(s) \in Report
    BY <1>3 DEF ReportStats, Stats, Report
  <2>2. Contains(Append(toServer, Stats(s)), Closed(t))
    BY <1>b, <1>q, <2>1, ContainsAppend
  <2> QED BY <2>1, <2>2
<1>4. CASE ServerReceives
  <2>1. Before /\ toServer # <<>> /\ toServer' = Tail(toServer)
    BY <1>4 DEF ServerReceives
  <2>2. Contains(toServer, Closed(t))
    BY <1>b, <2>1
  <2>3. Closed(t) = Head(toServer) \/ Contains(Tail(toServer), Closed(t))
    BY <1>q, <2>1, <2>2, ContainsTail
  <2>4. Closed(t) # Head(toServer)
    <3> SUFFICES ASSUME Head(toServer) = Closed(t) PROVE FALSE
      OBVIOUS
    <3>1. Head(toServer).sid = t /\ Head(toServer).type = "CLOSED"
      BY DEF Closed
    <3>2. t \in table
      BY <1>t, <2>1, ReportFindsSession
    <3>3. PeerClose(t)
      BY <1>4, <3>1, <3>2 DEF ServerReceives
    <3>4. t \in closed'
      BY <3>2, <3>3 DEF PeerClose, NotifyClose, CloseLocked
    <3> QED BY <3>4
  <2> QED BY <2>1, <2>3, <2>4
<1>5. CASE RelayReceives
  <2>1. toRelay \in Seq(Session) /\ toRelay # <<>>
    BY <1>0, <1>5 DEF RelayReceives, RelayTypeOK
  <2>2. Contains(toRelay, Head(toRelay)) /\ Head(toRelay) \in Session
    BY <2>1, ContainsTail
  <2>3. Head(toRelay) \in closed
    BY <2>2 DEF PlaneInv, KilledWereClosed
  <2>4. Before /\ toServer' = toServer
    BY <1>5, <1>t, <2>3 DEF RelayReceives, DropEntry
  <2> QED BY <1>1, <2>4
<1>6. CASE LinkDrops
  <2>1. Before
    BY <1>6 DEF LinkDrops
  <2>2. t \in lost'
    BY <1>6, <1>b, <1>t, <2>1 DEF LinkDrops
  <2> QED BY <2>2
<1>7. CASE RelayRestarts
  <2>1. t \in entry \/ Before
    BY <1>7 DEF RelayRestarts
  <2>2. t \in lost'
    BY <1>7, <1>b, <1>t, <2>1 DEF RelayRestarts
  <2> QED BY <2>2
<1>8. ASSUME NEW s \in Session,
             \/ RouteViaRelay(s) \/ FinishKills(s) \/ (WaitExpires(s) /\ s \notin entry \ rglued)
             \/ \E side \in Side : VerifyLeg(s, side)
      PROVE  Before /\ toServer' = toServer
  BY <1>8 DEF RouteViaRelay, FinishKills, WaitExpires, VerifyLeg
<1>9. ASSUME NEW s \in Session, NEW side \in Side, RouterAttach(s, side)
      PROVE  Before /\ toServer' = toServer
  BY <1>9 DEF RouterAttach
<1>10. LinkReturns \/ UNCHANGED relayVars => Before /\ toServer' = toServer
  BY DEF LinkReturns, relayVars
<1> QED BY <1>1, <1>2, <1>3, <1>4, <1>5, <1>6, <1>7, <1>8, <1>9, <1>10
        DEF PlaneNext, RelayStep, planeVars, relayVars

LEMMA NextPlane == PlaneInv /\ [PlaneNext]_planeVars => PlaneInv'
<1> SUFFICES ASSUME PlaneInv, [PlaneNext]_planeVars PROVE PlaneInv'
  OBVIOUS
<1>1. PlaneTypeOK'
  BY NextPlaneType DEF PlaneInv
<1>2. LifeInv'
  BY PlaneStepIsTableStep, PlaneTypeSplit, NextLife DEF PlaneInv, ControlNext
<1> QED BY <1>1, <1>2, NextKilled, NextDialed, NextReported DEF PlaneInv

\* An end of a session at the relay reaches the server unless the server has
\* closed the session itself or the control connection lost the report.
THEOREM ReportsSafe == PlaneSpec => []EndsReported
<1>1. PlaneInv => EndsReported
  BY DEF PlaneInv
<1> QED BY <1>1, InitPlane, NextPlane, PTL DEF PlaneSpec

=============================================================================
