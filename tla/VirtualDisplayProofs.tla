------------------------- MODULE VirtualDisplayProofs -------------------------
(***************************************************************************)
(* TLAPS proofs about the virtual screen: sessions that run are counted,   *)
(* and the screen does not flap with the outputs.                          *)
(***************************************************************************)
EXTENDS VirtualDisplay, FiniteSetTheorems, TLAPS

Running == {"starting", "serving", "stopping"}
Counted == {s \in Session : pc[s] \in Running}
Opened == {s \in Session : pc[s] # "new"}

DeviceRec == [handle : BOOLEAN, alive : BOOLEAN, pipe : Seq({"plug", "unplug"}), screen : BOOLEAN]
DeviceOK(d) == d \in DeviceRec /\ (d.screen => d.alive)

\* The handler's sessions and the manager's count of them, which is never above
\* the sessions that were opened: SessionStarted is all that counts up.
HandlerInv ==
    /\ pc \in [Session -> {"new", "starting", "serving", "stopping", "ended"}]
    /\ sessions \subseteq Session /\ linked \in BOOLEAN
    /\ refs \in Nat /\ Cardinality(Counted) <= refs /\ refs <= Cardinality(Opened)

\* Why there is a screen: for the sessions, which are then counted, or by hand.
ScreenInv ==
    /\ plugged \in BOOLEAN /\ autoActive \in BOOLEAN /\ manualActive \in BOOLEAN
    /\ mode \in {"running", "closed", "exited"}
    /\ mode = "running" =>
          /\ plugged <=> autoActive \/ manualActive
          /\ ~(autoActive /\ manualActive)
          /\ refs = 0 => ~autoActive

\* The streak that would change the screen back is no longer than the samples
\* since it was changed.
SampleInv ==
    /\ absent \in 0..physicalHysteresis /\ present \in 0..physicalHysteresis
    /\ absent = 0 \/ present = 0
    /\ calm \in 0..physicalHysteresis
    /\ mode # "exited" /\ lid = "unknown" /\ force # "closed" /\ calm < physicalHysteresis =>
          /\ plugged => present <= calm
          /\ ~plugged => absent <= calm

MachineInv ==
    /\ lid \in {"unknown", "open", "closed"} /\ phys \in BOOLEAN /\ enabled \in BOOLEAN
    /\ console \in {"nobody", "standard", "admin"} /\ force \in ForceLid
    /\ faults \in 0..MaxFaults /\ lost \in BOOLEAN

DisplayInv == HandlerInv /\ ScreenInv /\ SampleInv /\ MachineInv /\ DeviceOK(dev)

-----------------------------------------------------------------------------
LEMMA SessionFinite == IsFiniteSet(Session) /\ MaxFaults \in Nat
BY DisplayAssumption, Zenon DEF DisplayAssumption

LEMMA TypeFollows == DisplayInv => TypeOK
<1> SUFFICES ASSUME DisplayInv PROVE TypeOK
  OBVIOUS
<1>1. refs \in 0..Cardinality(Session)
  <2>1. Opened \subseteq Session
    BY DEF Opened
  <2>2. Cardinality(Opened) <= Cardinality(Session) /\ Cardinality(Opened) \in Nat /\ Cardinality(Session) \in Nat
    BY <2>1, SessionFinite, FS_Subset, FS_CardinalityType
  <2> QED BY <2>2 DEF DisplayInv, HandlerInv
<1> QED BY <1>1 DEF DisplayInv, HandlerInv, ScreenInv, SampleInv, MachineInv, DeviceOK, DeviceRec, TypeOK

-----------------------------------------------------------------------------
(* What is done with the device. *)

LEMMA Commanded ==
    ASSUME NEW d, DeviceOK(d), NEW c \in {"plug", "unplug"}
    PROVE  DeviceOK(Command(d, c))
<1>1. Append(d.pipe, c) \in Seq({"plug", "unplug"})
  BY DEF DeviceOK, DeviceRec
<1> QED BY <1>1 DEF DeviceOK, DeviceRec, Command

LEMMA Devices ==
    /\ DeviceOK(NoDevice) /\ DeviceOK(Device)
    /\ \A d : DeviceOK(d) => DeviceOK(StartDevice(d)) /\ DeviceOK(EnsureDevice(d)) /\ DeviceOK(Dead(d))
<1>1. <<>> \in Seq({"plug", "unplug"})
  OBVIOUS
<1>2. DeviceOK(NoDevice) /\ DeviceOK(Device)
  BY <1>1 DEF DeviceOK, DeviceRec, NoDevice, Device
<1>3. ASSUME NEW d, DeviceOK(d)
      PROVE  DeviceOK(StartDevice(d)) /\ DeviceOK(EnsureDevice(d)) /\ DeviceOK(Dead(d))
  <2>1. DeviceOK(StartDevice(d)) /\ DeviceOK(EnsureDevice(d))
    BY <1>2, <1>3 DEF StartDevice, EnsureDevice
  <2>2. DeviceOK(Dead(d))
    BY <1>1, <1>3 DEF DeviceOK, DeviceRec, Dead
  <2> QED BY <2>1, <2>2
<1> QED BY <1>2, <1>3

LEMMA Plugs ==
    ASSUME NEW d, DeviceOK(d)
    PROVE  DeviceOK(PlugVirtual(d).dev) /\ PlugVirtual(d).ok \in BOOLEAN /\ DeviceOK(Unplug(d))
<1> DEFINE e == IF d.handle THEN d ELSE StartDevice(d)
<1>1. DeviceOK(e)
  BY Devices
<1>2. DeviceOK(Command(e, "plug")) /\ DeviceOK(Command(d, "unplug")) /\ DeviceOK(NoDevice)
  BY <1>1, Commanded, Devices
<1>3. PlugVirtual(d) = (IF enabled /\ e.handle /\ e.alive THEN [dev |-> Command(e, "plug"), ok |-> TRUE]
                        ELSE IF enabled /\ e.handle THEN [dev |-> NoDevice, ok |-> FALSE]
                        ELSE [dev |-> d, ok |-> FALSE])
  BY DEF PlugVirtual
<1> HIDE DEF e
<1>4. DeviceOK(PlugVirtual(d).dev) /\ PlugVirtual(d).ok \in BOOLEAN
  BY <1>2, <1>3
<1> QED BY <1>2, <1>4 DEF Unplug

LEMMA DeviceKept == ASSUME DisplayInv, Next PROVE DeviceOK(dev')
<1>1. DeviceOK(dev)
  BY DEF DisplayInv
<1>2. CASE HolderReads
  <2>1. dev.pipe \in Seq({"plug", "unplug"}) /\ dev.pipe # <<>>
    BY <1>1, <1>2 DEF HolderReads, DeviceOK, DeviceRec
  <2>2. Tail(dev.pipe) \in Seq({"plug", "unplug"})
    BY <2>1
  <2> QED BY <1>1, <1>2, <2>2 DEF HolderReads, DeviceOK, DeviceRec
<1>3. CASE HolderReadsEnd \/ HolderDies \/ LogsOff \/ Close
  BY <1>1, <1>3, Devices DEF HolderReadsEnd, HolderDies, LogsOff, Close
<1>4. CASE Reconcile \/ SetOn \/ SetOff
  BY <1>1, <1>4, Plugs DEF Reconcile, SetOn, SetOff, AutoPlug
<1>5. ASSUME NEW s \in Session, SessionStarted(s) PROVE DeviceOK(dev')
  <2>1. DeviceOK(EnsureDevice(dev))
    BY <1>1, Devices
  <2> QED BY <1>5, <2>1, Plugs DEF SessionStarted, AutoPlug
<1>6. ASSUME NEW s \in Session, SessionEnded(s) PROVE DeviceOK(dev')
  BY <1>1, <1>6, Plugs DEF SessionEnded
<1>7. CASE LidEvent \/ OutputChanges \/ LogsOn \/ Switch \/ Exit
  BY <1>1, <1>7 DEF LidEvent, OutputChanges, LogsOn, Switch, Exit
<1>8. ASSUME NEW s \in Session, StartFails(s) \/ Serve(s) \/ Release(s) PROVE DeviceOK(dev')
  BY <1>1, <1>8 DEF StartFails, Serve, Release
<1> QED BY <1>2, <1>3, <1>4, <1>5, <1>6, <1>7, <1>8 DEF Next, Holder

-----------------------------------------------------------------------------
(* The count. *)

LEMMA CountFacts ==
    /\ IsFiniteSet(Counted) /\ IsFiniteSet(Opened)
    /\ Cardinality(Counted) \in Nat /\ Cardinality(Opened) \in Nat
<1>1. Counted \subseteq Session /\ Opened \subseteq Session
  BY DEF Counted, Opened
<1> QED BY <1>1, SessionFinite, FS_Subset, FS_CardinalityType

\* One session moves: the count of those that run and of those that were opened.
LEMMA OneMoves ==
    ASSUME NEW s \in Session, NEW l \in {"starting", "serving", "stopping", "ended"},
           pc \in [Session -> {"new", "starting", "serving", "stopping", "ended"}],
           pc' = [pc EXCEPT ![s] = l]
    PROVE  /\ pc' \in [Session -> {"new", "starting", "serving", "stopping", "ended"}]
           /\ Cardinality(Opened') = Cardinality(Opened) + (IF pc[s] = "new" THEN 1 ELSE 0)
           /\ pc[s] \in Running /\ l \in Running => Cardinality(Counted') = Cardinality(Counted)
           /\ pc[s] \in Running /\ l \notin Running => Cardinality(Counted') = Cardinality(Counted) - 1
           /\ pc[s] \notin Running /\ l \in Running => Cardinality(Counted') = Cardinality(Counted) + 1
<1>1. pc'[s] = l /\ \A z \in Session : z # s => pc'[z] = pc[z]
  OBVIOUS
<1>2. pc[s] = "new" => Opened' = Opened \cup {s} /\ s \notin Opened
  BY <1>1 DEF Opened
<1>3. pc[s] # "new" => Opened' = Opened
  BY <1>1 DEF Opened
<1>4. pc[s] \in Running /\ l \in Running => Counted' = Counted
  BY <1>1 DEF Counted
<1>5. pc[s] \in Running /\ l \notin Running => Counted' = Counted \ {s} /\ s \in Counted
  BY <1>1 DEF Counted
<1>6. pc[s] \notin Running /\ l \in Running => Counted' = Counted \cup {s} /\ s \notin Counted
  BY <1>1 DEF Counted
<1>7. Cardinality(Opened') = Cardinality(Opened) + (IF pc[s] = "new" THEN 1 ELSE 0)
  BY <1>2, <1>3, CountFacts, FS_AddElement
<1>8. pc[s] \in Running /\ l \notin Running => Cardinality(Counted') = Cardinality(Counted) - 1
  BY <1>5, CountFacts, FS_RemoveElement
<1>9. pc[s] \notin Running /\ l \in Running => Cardinality(Counted') = Cardinality(Counted) + 1
  BY <1>6, CountFacts, FS_AddElement
<1> QED BY <1>4, <1>7, <1>8, <1>9

LEMMA SomeCounted ==
    ASSUME NEW s \in Session, pc[s] \in Running
    PROVE  Cardinality(Counted) >= 1
<1>1. s \in Counted
  BY DEF Counted
<1>2. Cardinality(Counted) # 0
  BY <1>1, CountFacts, FS_EmptySet
<1> QED BY <1>2, CountFacts

LEMMA HandlerKept == ASSUME DisplayInv, Next PROVE HandlerInv'
<1>1. HandlerInv
  BY DEF DisplayInv
<1>2. ASSUME NEW s \in Session, SessionStarted(s) PROVE HandlerInv'
  <2>1. pc[s] = "new" /\ pc' = [pc EXCEPT ![s] = "starting"] /\ refs' = refs + 1 /\ UNCHANGED <<sessions, linked>>
    BY <1>2 DEF SessionStarted
  <2>2. /\ pc' \in [Session -> {"new", "starting", "serving", "stopping", "ended"}]
        /\ Cardinality(Opened') = Cardinality(Opened) + 1 /\ Cardinality(Counted') = Cardinality(Counted) + 1
    BY <1>1, <2>1, OneMoves DEF HandlerInv, Running
  <2> QED BY <1>1, <2>1, <2>2, CountFacts DEF HandlerInv
<1>3. ASSUME NEW s \in Session, StartFails(s) \/ Serve(s) \/ Release(s) PROVE HandlerInv'
  <2>1. PICK l \in {"serving", "stopping", "ended"} : pc' = [pc EXCEPT ![s] = l]
    BY <1>3 DEF StartFails, Serve, Release, Goto
  <2>2. pc[s] \in Running /\ pc[s] # "new" /\ refs' = refs
    BY <1>3 DEF StartFails, Serve, Release, At, Running, manager
  <2>3. sessions' \subseteq Session /\ linked' \in BOOLEAN
    BY <1>1, <1>3 DEF StartFails, Serve, Release, HandlerInv
  <2>4. /\ pc' \in [Session -> {"new", "starting", "serving", "stopping", "ended"}]
        /\ Cardinality(Opened') = Cardinality(Opened)
        /\ Cardinality(Counted') = Cardinality(Counted) \/ Cardinality(Counted') = Cardinality(Counted) - 1
    <3>1. pc \in [Session -> {"new", "starting", "serving", "stopping", "ended"}]
      BY <1>1 DEF HandlerInv
    <3>2. pc' \in [Session -> {"new", "starting", "serving", "stopping", "ended"}]
      BY <2>1, <3>1
    <3>3. Cardinality(Opened') = Cardinality(Opened) + 0
      BY <2>1, <2>2, <3>1, OneMoves
    <3>4. Cardinality(Counted') = Cardinality(Counted) \/ Cardinality(Counted') = Cardinality(Counted) - 1
      BY <2>1, <2>2, <3>1, OneMoves
    <3> QED BY <3>2, <3>3, <3>4, CountFacts
  <2> QED BY <1>1, <2>2, <2>3, <2>4, CountFacts DEF HandlerInv
<1>4. ASSUME NEW s \in Session, SessionEnded(s) PROVE HandlerInv'
  <2>1. /\ pc[s] = "stopping" /\ pc' = [pc EXCEPT ![s] = "ended"] /\ UNCHANGED <<sessions, linked>>
        /\ refs' = IF refs > 0 THEN refs - 1 ELSE refs
    BY <1>4 DEF SessionEnded, At, Goto
  <2>2. /\ pc' \in [Session -> {"new", "starting", "serving", "stopping", "ended"}]
        /\ Cardinality(Opened') = Cardinality(Opened) /\ Cardinality(Counted') = Cardinality(Counted) - 1
    <3>1. /\ pc \in [Session -> {"new", "starting", "serving", "stopping", "ended"}]
          /\ pc[s] # "new" /\ pc[s] \in Running /\ "ended" \notin Running
      BY <1>1, <2>1 DEF HandlerInv, Running
    <3>2. pc' \in [Session -> {"new", "starting", "serving", "stopping", "ended"}]
      BY <2>1, <3>1
    <3>3. Cardinality(Opened') = Cardinality(Opened) + 0
      BY <2>1, <3>1, OneMoves
    <3>4. Cardinality(Counted') = Cardinality(Counted) - 1
      BY <2>1, <3>1, OneMoves
    <3> QED BY <3>2, <3>3, <3>4, CountFacts
  <2>3. Cardinality(Counted) >= 1
    BY <2>1, SomeCounted DEF Running
  <2> QED BY <1>1, <2>1, <2>2, <2>3, CountFacts DEF HandlerInv
<1>5. CASE Exit
  <2>1. pc' = [s \in Session |-> "ended"] /\ sessions' = {} /\ linked' = FALSE /\ refs' = 0
    BY <1>5 DEF Exit
  <2>2. Counted' = {} /\ Opened' = Session
    BY <2>1 DEF Counted, Opened, Running
  <2>3. Cardinality({}) = 0 /\ Cardinality(Session) \in Nat
    BY SessionFinite, FS_EmptySet, FS_CardinalityType
  <2>4. Cardinality(Counted') = 0 /\ Cardinality(Opened') \in Nat
    BY <2>2, <2>3
  <2>5. pc' \in [Session -> {"new", "starting", "serving", "stopping", "ended"}]
    BY <2>1
  <2>6. refs' \in Nat /\ Cardinality(Counted') <= refs' /\ refs' <= Cardinality(Opened')
    BY <2>1, <2>4
  <2>7. linked' \in BOOLEAN
    BY <2>1
  <2> QED BY <2>1, <2>5, <2>6, <2>7 DEF HandlerInv
<1>6. ASSUME UNCHANGED <<pc, sessions, linked, refs>> PROVE HandlerInv'
  BY <1>1, <1>6 DEF HandlerInv, Counted, Opened
<1>7. CASE Holder \/ HolderDies \/ LidEvent \/ OutputChanges \/ LogsOn \/ LogsOff \/ Switch
           \/ Reconcile \/ SetOn \/ SetOff \/ Close
  BY <1>6, <1>7 DEF Holder, HolderReads, HolderReadsEnd, HolderDies, LidEvent, OutputChanges, LogsOn,
                    LogsOff, Switch, Reconcile, SetOn, SetOff, Close, handler, manager
<1> QED BY <1>2, <1>3, <1>4, <1>5, <1>7 DEF Next

-----------------------------------------------------------------------------
(* The screen and the machine. *)

LEMMA MachineKept == ASSUME DisplayInv, Next PROVE MachineInv'
<1>1. MachineInv /\ plugged \in BOOLEAN /\ dev.alive \in BOOLEAN
  BY DEF DisplayInv, ScreenInv, DeviceOK, DeviceRec
<1>2. faults' \in 0..MaxFaults
  <2>1. Fault \/ faults' = faults
    BY DEF Next, Holder, HolderReads, HolderReadsEnd, HolderDies, LidEvent, OutputChanges, LogsOn,
           LogsOff, Switch, Reconcile, SetOn, SetOff, Close, Exit, SessionStarted, StartFails, Serve,
           Release, SessionEnded
  <2> QED BY <1>1, <2>1, SessionFinite DEF Fault, MachineInv
<1>3. lost' \in BOOLEAN
  BY <1>1 DEF MachineInv, Next, Holder, HolderReads, HolderReadsEnd, HolderDies, LidEvent, OutputChanges,
         LogsOn, LogsOff, Switch, Reconcile, SetOn, SetOff, Close, Exit, SessionStarted, StartFails, Serve,
         Release, SessionEnded
<1>4. lid' \in {"unknown", "open", "closed"} /\ console' \in {"nobody", "standard", "admin"} /\ force' \in ForceLid
  BY <1>1 DEF MachineInv, Next, Holder, HolderReads, HolderReadsEnd, HolderDies, LidEvent, OutputChanges,
         LogsOn, LogsOff, Switch, Reconcile, SetOn, SetOff, Close, Exit, SessionStarted, StartFails, Serve,
         Release, SessionEnded, machine
<1>5. phys' \in BOOLEAN /\ enabled' \in BOOLEAN
  BY <1>1 DEF MachineInv, Next, Holder, HolderReads, HolderReadsEnd, HolderDies, LidEvent, OutputChanges,
         LogsOn, LogsOff, Switch, Reconcile, SetOn, SetOff, Close, Exit, SessionStarted, StartFails, Serve,
         Release, SessionEnded, machine
<1> QED BY <1>2, <1>3, <1>4, <1>5 DEF MachineInv

\* A screen that is plugged for the sessions is plugged for one that is counted.
LEMMA AutoPlugs ==
    ASSUME ScreenInv, NEW d, DeviceOK(d), ~plugged, AutoPlug(d), UNCHANGED <<manualActive, mode>>,
           refs' \in Nat, refs' # 0
    PROVE  ScreenInv'
<1>1. PICK ok \in BOOLEAN : ok = PlugVirtual(d).ok
  BY Plugs
<1>2. plugged' = ok /\ autoActive' = (autoActive \/ ok)
  BY <1>1 DEF AutoPlug
<1> QED BY <1>2 DEF ScreenInv

LEMMA ScreenKept == ASSUME DisplayInv, Next PROVE ScreenInv'
<1>1. ScreenInv /\ DeviceOK(dev) /\ refs \in Nat
  BY DEF DisplayInv, HandlerInv
<1>2. ASSUME UNCHANGED <<plugged, autoActive, manualActive, refs>>, mode' = mode PROVE ScreenInv'
  BY <1>1, <1>2 DEF ScreenInv
<1>3. CASE Holder \/ HolderDies \/ LidEvent \/ OutputChanges \/ LogsOn \/ LogsOff \/ Switch
  BY <1>2, <1>3 DEF Holder, HolderReads, HolderReadsEnd, HolderDies, LidEvent, OutputChanges, LogsOn,
                    LogsOff, Switch, manager
<1>4. ASSUME NEW s \in Session, StartFails(s) \/ Serve(s) \/ Release(s) PROVE ScreenInv'
  BY <1>2, <1>4 DEF StartFails, Serve, Release, manager
<1>5. CASE Reconcile
  <2>1. refs' = refs /\ refs > 0 /\ UNCHANGED <<manualActive, mode>>
    BY <1>5 DEF Reconcile
  <2>2. CASE ~plugged /\ AutoPlug(dev)
    BY <1>1, <2>1, <2>2, AutoPlugs
  <2>3. CASE autoActive /\ ~manualActive /\ plugged' = FALSE /\ autoActive' = FALSE
    BY <1>1, <2>1, <2>3 DEF ScreenInv
  <2>4. CASE UNCHANGED <<plugged, autoActive>>
    BY <1>2, <2>1, <2>4
  <2> QED BY <1>5, <2>2, <2>3, <2>4 DEF Reconcile
<1>6. CASE SetOn
  <2>1. UNCHANGED <<refs, mode>>
    BY <1>6 DEF SetOn
  <2>2. CASE plugged
    <3>1. manualActive' = TRUE /\ autoActive' = FALSE /\ plugged' = plugged
      BY <1>6, <2>2 DEF SetOn
    <3> QED BY <1>1, <2>1, <2>2, <3>1 DEF ScreenInv
  <2>3. CASE ~plugged
    <3>1. PICK ok \in BOOLEAN : ok = PlugVirtual(dev).ok
      BY <1>1, Plugs
    <3>2. plugged' = ok /\ manualActive' = (manualActive \/ ok) /\ autoActive' = (autoActive /\ ~ok)
      BY <1>6, <2>3, <3>1 DEF SetOn
    <3> QED BY <1>1, <2>1, <2>3, <3>2 DEF ScreenInv
  <2> QED BY <2>2, <2>3
<1>7. CASE SetOff \/ Close \/ Exit
  BY <1>1, <1>7 DEF ScreenInv, SetOff, Close, Exit
<1>8. ASSUME NEW s \in Session, SessionStarted(s) PROVE ScreenInv'
  <2>1. refs' = refs + 1 /\ UNCHANGED <<manualActive, mode>>
    BY <1>8 DEF SessionStarted
  <2>2. CASE ~plugged /\ AutoPlug(EnsureDevice(dev))
    <3>1. DeviceOK(EnsureDevice(dev))
      BY <1>1, Devices
    <3> QED BY <1>1, <2>1, <2>2, <3>1, AutoPlugs
  <2>3. CASE UNCHANGED <<plugged, autoActive>>
    BY <1>1, <2>1, <2>3 DEF ScreenInv
  <2> QED BY <1>8, <2>2, <2>3 DEF SessionStarted
<1>9. ASSUME NEW s \in Session, SessionEnded(s) PROVE ScreenInv'
  <2>1. UNCHANGED <<manualActive, mode>> /\ refs' \in Nat
    BY <1>1, <1>9 DEF SessionEnded
  <2>2. CASE autoActive /\ ~manualActive /\ plugged' = FALSE /\ autoActive' = FALSE
    BY <1>1, <2>1, <2>2 DEF ScreenInv
  <2>3. CASE ~(refs' = 0 /\ autoActive /\ ~manualActive) /\ UNCHANGED <<plugged, autoActive>>
    BY <1>1, <2>1, <2>3 DEF ScreenInv
  <2> QED BY <1>9, <2>2, <2>3 DEF SessionEnded
<1> QED BY <1>3, <1>4, <1>5, <1>6, <1>7, <1>8, <1>9 DEF Next

-----------------------------------------------------------------------------
(* The samples. *)

\* Where the lid is not known and not forced, only the outputs decide.
LEMMA OnlyOutputs ==
    ASSUME NEW s \in BOOLEAN, lid = "unknown", force # "closed"
    PROVE  /\ Trigger(s) => ~s /\ absent' >= physicalHysteresis
           /\ ReleaseTrigger(s) => s /\ present' >= physicalHysteresis
<1>1. lid # "closed"
  OBVIOUS
<1> QED BY <1>1, Zenon DEF Trigger, ReleaseTrigger

LEMMA CountKept ==
    ASSUME SampleInv, NEW s \in BOOLEAN, Count(s)
    PROVE  /\ absent' \in 0..physicalHysteresis /\ present' \in 0..physicalHysteresis
           /\ absent' = 0 \/ present' = 0
           /\ absent' <= absent + 1 /\ present' <= present + 1
           /\ s => absent' = 0
           /\ ~s => present' = 0
BY DEF SampleInv, Count, AtMost, physicalHysteresis

\* A sample is taken and the screen is left as it is.
LEMMA SampleKept ==
    ASSUME SampleInv, NEW s \in BOOLEAN, Count(s), calm' = AtMost(calm + 1),
           UNCHANGED <<mode, lid, force>>, plugged' = plugged
    PROVE  SampleInv'
<1>1. /\ absent' \in 0..physicalHysteresis /\ present' \in 0..physicalHysteresis
      /\ absent' = 0 \/ present' = 0
      /\ absent' <= absent + 1 /\ present' <= present + 1
  BY CountKept
<1>2. absent \in Nat /\ present \in Nat /\ calm \in 0..2
  BY DEF SampleInv, physicalHysteresis
<1>3. calm' \in 0..physicalHysteresis
  BY <1>2 DEF AtMost, physicalHysteresis
<1>4. calm' < physicalHysteresis => calm' = calm + 1 /\ calm < physicalHysteresis
  BY <1>2 DEF AtMost, physicalHysteresis
<1>5. ASSUME mode # "exited", lid = "unknown", force # "closed", calm' < physicalHysteresis
      PROVE  /\ plugged => present' <= calm'
             /\ ~plugged => absent' <= calm'
  <2>1. /\ plugged => present <= calm
        /\ ~plugged => absent <= calm
    BY <1>4, <1>5 DEF SampleInv
  <2> QED BY <1>1, <1>2, <1>4, <1>5, <2>1 DEF physicalHysteresis
<1> QED BY <1>1, <1>3, <1>5 DEF SampleInv

\* The screen is changed, and not by a sample of reconcile; or nothing is.
LEMMA CalmKept ==
    ASSUME SampleInv,
           \/ UNCHANGED <<absent, present>>
           \/ absent' = 0 /\ present' = 0
           \/ \E s \in BOOLEAN : Count(s),
           calm' = physicalHysteresis
    PROVE  SampleInv'
<1>1. /\ absent' \in 0..physicalHysteresis /\ present' \in 0..physicalHysteresis
      /\ absent' = 0 \/ present' = 0
  <2>1. CASE UNCHANGED <<absent, present>> BY <2>1 DEF SampleInv
  <2>2. CASE absent' = 0 /\ present' = 0 BY <2>2 DEF physicalHysteresis
  <2>3. CASE \E s \in BOOLEAN : Count(s) BY <2>3, CountKept
  <2> QED BY <2>1, <2>2, <2>3
<1>2. calm' \in 0..physicalHysteresis /\ ~(calm' < physicalHysteresis)
  BY DEF physicalHysteresis
<1> QED BY <1>1, <1>2 DEF SampleInv

LEMMA SampleTyped == MachineInv => Sample \in BOOLEAN
BY DEF Sample, probeConsoleDisplays, MachineInv

LEMMA SamplesKept == ASSUME DisplayInv, Next PROVE SampleInv'
<1>1. SampleInv /\ plugged \in BOOLEAN
  BY DEF DisplayInv, ScreenInv
<1>2. PICK s \in BOOLEAN : s = Sample
  BY SampleTyped DEF DisplayInv
<1>3. ASSUME UNCHANGED <<absent, present, calm, mode, force, plugged>>, lid' = lid \/ lid' # "unknown"
      PROVE  SampleInv'
  BY <1>1, <1>3 DEF SampleInv
<1>4. CASE Holder \/ HolderDies \/ LidEvent \/ OutputChanges \/ LogsOn \/ LogsOff \/ Switch
  BY <1>3, <1>4 DEF Holder, HolderReads, HolderReadsEnd, HolderDies, LidEvent, OutputChanges, LogsOn,
                    LogsOff, Switch, manager, machine
<1>5. ASSUME NEW x \in Session, StartFails(x) \/ Serve(x) \/ Release(x) PROVE SampleInv'
  BY <1>3, <1>5 DEF StartFails, Serve, Release, manager, machine
<1>6. CASE SetOff \/ Close \/ Exit
  BY <1>1, <1>6, CalmKept DEF SetOff, Close, Exit
<1>7. CASE SetOn
  BY <1>1, <1>3, <1>7, CalmKept DEF SetOn, machine
<1>8. ASSUME NEW x \in Session, SessionEnded(x) PROVE SampleInv'
  BY <1>1, <1>3, <1>8, CalmKept DEF SessionEnded, machine
<1>9. ASSUME NEW x \in Session, SessionStarted(x) PROVE SampleInv'
  <2>1. UNCHANGED <<mode, lid, force>> /\ (plugged => UNCHANGED <<plugged, absent, present>>)
    BY <1>9 DEF SessionStarted, machine
  <2>2. CASE plugged
    BY <1>3, <1>9, <2>1, <2>2 DEF SessionStarted
  <2>3. CASE ~plugged
    <3>1. Count(s)
      BY <1>2, <1>9, <2>3 DEF SessionStarted
    <3>2. CASE plugged' # plugged
      BY <1>1, <1>9, <3>1, <3>2, CalmKept DEF SessionStarted
    <3>3. CASE plugged' = plugged
      <4>1. calm' = AtMost(calm + 1)
        BY <1>9, <2>3, <3>3 DEF SessionStarted
      <4> QED BY <1>1, <2>1, <3>1, <3>3, <4>1, SampleKept
    <3> QED BY <3>2, <3>3
  <2> QED BY <2>2, <2>3
<1>10. CASE Reconcile
  <2>1. /\ UNCHANGED <<mode, lid, force>> /\ Count(s)
        /\ calm' = IF plugged' # plugged THEN 0 ELSE AtMost(calm + 1)
    BY <1>2, <1>10 DEF Reconcile, machine
  <2>2. CASE plugged' = plugged
    BY <1>1, <2>1, <2>2, SampleKept
  <2>3. CASE plugged' # plugged
    <3>1. /\ absent' \in 0..physicalHysteresis /\ present' \in 0..physicalHysteresis
          /\ absent' = 0 \/ present' = 0
          /\ s => absent' = 0
          /\ ~s => present' = 0
      BY <1>1, <2>1, CountKept
    <3>2. \/ ~plugged /\ Trigger(s)
          \/ plugged /\ ReleaseTrigger(s) /\ plugged' = FALSE
      BY <1>2, <1>10, <2>3 DEF Reconcile
    <3>3. calm' = 0 /\ calm' \in 0..physicalHysteresis
      BY <2>1, <2>3 DEF physicalHysteresis
    <3>4. plugged' \in BOOLEAN
      BY ScreenKept DEF ScreenInv
    <3>5. ASSUME lid = "unknown", force # "closed"
          PROVE  (plugged' => present' = 0) /\ (~plugged' => absent' = 0)
      BY <1>1, <2>3, <3>1, <3>2, <3>4, <3>5, OnlyOutputs
    <3> QED BY <2>1, <3>1, <3>3, <3>5 DEF SampleInv
  <2> QED BY <2>2, <2>3
<1> QED BY <1>4, <1>5, <1>6, <1>7, <1>8, <1>9, <1>10 DEF Next

-----------------------------------------------------------------------------
LEMMA InitDisplay == Init => DisplayInv
<1> SUFFICES ASSUME Init PROVE DisplayInv
  OBVIOUS
<1>1. HandlerInv
  <2>1. pc = [s \in Session |-> "new"] /\ refs = 0 /\ sessions = {} /\ linked = FALSE
    BY DEF Init
  <2>2. Counted = {} /\ Opened = {}
    BY <2>1 DEF Counted, Opened, Running
  <2>3. Cardinality(Counted) = 0 /\ Cardinality(Opened) = 0
    BY <2>2, FS_EmptySet
  <2>4. refs \in Nat /\ Cardinality(Counted) <= refs /\ refs <= Cardinality(Opened)
    BY <2>1, <2>3
  <2>5. linked \in BOOLEAN
    BY <2>1
  <2> QED BY <2>1, <2>4, <2>5 DEF HandlerInv
<1>2. ScreenInv
  BY DEF Init, ScreenInv
<1>3. SampleInv
  <2>1. absent = 0 /\ present = 0 /\ calm = 2 /\ physicalHysteresis = 2
    BY DEF Init, physicalHysteresis
  <2> QED BY <2>1 DEF SampleInv
<1>4. MachineInv
  <2>1. faults \in 0..MaxFaults
    BY SessionFinite DEF Init
  <2> QED BY <2>1 DEF Init, MachineInv
<1>5. DeviceOK(dev)
  BY Devices DEF Init
<1> QED BY <1>1, <1>2, <1>3, <1>4, <1>5 DEF DisplayInv

LEMMA NextDisplay == DisplayInv /\ [Next]_vars => DisplayInv'
<1> SUFFICES ASSUME DisplayInv, [Next]_vars PROVE DisplayInv'
  OBVIOUS
<1>1. CASE Next
  BY <1>1, HandlerKept, ScreenKept, SamplesKept, MachineKept, DeviceKept DEF DisplayInv
<1>2. CASE UNCHANGED vars
  <2>1. UNCHANGED <<refs, plugged, autoActive, manualActive, absent, present, mode, dev, lid, phys,
                    console, enabled, force, pc, sessions, linked, faults, calm, lost>>
    BY <1>2 DEF vars, manager, machine, handler
  <2>2. HandlerInv'
    BY <2>1 DEF DisplayInv, HandlerInv, Counted, Opened
  <2>3. ScreenInv' /\ SampleInv' /\ MachineInv'
    BY <2>1 DEF DisplayInv, ScreenInv, SampleInv, MachineInv
  <2>4. DeviceOK(dev')
    BY <2>1 DEF DisplayInv
  <2> QED BY <2>2, <2>3, <2>4 DEF DisplayInv
<1> QED BY <1>1, <1>2

\* The inductive invariant holds throughout.
LEMMA DisplayInvariant == Spec => []DisplayInv
<1>1. Init => DisplayInv
  BY InitDisplay
<1>2. DisplayInv /\ [Next]_vars => DisplayInv'
  BY NextDisplay
<1> QED BY <1>1, <1>2, PTL DEF Spec

\* The fields have their types, the count of the sessions stays within those
\* there are, and a running manager has a screen for the sessions or by hand and
\* never both.
THEOREM DisplayTypeCorrect == Spec => []TypeOK
<1>1. DisplayInv => TypeOK
  BY TypeFollows
<1> QED BY <1>1, DisplayInvariant, PTL

\* The sessions that run are counted, for any number of them, so that the end of
\* one does not take the screen from another, and without a counted session there
\* is no screen on behalf of one (SessionStarted, SessionEnded, release).
THEOREM RunningAreCounted == Spec => []CountedAreSafe
<1>1. DisplayInv => CountedAreSafe
  BY DEF DisplayInv, HandlerInv, ScreenInv, CountedAreSafe, Counted, Running
<1> QED BY <1>1, DisplayInvariant, PTL

\* Where only the outputs decide, reconcile does not change a screen back before
\* the threshold of samples (updatePhysicalStreaksLocked).
THEOREM ScreenSteady == Spec => Steady
<1>1. ASSUME DisplayInv, [Next]_vars
      PROVE  [Reconcile /\ plugged' # plugged /\ lid = "unknown" /\ force # "closed"
                => calm + 1 >= physicalHysteresis]_vars
  <2> SUFFICES ASSUME Reconcile, plugged' # plugged, lid = "unknown", force # "closed"
               PROVE  calm + 1 >= physicalHysteresis
    OBVIOUS
  <2>1. SampleInv /\ mode # "exited" /\ plugged \in BOOLEAN
    BY <1>1 DEF DisplayInv, ScreenInv, Reconcile
  <2>2. PICK s \in BOOLEAN : s = Sample
    BY <1>1, SampleTyped DEF DisplayInv
  <2>3. Count(s) /\ (\/ ~plugged /\ Trigger(s)
                     \/ plugged /\ ReleaseTrigger(s))
    BY <2>2 DEF Reconcile
  <2>4. absent' \in Nat /\ present' \in Nat /\ absent' <= absent + 1 /\ present' <= present + 1
    BY <2>1, <2>3, CountKept DEF physicalHysteresis
  <2>5. (~plugged /\ absent' >= 2) \/ (plugged /\ present' >= 2)
    BY <2>3, OnlyOutputs DEF physicalHysteresis
  <2>6. /\ absent \in Nat /\ present \in Nat /\ calm \in 0..2
        /\ calm < 2 /\ plugged => present <= calm
        /\ calm < 2 /\ ~plugged => absent <= calm
    BY <2>1 DEF SampleInv, physicalHysteresis
  <2> QED BY <2>4, <2>5, <2>6 DEF physicalHysteresis
<1> QED BY <1>1, DisplayInvariant, PTL DEF Spec, Steady
=============================================================================
