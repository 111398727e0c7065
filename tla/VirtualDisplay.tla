--------------------------- MODULE VirtualDisplay ---------------------------
(***************************************************************************)
(* The virtual screen of a Windows node: display.Manager, which decides    *)
(* when there is one, the holder process in the console session, which     *)
(* owns the device and plugs the screen when it is told to, and the        *)
(* desktop sessions that the manager counts.                               *)
(*                                                                         *)
(* Every operation of the manager runs under its mutex, however long it    *)
(* takes, and is one action here.  What it tells the holder goes through a *)
(* pipe: the manager takes a command that was written for one that was     *)
(* obeyed.                                                                 *)
(***************************************************************************)
EXTENDS Naturals, Sequences, FiniteSets

CONSTANTS
    Session,    \* desktop sessions, each opened once
    ForceLid,   \* the values of XNC_IDD_FORCE_LID to look at
    MaxPipe,    \* bound: commands the holder has not read
    MaxFaults   \* bound: holders that die, users that log off, commands refused

ASSUME DisplayAssumption ==
    /\ IsFiniteSet(Session)
    /\ ForceLid \subseteq {"", "open", "closed"} /\ MaxPipe \in Nat /\ MaxFaults \in Nat

VARIABLES
    \* display.Manager
    refs,       \* sessionRefs
    plugged,
    autoActive,
    manualActive,
    absent,     \* physicalAbsentStreak, counted up to the threshold
    present,    \* physicalPresentStreak
    mode,       \* running, closed by Close, or exited
    \* the device: the manager's handle, and the holder it stands for
    dev,
    \* the machine
    lid,        \* lidMonitor: unknown until the first event
    phys,       \* a physical output is active
    console,    \* who is logged on at the console
    enabled,    \* XNC_IDD_ENABLED
    force,      \* XNC_IDD_FORCE_LID
    \* desktop.Handler
    pc,
    sessions,   \* Handler.sessions
    linked,     \* Handler.client is there
    faults,
    calm,       \* history: samples since reconcile last changed the screen
    lost        \* history: the holder died under a plugged screen, or did not obey

manager == <<refs, plugged, autoActive, manualActive, absent, present>>
machine == <<lid, phys, console, enabled, force>>
handler == <<pc, sessions, linked>>
vars == <<manager, mode, dev, machine, handler, faults, calm, lost>>

physicalHysteresis == 2
NoDevice == [handle |-> FALSE, alive |-> FALSE, pipe |-> <<>>, screen |-> FALSE]
Device == [NoDevice EXCEPT !.handle = TRUE, !.alive = TRUE]

\* The fields have their types; a screen is plugged on behalf of the sessions
\* or by hand and never both (SessionStarted, reconcile, SetOn, SetOff).
TypeOK ==
    /\ refs \in 0..Cardinality(Session)
    /\ plugged \in BOOLEAN /\ autoActive \in BOOLEAN /\ manualActive \in BOOLEAN
    /\ absent \in 0..physicalHysteresis /\ present \in 0..physicalHysteresis
    /\ absent = 0 \/ present = 0
    /\ mode \in {"running", "closed", "exited"}
    /\ dev \in [handle : BOOLEAN, alive : BOOLEAN, pipe : Seq({"plug", "unplug"}), screen : BOOLEAN]
    /\ dev.screen => dev.alive
    /\ lid \in {"unknown", "open", "closed"} /\ phys \in BOOLEAN /\ enabled \in BOOLEAN
    /\ console \in {"nobody", "standard", "admin"} /\ force \in ForceLid
    /\ pc \in [Session -> {"new", "starting", "serving", "stopping", "ended"}]
    /\ sessions \subseteq Session /\ linked \in BOOLEAN
    /\ faults \in 0..MaxFaults /\ calm \in 0..physicalHysteresis /\ lost \in BOOLEAN
    /\ mode = "running" =>
          /\ plugged <=> autoActive \/ manualActive
          /\ ~(autoActive /\ manualActive)

Fault == faults < MaxFaults /\ faults' = faults + 1
AtMost(n) == IF n > physicalHysteresis THEN physicalHysteresis ELSE n

-----------------------------------------------------------------------------
(* The holder. *)

\* startHolder: needs a console session whose user may create the device.
StartDevice(d) == IF console = "admin" THEN Device ELSE d

Command(d, c) == [d EXCEPT !.pipe = Append(@, c)]
Room == Len(dev.pipe) < MaxPipe

\* runIddHold: a command fails and is only logged.
HolderReads ==
    /\ dev.alive /\ dev.pipe # <<>>
    /\ \/ /\ dev' = [dev EXCEPT !.pipe = Tail(@), !.screen = (Head(dev.pipe) = "plug")]
          /\ UNCHANGED <<faults, lost>>
       \/ Fault /\ dev' = [dev EXCEPT !.pipe = Tail(@)] /\ lost' = TRUE
    /\ UNCHANGED <<manager, mode, machine, handler, calm>>

\* The agent is gone: what is in the pipe is read, then its end.
HolderReadsEnd ==
    /\ dev.alive /\ mode = "exited" /\ dev.pipe = <<>>
    /\ dev' = NoDevice
    /\ UNCHANGED <<manager, mode, machine, handler, faults, calm, lost>>

Dead(d) == [d EXCEPT !.alive = FALSE, !.pipe = <<>>, !.screen = FALSE]
HolderDies ==
    /\ dev.alive /\ Fault /\ dev' = Dead(dev) /\ lost' = (lost \/ plugged)
    /\ UNCHANGED <<manager, mode, machine, handler, calm>>

-----------------------------------------------------------------------------
(* The machine, which matters while the agent runs. *)

\* lidWndProc.
LidEvent ==
    /\ mode # "exited" /\ \E l \in {"open", "closed"} : l # lid /\ lid' = l
    /\ UNCHANGED <<manager, mode, dev, phys, console, enabled, force, handler, faults, calm, lost>>

OutputChanges ==
    /\ mode # "exited" /\ phys' = ~phys
    /\ UNCHANGED <<manager, mode, dev, lid, console, enabled, force, handler, faults, calm, lost>>

LogsOn ==
    /\ mode # "exited" /\ console = "nobody" /\ console' \in {"standard", "admin"}
    /\ UNCHANGED <<manager, mode, dev, lid, phys, enabled, force, handler, faults, calm, lost>>

\* The holder goes with the session it runs in.
LogsOff ==
    /\ mode # "exited" /\ console # "nobody" /\ console' = "nobody" /\ Fault
    /\ dev' = Dead(dev) /\ lost' = (lost \/ (plugged /\ dev.alive))
    /\ UNCHANGED <<manager, mode, lid, phys, enabled, force, handler, calm>>

-----------------------------------------------------------------------------
(* display.Manager *)

\* The probe runs in the console session, if there is one.
probeConsoleDisplays == [ok |-> console # "nobody", physical |-> phys]

\* physicalOutputActive: without a console session to probe it counts as there.
Sample == probeConsoleDisplays.ok => probeConsoleDisplays.physical

\* updatePhysicalStreaksLocked.
Count(s) == /\ absent' = IF s THEN 0 ELSE AtMost(absent + 1)
            /\ present' = IF s THEN AtMost(present + 1) ELSE 0

\* triggerWithPhysicalLocked, the streaks being those after the sample.
Trigger(s) == \/ ~s /\ absent' >= physicalHysteresis
              \/ force = "closed"
              \/ force = "" /\ lid = "closed"

\* releaseWithPhysicalLocked.
ReleaseTrigger(s) ==
    /\ force # "closed"
    /\ IF force = "" /\ lid # "unknown" THEN lid = "open"
                                        ELSE s /\ present' >= physicalHysteresis

\* ensureDeviceLocked; the driver is installed.
EnsureDevice(d) == IF enabled /\ ~d.handle THEN StartDevice(d) ELSE d

\* The handle of a device that cannot be reached is kept.
PlugVirtualKeeps(d) ==
    LET e == IF d.handle THEN d ELSE StartDevice(d)
    IN IF enabled /\ e.handle /\ e.alive THEN [dev |-> Command(e, "plug"), ok |-> TRUE]
       ELSE [dev |-> d, ok |-> FALSE]

\* plugVirtualLocked: a device that cannot be reached is given up, and made
\* anew by the next attempt.
PlugVirtual(d) ==
    LET e == IF d.handle THEN d ELSE StartDevice(d)
    IN IF enabled /\ e.handle /\ e.alive THEN [dev |-> Command(e, "plug"), ok |-> TRUE]
       ELSE IF enabled /\ e.handle THEN [dev |-> NoDevice, ok |-> FALSE]
       ELSE [dev |-> d, ok |-> FALSE]

\* unplugLocked: the manager's flag falls whether or not the holder is told.
Unplug(d) == IF d.handle /\ plugged /\ d.alive THEN Command(d, "unplug") ELSE d

\* The manager plugs for the sessions, from device d.
AutoPlug(d) == LET r == PlugVirtual(d) IN
    /\ dev' = r.dev /\ plugged' = r.ok /\ autoActive' = (autoActive \/ r.ok)

\* SessionStarted, called by the desktop handler before anything can fail.
SessionStarted(s) ==
    /\ mode # "exited" /\ pc[s] = "new" /\ Room
    /\ pc' = [pc EXCEPT ![s] = "starting"] /\ refs' = refs + 1
    /\ IF plugged
       THEN dev' = EnsureDevice(dev) /\ UNCHANGED <<absent, present, plugged, autoActive>>
       ELSE /\ Count(Sample)
            /\ IF Trigger(Sample) THEN AutoPlug(EnsureDevice(dev))
                                  ELSE dev' = EnsureDevice(dev) /\ UNCHANGED <<plugged, autoActive>>
    /\ calm' = IF plugged' # plugged THEN physicalHysteresis
               ELSE IF plugged THEN calm ELSE AtMost(calm + 1)
    /\ UNCHANGED <<manualActive, mode, machine, sessions, linked, faults, lost>>

\* reconcile, by the clock or by an event of the lid.
Reconcile ==
    /\ mode # "exited" /\ enabled /\ refs > 0 /\ Room
    /\ Count(Sample)
    /\ IF ~plugged /\ Trigger(Sample) THEN AutoPlug(dev)
       ELSE IF plugged /\ autoActive /\ ~manualActive /\ ReleaseTrigger(Sample)
       THEN dev' = Unplug(dev) /\ plugged' = FALSE /\ autoActive' = FALSE
       ELSE UNCHANGED <<dev, plugged, autoActive>>
    /\ calm' = IF plugged' # plugged THEN 0 ELSE AtMost(calm + 1)
    /\ UNCHANGED <<refs, manualActive, mode, machine, handler, faults, lost>>

\* Display on: what is there already changes hands.
SetOn ==
    /\ mode # "exited" /\ enabled /\ Room
    /\ IF plugged THEN manualActive' = TRUE /\ autoActive' = FALSE /\ UNCHANGED <<plugged, dev>>
       ELSE LET r == PlugVirtual(dev) IN
            /\ dev' = r.dev /\ plugged' = r.ok /\ manualActive' = (manualActive \/ r.ok)
            /\ autoActive' = (autoActive /\ ~r.ok)
    /\ calm' = IF plugged' # plugged THEN physicalHysteresis ELSE calm
    /\ UNCHANGED <<refs, absent, present, mode, machine, handler, faults, lost>>

\* Display off.
SetOff ==
    /\ mode # "exited" /\ Room
    /\ dev' = Unplug(dev) /\ plugged' = FALSE /\ manualActive' = FALSE /\ autoActive' = FALSE
    /\ calm' = physicalHysteresis
    /\ UNCHANGED <<refs, absent, present, mode, machine, handler, faults, lost>>

\* teardownLocked: the holder is ended and waited for, or killed.  A reconcile
\* or a session that waits for the mutex comes after it.
Close ==
    /\ mode = "running" /\ mode' = "closed"
    /\ dev' = NoDevice /\ plugged' = FALSE /\ calm' = physicalHysteresis
    /\ UNCHANGED <<refs, autoActive, manualActive, absent, present, machine, handler, faults, lost>>

\* The process ends, after Close or without it, and with it all it knew.
Exit ==
    /\ mode # "exited" /\ mode' = "exited"
    /\ refs' = 0 /\ plugged' = FALSE /\ autoActive' = FALSE /\ manualActive' = FALSE
    /\ absent' = 0 /\ present' = 0 /\ lid' = "unknown" /\ calm' = physicalHysteresis
    /\ pc' = [s \in Session |-> "ended"] /\ sessions' = {} /\ linked' = FALSE
    /\ UNCHANGED <<dev, phys, console, enabled, force, faults, lost>>

\* The administrator changes the switch.
Switch ==
    /\ mode # "exited" /\ enabled' = ~enabled /\ Fault
    /\ UNCHANGED <<manager, mode, dev, lid, phys, console, force, handler, calm, lost>>

-----------------------------------------------------------------------------
(* desktop.Handler *)

At(s, l) == pc[s] = l /\ mode # "exited"
Goto(s, l) == pc' = [pc EXCEPT ![s] = l]

\* The core cannot be dialled, or refuses: the session is not counted off.
StartFails(s) ==
    /\ At(s, "starting") /\ Goto(s, "ended")
    /\ linked' \in {linked, FALSE}
    /\ UNCHANGED <<manager, mode, dev, machine, sessions, faults, calm, lost>>

Serve(s) ==
    /\ At(s, "starting") /\ Goto(s, "serving")
    /\ sessions' = sessions \cup {s} /\ linked' = TRUE
    /\ UNCHANGED <<manager, mode, dev, machine, faults, calm, lost>>

\* release: only the last one goes on to stop the capture and be counted off.
Release(s) ==
    /\ At(s, "serving")
    /\ sessions' = sessions \ {s}
    /\ Goto(s, IF sessions' = {} /\ linked THEN "stopping" ELSE "ended")
    /\ UNCHANGED <<manager, mode, dev, machine, linked, faults, calm, lost>>

\* The last session is taken for the last reference.
SessionEndedAll(s) ==
    /\ At(s, "stopping") /\ Goto(s, "ended") /\ Room
    /\ refs' = 0
    /\ IF autoActive /\ ~manualActive
       THEN dev' = Unplug(dev) /\ plugged' = FALSE /\ autoActive' = FALSE /\ calm' = physicalHysteresis
       ELSE UNCHANGED <<dev, plugged, autoActive, calm>>
    /\ UNCHANGED <<manualActive, absent, present, mode, machine, sessions, linked, faults, lost>>

\* SessionEnded.
SessionEnded(s) ==
    /\ At(s, "stopping") /\ Goto(s, "ended") /\ Room
    /\ refs' = IF refs > 0 THEN refs - 1 ELSE refs
    /\ IF refs' = 0 /\ autoActive /\ ~manualActive
       THEN dev' = Unplug(dev) /\ plugged' = FALSE /\ autoActive' = FALSE /\ calm' = physicalHysteresis
       ELSE UNCHANGED <<dev, plugged, autoActive, calm>>
    /\ UNCHANGED <<manualActive, absent, present, mode, machine, sessions, linked, faults, lost>>

-----------------------------------------------------------------------------
\* NewManager makes the device at once if it can.
Init ==
    /\ refs = 0 /\ plugged = FALSE /\ autoActive = FALSE /\ manualActive = FALSE
    /\ absent = 0 /\ present = 0 /\ mode = "running"
    /\ lid = "unknown" /\ phys \in BOOLEAN /\ console \in {"nobody", "standard", "admin"}
    /\ enabled \in BOOLEAN /\ force \in ForceLid
    /\ dev = IF enabled THEN StartDevice(NoDevice) ELSE NoDevice
    /\ pc = [s \in Session |-> "new"] /\ sessions = {} /\ linked = FALSE
    /\ faults = 0 /\ calm = physicalHysteresis /\ lost = FALSE

Holder == HolderReads \/ HolderReadsEnd
Next == \/ Holder \/ HolderDies
        \/ LidEvent \/ OutputChanges \/ LogsOn \/ LogsOff \/ Switch
        \/ Reconcile \/ SetOn \/ SetOff \/ Close \/ Exit
        \/ \E s \in Session : \/ SessionStarted(s) \/ StartFails(s) \/ Serve(s)
                              \/ Release(s) \/ SessionEnded(s)

Spec == Init /\ [][Next]_vars

\* The holder reads, the ticker runs and a release comes to its end; users,
\* sessions and the machine do as they like.
FairSpec == /\ Spec /\ WF_vars(Holder) /\ WF_vars(Reconcile)
            /\ \A s \in Session : WF_vars(SessionEnded(s))

-----------------------------------------------------------------------------
(* What holds. *)

\* Whatever sessions start, fail and end at the same time, those that still
\* run are counted, so the end of one never takes the screen from another; and
\* without a counted session no screen is plugged on behalf of one
\* (SessionStarted, SessionEnded, release).
CountedAreSafe ==
    /\ Cardinality({s \in Session : pc[s] \in {"starting", "serving", "stopping"}}) <= refs
    /\ mode = "running" /\ refs = 0 => ~autoActive

\* Where only the outputs decide, a screen that reconcile plugged or removed is
\* not changed back before the threshold of samples, however the outputs flap
\* (updatePhysicalStreaksLocked).
Steady ==
    [][Reconcile /\ plugged' # plugged /\ lid = "unknown" /\ force # "closed"
         => calm + 1 >= physicalHysteresis]_vars

\* The screen comes to be what the manager takes it for, unless the holder dies
\* under it or fails a command (holderCommand, runIddHold).
ScreenFollows ==
    /\ plugged ~> ~plugged \/ dev.screen \/ lost
    /\ ~plugged ~> plugged \/ ~dev.screen \/ lost

\* A screen is wanted on account of the lid alone.
Wanted == mode = "running" /\ enabled /\ refs > 0 /\ force = "" /\ lid = "closed" /\ console = "admin"

\* While a session runs with the lid closed it has a screen again and again,
\* whatever is switched by hand: a holder that died is found out and replaced,
\* unless it died under a plugged screen (reconcile, plugVirtualLocked).
ScreenArrives == <>[]Wanted => []<>dev.screen \/ <>lost

\* When the agent is gone the device goes, whether or not Close ran (runIddHold).
GoneWithAgent == mode = "exited" ~> ~dev.alive

(* What does not hold. *)

\* When all sessions have ended no screen is left that was made for them: the
\* handler counts every session in and only the last one off.
AutoRemoved == (\A s \in Session : pc[s] = "ended") ~> ~autoActive

\* The screen comes back after its holder died: nothing looks whether a plugged
\* screen is still there.
ScreenRecovers == <>[]Wanted => []<>dev.screen
=============================================================================
