------------------------------- MODULE Updater -------------------------------
(***************************************************************************)
(* Self-update of the Windows agent: agent/updater/updater.go, the         *)
(* watchdog script that watchdog_windows.go writes, the installer as       *)
(* orchestrate_windows.go runs it, and the callers in agent.go.            *)
(*                                                                         *)
(* One node's state directory is shared by the goroutines of the agent     *)
(* (orchestration, startup check, one self-check per connection), by the   *)
(* watchdog script and by the installer, which stops and replaces the      *)
(* agent that started it.  Every file operation is a step, so that the     *)
(* agent can crash, and the power can fail, between any two of them.       *)
(* Versions are numbers; the pending window and the 24 hours are timeouts  *)
(* that elapse when they elapse.                                           *)
(***************************************************************************)
EXTENDS Integers, FiniteSets

CONSTANTS
    MaxVersion,  \* bound: versions 1..MaxVersion, the node starts with 1
    Checks,      \* bound: self-checks that can run at the same time
    MaxFaults    \* bound: crashes of the agent, power losses, stashes that fail

ASSUME UpdaterAssumption ==
    /\ MaxVersion \in Nat \ {0} /\ MaxFaults \in Nat
    /\ "orch" \notin Checks /\ "startup" \notin Checks /\ "watchdog" \notin Checks

VARIABLES
    disk,       \* the state directory, and as history whether a stash failed and
                \* whether a watchdog was deleted that was not the deleter's own
    installed,  \* version of the program files
    self,       \* version of the running agent, 0 when none runs
    proc,       \* goroutines of the agent: where they are, and on which update
    wd,         \* the watchdog script
    setup,      \* the installer that runs (SetupMutex: one at a time)
    verified,   \* history: versions whose self-check was completed
    rolledBack, \* history: versions from which a rollback was started
    faults      \* crashes and power losses so far

vars == <<disk, installed, self, proc, wd, setup, verified, rolledBack, faults>>

Version == 1..MaxVersion
Proc == {"orch", "startup"} \cup Checks
Update == [from : 0..MaxVersion, to : 0..MaxVersion]
None == [from |-> 0, to |-> 0]       \* no pending file

Pc == {"idle", "load", "download", "source", "stash", "save", "register", "exec", "wait",
       "health", "refresh", "complete", "disarm", "tidy",
       "unmark", "unwatch", "restore"}
Task == [pc : Pc, up : Update]
Idle == [pc |-> "idle", up |-> None]
AllIdle == [g \in Proc |-> Idle]

Installer == [ver : Version, by : Proc \cup {"watchdog"}, st : {"started", "stopped"}]
NoSetup == [ver |-> 0, by |-> "none", st |-> "none"]

TypeOK ==
    /\ disk \in [pending : Update, late : BOOLEAN, task : BOOLEAN,
                 cache : SUBSET Version, stash : SUBSET Version, staging : SUBSET Version,
                 blacklist : SUBSET Version, unstashed : BOOLEAN, unguarded : BOOLEAN]
    /\ installed \in Version
    /\ self \in 0..MaxVersion
    /\ proc \in [Proc -> Task]
    /\ wd \in [pc : {"idle", "sleep", "missing"}, up : Update]
    /\ setup \in Installer \cup {NoSetup}
    /\ verified \subseteq Version
    /\ rolledBack \subseteq Version
    /\ faults \in 0..MaxFaults

\* A node that was installed by hand: its installer is in the cache.
Init ==
    /\ disk = [pending |-> None, late |-> FALSE, task |-> FALSE,
               cache |-> {1}, stash |-> {}, staging |-> {},
               blacklist |-> {}, unstashed |-> FALSE, unguarded |-> FALSE]
    /\ installed = 1 /\ self = 1
    /\ proc = AllIdle
    /\ wd = Idle
    /\ setup = NoSetup
    /\ verified = {1} /\ rolledBack = {}
    /\ faults = 0

-----------------------------------------------------------------------------
(* Helpers. *)

At(g, pc) == proc[g].pc = pc
Goto(g, pc) == proc' = [proc EXCEPT ![g].pc = pc]
Ends(g) == proc' = [proc EXCEPT ![g] = Idle]

\* The agent process comes up: StartupPendingCheck runs, no goroutine is left.
Starts(v) ==
    /\ self' = v
    /\ proc' = [AllIdle EXCEPT !["startup"].pc = "load"]

Dies == self' = 0 /\ proc' = AllIdle

\* Where Rollback looks for an installer, and where the watchdog does.
RollbackSources == disk.cache \cup disk.stash \cup disk.staging
WatchdogSources == disk.cache \cup disk.stash

\* Rollback of an update by a goroutine, up to its decision: the version is
\* blacklisted; without an old installer the pending mark is kept.
Rollback(g, up) ==
    /\ disk' = [disk EXCEPT !.blacklist = @ \cup {up.to}]
    /\ proc' = [proc EXCEPT ![g] = IF up.from \in RollbackSources
                                   THEN [pc |-> "unmark", up |-> up] ELSE Idle]

-----------------------------------------------------------------------------
(* applyUpdate, from the trigger to the installer. *)

\* Mutant: the blacklist is not consulted.
TriggerIgnoresBlacklist(v) ==
    /\ self # 0 /\ At("orch", "idle")
    /\ disk.pending = None
    /\ v > self
    /\ proc' = [proc EXCEPT !["orch"] = [pc |-> "download", up |-> [from |-> self, to |-> v]]]
    /\ UNCHANGED <<disk, installed, self, wd, setup, verified, rolledBack, faults>>

\* CheckNow, HandlePush and ForceCheck through the gates of orchestrateTrigger,
\* for whatever version the server offers.  A backoff holds CheckNow and
\* HandlePush back for a time, never ForceCheck, and is left out.
Trigger(v) ==
    /\ self # 0 /\ At("orch", "idle")
    /\ disk.pending = None
    /\ v > self
    /\ v \notin disk.blacklist
    /\ proc' = [proc EXCEPT !["orch"] = [pc |-> "download", up |-> [from |-> self, to |-> v]]]
    /\ UNCHANGED <<disk, installed, self, wd, setup, verified, rolledBack, faults>>

\* download and the sha256 check, which blacklists.
Download ==
    LET v == proc["orch"].up.to IN
    /\ At("orch", "download")
    /\ \/ /\ disk' = [disk EXCEPT !.staging = @ \cup {v}]
          /\ Goto("orch", "source")
       \/ UNCHANGED disk /\ Ends("orch")
       \/ /\ disk' = [disk EXCEPT !.staging = @ \ {v}, !.blacklist = @ \cup {v}]
          /\ Ends("orch")
    /\ UNCHANGED <<installed, self, wd, setup, verified, rolledBack, faults>>

\* The installer of the running version is in the cache, or copied there from
\* staging (which prunes the cache), or downloaded if it is still served.
ensureRollbackSource ==
    LET me == proc["orch"].up.from IN
    /\ At("orch", "source")
    /\ \/ /\ me \in disk.cache
          /\ Goto("orch", "stash") /\ UNCHANGED disk
       \/ /\ me \notin disk.cache
          /\ disk' = [disk EXCEPT !.cache = {me}, !.staging = @ \cup {me}]
          /\ Goto("orch", "stash")
       \/ /\ me \notin disk.cache
          /\ Ends("orch") /\ UNCHANGED disk
    /\ UNCHANGED <<installed, self, wd, setup, verified, rolledBack, faults>>

\* Mutant: the stash is left out.
stashRollbackSourceSkipped ==
    /\ At("orch", "stash")
    /\ Goto("orch", "save")
    /\ UNCHANGED <<disk, installed, self, wd, setup, verified, rolledBack, faults>>

\* A copy of that installer where the new installer does not prune; best effort.
stashRollbackSource ==
    /\ At("orch", "stash")
    /\ \/ /\ disk' = [disk EXCEPT !.stash = @ \cup (disk.cache \cap {proc["orch"].up.from})]
          /\ UNCHANGED faults
       \/ /\ faults < MaxFaults /\ faults' = faults + 1
          /\ disk' = [disk EXCEPT !.unstashed = TRUE]
    /\ Goto("orch", "save")
    /\ UNCHANGED <<installed, self, wd, setup, verified, rolledBack>>

SavePending ==
    /\ At("orch", "save")
    /\ \/ /\ disk' = [disk EXCEPT !.pending = proc["orch"].up, !.late = FALSE]
          /\ Goto("orch", "register")
       \/ UNCHANGED disk /\ Ends("orch")
    /\ UNCHANGED <<installed, self, wd, setup, verified, rolledBack, faults>>

\* No update without a watchdog.
RegisterWatchdog ==
    /\ At("orch", "register")
    /\ \/ /\ disk' = [disk EXCEPT !.task = TRUE]
          /\ Goto("orch", "exec")
       \/ /\ disk' = [disk EXCEPT !.pending = None]
          /\ Ends("orch")
    /\ UNCHANGED <<installed, self, wd, setup, verified, rolledBack, faults>>

\* execInstaller.  An installer that finds another one running exits with an
\* error, which blacklists the version and rolls back.
ExecInstaller ==
    LET up == proc["orch"].up IN
    /\ At("orch", "exec")
    /\ IF setup = NoSetup
       THEN /\ setup' = [ver |-> up.to, by |-> "orch", st |-> "started"]
            /\ Goto("orch", "wait") /\ UNCHANGED disk
       ELSE Rollback("orch", up) /\ UNCHANGED setup
    /\ UNCHANGED <<installed, self, wd, verified, rolledBack, faults>>

-----------------------------------------------------------------------------
(* The rest of Rollback, by orchestration, startup check or self-check. *)

RollbackUnmark(g) ==
    /\ At(g, "unmark")
    /\ disk' = [disk EXCEPT !.pending = None]
    /\ Goto(g, "unwatch")
    /\ UNCHANGED <<installed, self, wd, setup, verified, rolledBack, faults>>

RollbackUnwatch(g) ==
    /\ At(g, "unwatch")
    /\ disk' = [disk EXCEPT !.task = FALSE, !.unguarded = @ \/ disk.pending # None]
    /\ Goto(g, "restore")
    /\ UNCHANGED <<installed, self, wd, setup, verified, rolledBack, faults>>

RollbackRestore(g) ==
    /\ At(g, "restore")
    /\ IF setup = NoSetup
       THEN /\ setup' = [ver |-> proc[g].up.from, by |-> g, st |-> "started"]
            /\ rolledBack' = rolledBack \cup {proc[g].up.to}
            /\ Goto(g, "wait")
       ELSE Ends(g) /\ UNCHANGED <<setup, rolledBack>>
    /\ UNCHANGED <<disk, installed, self, wd, verified, faults>>

-----------------------------------------------------------------------------
(* SelfCheck and finalize, StartupPendingCheck. *)

\* OnReady: the control connection is up and the pending update is this version.
SelfCheck(c) ==
    /\ self # 0 /\ At(c, "idle")
    /\ disk.pending.to = self
    /\ proc' = [proc EXCEPT ![c] = [pc |-> "health", up |-> disk.pending]]
    /\ UNCHANGED <<disk, installed, self, wd, setup, verified, rolledBack, faults>>

\* The services are healthy, or they are not until the health window ends.
SelfCheckDecides(c) ==
    /\ At(c, "health")
    /\ \/ Goto(c, "refresh") /\ UNCHANGED disk
       \/ Rollback(c, proc[c].up)
    /\ UNCHANGED <<installed, self, wd, setup, verified, rolledBack, faults>>

\* finalize: CopyToCache keeps the new installer only.
FinalizeCache(c) ==
    LET v == proc[c].up.to IN
    /\ At(c, "refresh")
    /\ disk' = IF v \in disk.staging THEN [disk EXCEPT !.cache = {v}] ELSE disk
    /\ Goto(c, "complete")
    /\ UNCHANGED <<installed, self, wd, setup, verified, rolledBack, faults>>

FinalizeUnmark(c) ==
    /\ At(c, "complete")
    /\ disk' = [disk EXCEPT !.pending = None]
    /\ verified' = verified \cup {proc[c].up.to}
    /\ Goto(c, "disarm")
    /\ UNCHANGED <<installed, self, wd, setup, rolledBack, faults>>

FinalizeUnwatch(c) ==
    /\ At(c, "disarm")
    /\ disk' = [disk EXCEPT !.task = FALSE, !.unguarded = @ \/ disk.pending # None]
    /\ Goto(c, "tidy")
    /\ UNCHANGED <<installed, self, wd, setup, verified, rolledBack, faults>>

\* clearRollbackStash, ClearThrottle and the update_ok audit.
FinalizeTidy(c) ==
    /\ At(c, "tidy")
    /\ disk' = [disk EXCEPT !.stash = {}]
    /\ Ends(c)
    /\ UNCHANGED <<installed, self, wd, setup, verified, rolledBack, faults>>

\* A pending update of more than 24 hours, or of other versions than this one.
StartupPendingCheck ==
    /\ At("startup", "load")
    /\ IF disk.pending # None /\ (disk.late \/ self \notin {disk.pending.from, disk.pending.to})
       THEN Rollback("startup", disk.pending)
       ELSE Ends("startup") /\ UNCHANGED disk
    /\ UNCHANGED <<installed, self, wd, setup, verified, rolledBack, faults>>

-----------------------------------------------------------------------------
(* The installer: stops the agent, replaces the files, keeps itself as the  *)
(* only installer in the cache, starts the agent.  It may fail at any time. *)

InstallerStopsAgent ==
    /\ setup.st = "started"
    /\ setup' = [setup EXCEPT !.st = "stopped"]
    /\ Dies
    /\ UNCHANGED <<disk, installed, wd, verified, rolledBack, faults>>

InstallerFinishes ==
    /\ setup.st = "stopped"
    /\ setup' = NoSetup
    /\ installed' = setup.ver
    /\ disk' = [disk EXCEPT !.cache = {setup.ver}]
    /\ Starts(setup.ver)
    /\ UNCHANGED <<wd, verified, rolledBack, faults>>

\* Exit code, hang or timeout; the goroutine that waits for it, if the agent
\* still lives, blacklists and rolls back an update and gives up a rollback.
InstallerFails ==
    /\ setup # NoSetup
    /\ setup' = NoSetup
    /\ installed' \in {installed} \cup (IF setup.st = "stopped" THEN {setup.ver} ELSE {})
    /\ IF setup.by \in Proc /\ proc[setup.by].pc = "wait"
       THEN IF setup.ver = proc[setup.by].up.to
            THEN Rollback(setup.by, proc[setup.by].up)
            ELSE Ends(setup.by) /\ UNCHANGED disk
       ELSE UNCHANGED <<disk, proc>>
    /\ UNCHANGED <<self, wd, verified, rolledBack, faults>>

-----------------------------------------------------------------------------
(* The watchdog script, a one-shot task due after the pending window. *)

MayStart == self = 0 /\ setup.st # "stopped"

\* Mutant: the script leaves a running agent alone.
WatchdogFiresOnlyDown ==
    /\ disk.task /\ wd.pc = "idle"
    /\ ~At("orch", "exec")
    /\ disk' = [disk EXCEPT !.task = FALSE]
    /\ IF disk.pending = None \/ ~MayStart THEN UNCHANGED <<wd, self, proc>>
       ELSE wd' = [pc |-> "sleep", up |-> None] /\ Starts(installed)
    /\ UNCHANGED <<installed, setup, verified, rolledBack, faults>>

\* The task starts: nothing to do without a pending mark, else the agent gets a
\* last chance.  (A task that was registered a moment ago is not due.)
WatchdogFires ==
    /\ disk.task /\ wd.pc = "idle"
    /\ ~At("orch", "exec")
    /\ disk' = [disk EXCEPT !.task = FALSE]
    /\ IF disk.pending = None THEN UNCHANGED <<wd, self, proc>>
       ELSE /\ wd' = [pc |-> "sleep", up |-> None]
            /\ IF MayStart THEN Starts(installed) ELSE UNCHANGED <<self, proc>>
    /\ UNCHANGED <<installed, setup, verified, rolledBack, faults>>

\* Two minutes later; the orchestration's wait for its installer has timed out
\* a minute before.  Once a source is found, the mark is deleted and the old
\* installer is started at once; it exits if another one runs.
WatchdogWakes ==
    LET up == disk.pending IN
    /\ wd.pc = "sleep"
    /\ ~At("orch", "wait")
    /\ \/ /\ up # None /\ up.from \in WatchdogSources
          /\ wd' = Idle
          /\ disk' = [disk EXCEPT !.pending = None]
          /\ IF setup = NoSetup
             THEN /\ setup' = [ver |-> up.from, by |-> "watchdog", st |-> "started"]
                  /\ rolledBack' = rolledBack \cup {up.to}
             ELSE UNCHANGED <<setup, rolledBack>>
       \/ /\ up = None \/ up.from \notin WatchdogSources
          /\ wd' = IF up = None THEN Idle ELSE [pc |-> "missing", up |-> up]
          /\ UNCHANGED <<disk, setup, rolledBack>>
    /\ UNCHANGED <<installed, self, proc, verified, faults>>

WatchdogGivesUp ==
    /\ wd.pc = "missing"
    /\ wd' = Idle
    /\ UNCHANGED <<disk, installed, self, proc, setup, verified, rolledBack, faults>>

-----------------------------------------------------------------------------
(* The environment: time and crashes. *)

\* The pending file is more than 24 hours old: the watchdog, due after 17
\* minutes, has run or was missed, and nothing that takes minutes is under way.
PendingAges ==
    /\ disk.pending # None /\ ~disk.late
    /\ ~disk.task /\ wd.pc = "idle" /\ setup = NoSetup
    /\ At("orch", "idle") /\ At("startup", "idle")
    /\ disk' = [disk EXCEPT !.late = TRUE]
    /\ UNCHANGED <<installed, self, proc, wd, setup, verified, rolledBack, faults>>

\* The service manager starts the agent, unless an installer holds it stopped.
AgentStarts ==
    /\ MayStart
    /\ Starts(installed)
    /\ UNCHANGED <<disk, installed, wd, setup, verified, rolledBack, faults>>

AgentCrashes ==
    /\ self # 0 /\ faults < MaxFaults
    /\ Dies
    /\ faults' = faults + 1
    /\ UNCHANGED <<disk, installed, wd, setup, verified, rolledBack>>

\* The machine goes down with everything that runs on it; a task that is due
\* while it is off is missed.
PowerLoss ==
    /\ faults < MaxFaults
    /\ Dies
    /\ setup' = NoSetup /\ wd' = Idle
    /\ installed' \in {installed} \cup (IF setup.st = "stopped" THEN {setup.ver} ELSE {})
    /\ \E missed \in BOOLEAN : disk' = [disk EXCEPT !.task = @ /\ ~missed]
    /\ faults' = faults + 1
    /\ UNCHANGED <<verified, rolledBack>>

-----------------------------------------------------------------------------
Orchestrates ==
    \/ Download \/ ensureRollbackSource \/ stashRollbackSource \/ SavePending
    \/ RegisterWatchdog \/ ExecInstaller

RollsBack(g) == RollbackUnmark(g) \/ RollbackUnwatch(g) \/ RollbackRestore(g)

Finalizes(c) ==
    \/ SelfCheckDecides(c) \/ FinalizeCache(c) \/ FinalizeUnmark(c)
    \/ FinalizeUnwatch(c) \/ FinalizeTidy(c)

Watchdog == WatchdogFires \/ WatchdogWakes \/ WatchdogGivesUp

Next ==
    \/ \E v \in Version : Trigger(v)
    \/ Orchestrates
    \/ \E g \in Proc : RollsBack(g)
    \/ \E c \in Checks : SelfCheck(c) \/ Finalizes(c)
    \/ StartupPendingCheck
    \/ InstallerStopsAgent \/ InstallerFinishes \/ InstallerFails
    \/ Watchdog
    \/ PendingAges \/ AgentStarts \/ AgentCrashes \/ PowerLoss

Spec == Init /\ [][Next]_vars

(***************************************************************************)
(* Goroutines and scripts get on, installers end one way or the other, the *)
(* scheduled task runs when it is due, a stopped service is started.       *)
(***************************************************************************)
Fairness ==
    /\ WF_vars(Orchestrates) /\ WF_vars(StartupPendingCheck)
    /\ WF_vars(WatchdogFires) /\ WF_vars(WatchdogWakes) /\ WF_vars(WatchdogGivesUp)
    /\ WF_vars(AgentStarts)
    /\ \A g \in Proc : WF_vars(RollsBack(g))
    /\ \A c \in Checks : WF_vars(Finalizes(c))
    /\ WF_vars(InstallerFinishes \/ InstallerFails)

FairSpec == Spec /\ Fairness

-----------------------------------------------------------------------------
(***************************************************************************)
(* Properties.                                                             *)
(***************************************************************************)

\* While an update is pending, an installer of the version it came from is
\* somewhere Rollback looks: neither the new installer nor CopyToCache, which
\* keep one installer in the cache, nor a late finalize, takes the last one,
\* if the copy into the stash worked
\* (updater.go: ensureRollbackSource, stashRollbackSource, finalize).
SourceKept == disk.pending # None /\ ~disk.unstashed => disk.pending.from \in RollbackSources

\* No update under way aims at a blacklisted version, although the gate is
\* passed before the download and other goroutines and the watchdog roll back
\* meanwhile (updater.go: orchestrateTrigger, Rollback).
TargetAllowed ==
    proc["orch"].pc \in {"download", "source", "stash", "save", "register", "exec"}
        => proc["orch"].up.to \notin disk.blacklist

\* An update that is pending with its watchdog registered is completed or
\* rolled back in the end, also if the new agent never connects or the installer
\* dies, unless the stash failed or the tail of another update cleared it, so that
\* the watchdog finds no installer of the old version, or that tail deleted the
\* watchdog, or the agent or the machine goes down (updater.go: applyUpdate, Rollback; watchdog_windows.go).
UpdateResolved ==
    (disk.pending # None /\ disk.task)
        ~> \/ disk.pending = None
           \/ disk.pending.from \notin WatchdogSources
           \/ disk.unguarded
           \/ faults > (IF disk.unstashed THEN 1 ELSE 0)

\* The installer of an update runs only with its pending mark and a watchdog
\* in place (updater.go:340 "no watchdog, no update").
InstallerGuarded ==
    setup.by = "orch" /\ At("orch", "wait") /\ setup.ver = proc["orch"].up.to
        => /\ disk.pending = proc["orch"].up
           /\ disk.task \/ wd.pc = "sleep"

\* A version that was rolled back is not tried again (spec 9.4: it enters the
\* blacklist of 9.1).
RolledBackNotRetried ==
    proc["orch"].pc = "exec" => proc["orch"].up.to \notin rolledBack

\* The watchdog keeps the mark and gives up only when all three places lack
\* the old installer (watchdog_windows.go:104).
WatchdogSearchesAll ==
    wd.pc = "missing" => wd.up.from \notin RollbackSources

\* A version that never passed its self-check is not left installed without a
\* pending mark (updater.go:372).
Quiet ==
    /\ \A g \in Proc : proc[g].pc = "idle"
    /\ wd.pc = "idle" /\ setup = NoSetup /\ self # 0
NeverStranded == Quiet /\ disk.pending = None => installed \in verified
=============================================================================
