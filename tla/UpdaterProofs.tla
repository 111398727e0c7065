---------------------------- MODULE UpdaterProofs ----------------------------
(***************************************************************************)
(* TLAPS proofs about the self-update of the agent: while an update is     *)
(* pending a rollback finds the installer it needs, and no update under    *)
(* way aims at a version that was blacklisted.                             *)
(***************************************************************************)
EXTENDS Updater, TLAPS

USE UpdaterAssumption

Upgrade(up) == up.from < up.to
Others == Proc \ {"orch"}

\* Whoever is at work on an update knows one.
TasksAreUpgrades ==
    /\ disk.pending # None => Upgrade(disk.pending)
    /\ \A g \in Proc :
          /\ proc[g].pc \notin {"idle", "load"} => Upgrade(proc[g].up)
          /\ proc[g].pc \in {"unmark", "unwatch", "restore"} => proc[g].up.from \in Version
          \* Only the orchestration waits for the installer of a new version.
          /\ g # "orch" /\ proc[g].pc = "wait" =>
                setup # NoSetup /\ setup.by = g /\ setup.ver = proc[g].up.from

\* The orchestration updates the agent it runs in, and marks its own update.
OrchestrationIsOwn ==
    LET o == proc["orch"] IN
    /\ o.pc \in {"download", "source", "stash", "save", "register", "exec"} =>
          self # 0 /\ o.up.from = self
    /\ o.pc \in {"download", "source", "stash", "save"} => disk.pending = None
    /\ o.pc \in {"register", "exec"} => disk.pending = None \/ (disk.pending = o.up /\ ~disk.late)

\* What was downloaded stays in the staging directory while somebody works on it,
\* and the installer of before is in the cache until it has been stashed.
SourcesKept ==
    LET o == proc["orch"] IN
    /\ o.pc \in {"source", "stash", "save"} => o.up.to \in disk.staging
    /\ o.pc = "stash" => o.up.from \in disk.cache
    /\ o.pc = "save" /\ ~disk.unstashed => o.up.from \in disk.stash \cup disk.staging
    /\ disk.pending # None => disk.pending.to \in disk.staging
    /\ disk.pending # None /\ ~disk.unstashed => disk.pending.from \in disk.stash \cup disk.staging

\* A self-check is of the version that runs; what is pending after it has
\* deleted its mark is an update from this version.
ChecksAreOwn ==
    \A c \in Checks :
        /\ proc[c].pc \in {"health", "refresh", "complete", "disarm", "tidy"} =>
              self # 0 /\ proc[c].up.to = self /\ self \in disk.staging
        /\ proc[c].pc \in {"disarm", "tidy"} => disk.pending = None \/ disk.pending.from = self

UpdaterInv ==
    /\ TypeOK /\ TasksAreUpgrades /\ OrchestrationIsOwn /\ SourcesKept /\ ChecksAreOwn
    /\ TargetAllowed

DiskRec == [pending : Update, late : BOOLEAN, task : BOOLEAN,
            cache : SUBSET Version, stash : SUBSET Version, staging : SUBSET Version,
            blacklist : SUBSET Version, unstashed : BOOLEAN, unguarded : BOOLEAN]

LEMMA Rest ==
    /\ None \in Update /\ Idle \in Task /\ Idle.pc = "idle"
    /\ \A u \in Update : Upgrade(u) => u # None /\ u.to \in Version /\ u.from \in 0..MaxVersion
    /\ NoSetup \notin Installer /\ NoSetup.st = "none"
    /\ \A i \in Installer : i.ver \in Version /\ i # NoSetup
BY DEF None, Update, Idle, Task, Pc, Upgrade, Version, NoSetup, Installer

LEMMA NewTask == \A pc \in Pc, up \in Update :
    LET t == [pc |-> pc, up |-> up] IN t \in Task /\ t.pc = pc /\ t.up = up
BY DEF Task

LEMMA InitUpdater == Init => UpdaterInv
<1> SUFFICES ASSUME Init PROVE UpdaterInv
  OBVIOUS
<1>1. /\ disk.pending = None /\ disk \in DiskRec /\ self = 1 /\ 1 \in Version
  BY Rest DEF Init, DiskRec, Version
<1>2. \A g \in Proc : proc[g].pc = "idle"
  BY Rest DEF Init, AllIdle
<1>3. "orch" \in Proc /\ Checks \subseteq Proc
  BY DEF Proc
<1>4. TypeOK
  <2>1. proc \in [Proc -> Task]
    BY Rest DEF Init, AllIdle
  <2>2. wd \in [pc : {"idle", "sleep", "missing"}, up : Update]
    BY Rest DEF Init, Idle
  <2>3. installed \in Version /\ self \in 0..MaxVersion /\ verified \subseteq Version
        /\ rolledBack \subseteq Version /\ faults \in 0..MaxFaults /\ setup = NoSetup
    BY DEF Init, Version
  <2> QED BY <1>1, <2>1, <2>2, <2>3 DEF TypeOK, DiskRec
<1> QED BY <1>1, <1>2, <1>3, <1>4
        DEF UpdaterInv, TasksAreUpgrades, OrchestrationIsOwn, SourcesKept, ChecksAreOwn, TargetAllowed

-----------------------------------------------------------------------------
(* What the steps of one goroutine have to keep. *)

\* One goroutine goes on, the disk changes: what is left to say of the goroutine.
Fits(g, t) ==
    /\ t.pc \notin {"idle", "load"} => Upgrade(t.up)
    /\ t.pc \in {"unmark", "unwatch", "restore"} => t.up.from \in Version
    /\ g # "orch" /\ t.pc = "wait" => setup' # NoSetup /\ setup'.by = g /\ setup'.ver = t.up.from
    /\ g = "orch" =>
          /\ t.pc \in {"download", "source", "stash", "save", "register", "exec"} =>
                self # 0 /\ t.up.from = self /\ t.up.to \notin disk'.blacklist
          /\ t.pc \in {"download", "source", "stash", "save"} => disk'.pending = None
          /\ t.pc \in {"register", "exec"} =>
                disk'.pending = None \/ (disk'.pending = t.up /\ ~disk'.late)
          /\ t.pc \in {"source", "stash", "save"} => t.up.to \in disk'.staging
          /\ t.pc = "stash" => t.up.from \in disk'.cache
          /\ t.pc = "save" /\ ~disk'.unstashed => t.up.from \in disk'.stash \cup disk'.staging
    /\ g \in Checks =>
          /\ t.pc \in {"health", "refresh", "complete", "disarm", "tidy"} =>
                self # 0 /\ t.up.to = self /\ self \in disk'.staging
          /\ t.pc \in {"disarm", "tidy"} => disk'.pending = None \/ disk'.pending.from = self

\* What is pending can be rolled back.
PendingFits ==
    /\ disk.pending # None => Upgrade(disk.pending) /\ disk.pending.to \in disk.staging
    /\ disk.pending # None /\ ~disk.unstashed => disk.pending.from \in disk.stash \cup disk.staging

LEMMA InvByTask ==
    ASSUME TypeOK', PendingFits', self' = self, \A g \in Proc : Fits(g, proc'[g])
    PROVE  UpdaterInv'
<1>1. "orch" \in Proc /\ Checks \subseteq Proc /\ "orch" \notin Checks
  BY DEF Proc
<1>2. TasksAreUpgrades'
  BY DEF TasksAreUpgrades, PendingFits, Fits
<1>3. OrchestrationIsOwn' /\ SourcesKept' /\ TargetAllowed'
  <2>1. Fits("orch", proc'["orch"])
    BY <1>1
  <2> QED BY <2>1 DEF OrchestrationIsOwn, SourcesKept, TargetAllowed, PendingFits, Fits
<1>4. ChecksAreOwn'
  <2>1. \A c \in Checks : c # "orch" /\ Fits(c, proc'[c])
    BY <1>1
  <2> QED BY <2>1 DEF ChecksAreOwn, Fits
<1> QED BY <1>2, <1>3, <1>4 DEF UpdaterInv

\* The agent is gone or starts anew: there are no goroutines to speak of.
LEMMA InvFresh ==
    ASSUME TypeOK', PendingFits', \A g \in Proc : proc'[g].pc \in {"idle", "load"}
    PROVE  UpdaterInv'
<1>1. "orch" \in Proc /\ Checks \subseteq Proc
  BY DEF Proc
<1> QED BY <1>1 DEF UpdaterInv, TasksAreUpgrades, OrchestrationIsOwn, SourcesKept, ChecksAreOwn,
                     TargetAllowed, PendingFits

\* What the invariant says, in the same form.
LEMMA InvOfTask ==
    ASSUME UpdaterInv
    PROVE  /\ TypeOK /\ PendingFits /\ "orch" \in Proc /\ "startup" \in Proc /\ Checks \subseteq Proc
           /\ \A g \in Proc : proc[g] \in Task
           /\ (UNCHANGED <<disk, setup>> => \A g \in Proc : Fits(g, proc[g]))
<1>1. "orch" \in Proc /\ "startup" \in Proc /\ Checks \subseteq Proc /\ TypeOK
  BY DEF Proc, UpdaterInv
<1>2. PendingFits /\ \A g \in Proc : proc[g] \in Task
  BY DEF UpdaterInv, TypeOK, PendingFits, SourcesKept, TasksAreUpgrades
<1>3. ASSUME UNCHANGED <<disk, setup>>, NEW g \in Proc PROVE Fits(g, proc[g])
  BY <1>3 DEF UpdaterInv, TasksAreUpgrades, OrchestrationIsOwn, SourcesKept, ChecksAreOwn,
               TargetAllowed, Fits
<1> QED BY <1>1, <1>2, <1>3

LEMMA FreshStarts ==
    ASSUME NEW v \in 0..MaxVersion, Starts(v) \/ Dies
    PROVE  /\ proc' \in [Proc -> Task] /\ self' \in 0..MaxVersion
           /\ \A g \in Proc : proc'[g].pc \in {"idle", "load"}
<1>1. AllIdle \in [Proc -> Task] /\ \A g \in Proc : AllIdle[g] = Idle
  BY Rest DEF AllIdle
<1>2. CASE Dies
  BY <1>1, <1>2, Rest DEF Dies
<1>3. CASE Starts(v)
  <2>1. [Idle EXCEPT !.pc = "load"] \in Task /\ [Idle EXCEPT !.pc = "load"].pc = "load"
    BY Rest DEF Task, Pc
  <2> DEFINE t == [Idle EXCEPT !.pc = "load"]
  <2>2. proc' = [AllIdle EXCEPT !["startup"] = t] /\ self' = v /\ "startup" \in Proc
    BY <1>1, <1>3 DEF Starts, Proc
  <2> HIDE DEF t
  <2> QED BY <1>1, <2>1, <2>2, Rest DEF t
<1> QED BY <1>2, <1>3

-----------------------------------------------------------------------------
(* A goroutine takes a step: it fits afterwards, and so do the others. *)

LEMMA GoroutineStep ==
    ASSUME UpdaterInv, NEW g \in Proc, NEW t \in Task, proc' = [proc EXCEPT ![g] = t],
           disk' \in DiskRec, setup' \in Installer \cup {NoSetup}, verified' \subseteq Version,
           rolledBack' \subseteq Version, faults' \in 0..MaxFaults,
           installed' = installed \/ installed' \in Version, UNCHANGED <<self, wd>>,
           PendingFits', Fits(g, t),
           \A h \in Proc : h # g => Fits(h, proc[h])
    PROVE  UpdaterInv'
<1>1. /\ proc' \in [Proc -> Task] /\ proc'[g] = t
      /\ \A h \in Proc : h # g => proc'[h] = proc[h]
  BY DEF UpdaterInv, TypeOK
<1>2. TypeOK'
  BY <1>1 DEF UpdaterInv, TypeOK, DiskRec
<1>3. self' = self /\ \A h \in Proc : Fits(h, proc'[h])
  BY <1>1
<1> QED BY <1>2, <1>3, InvByTask

\* Where a goroutine goes on at another place with the update it has.
LEMMA GoesOn ==
    ASSUME NEW g \in Proc, NEW pc \in Pc, proc \in [Proc -> Task], Goto(g, pc)
    PROVE  \E t \in Task : t.pc = pc /\ t.up = proc[g].up /\ proc' = [proc EXCEPT ![g] = t]
<1> DEFINE t == [proc[g] EXCEPT !.pc = pc]
<1>1. t \in Task /\ t.pc = pc /\ t.up = proc[g].up
  <2>1. proc[g] \in Task
    OBVIOUS
  <2> QED BY <2>1 DEF Task
<1>2. proc' = [proc EXCEPT ![g] = t]
  BY DEF Goto
<1> HIDE DEF t
<1> QED BY <1>1, <1>2

LEMMA StopsHere ==
    ASSUME NEW g \in Proc, Ends(g)
    PROVE  \E t \in Task : t.pc = "idle" /\ proc' = [proc EXCEPT ![g] = t]
BY Rest DEF Ends

\* Types that the steps of goroutines need.
LEMMA Types ==
    ASSUME UpdaterInv
    PROVE  /\ disk \in DiskRec /\ setup \in Installer \cup {NoSetup} /\ self \in 0..MaxVersion
           /\ verified \subseteq Version /\ rolledBack \subseteq Version /\ faults \in 0..MaxFaults
           /\ installed \in Version /\ proc \in [Proc -> Task]
           /\ wd \in [pc : {"idle", "sleep", "missing"}, up : Update]
           /\ \A g \in Proc : proc[g].pc \in Pc /\ proc[g].up \in Update
BY DEF UpdaterInv, TypeOK, DiskRec, Task

LEMMA NextTrigger == ASSUME UpdaterInv, NEW v \in Version, Trigger(v) PROVE UpdaterInv'
<1>t. TypeOK /\ PendingFits /\ "orch" \in Proc
  BY InvOfTask
<1>y. disk \in DiskRec /\ setup \in Installer \cup {NoSetup} /\ self \in 0..MaxVersion
      /\ verified \subseteq Version /\ rolledBack \subseteq Version /\ faults \in 0..MaxFaults
  BY Types
<1> DEFINE up == [from |-> self, to |-> v]
           t == [pc |-> "download", up |-> up]
<1>1. up \in Update /\ up.from = self /\ up.to = v
  BY <1>y DEF Update, Version
<1>2. t \in Task /\ t.pc = "download" /\ t.up = up
  BY <1>1 DEF Task, Pc
<1>3. /\ proc' = [proc EXCEPT !["orch"] = t] /\ self # 0 /\ disk.pending = None
      /\ v > self /\ v \notin disk.blacklist
      /\ UNCHANGED <<disk, installed, self, wd, setup, verified, rolledBack, faults>>
  BY DEF Trigger
<1> HIDE DEF up, t
<1>4. Fits("orch", t)
  <2>1. "orch" \notin Checks
    OBVIOUS
  <2>2. Upgrade(t.up)
    BY <1>1, <1>2, <1>3, <1>y DEF Upgrade, Version
  <2> QED BY <1>1, <1>2, <1>3, <2>1, <2>2 DEF Fits
<1>5. \A h \in Proc : h # "orch" => Fits(h, proc[h])
  BY <1>3, InvOfTask
<1> QED BY <1>2, <1>3, <1>4, <1>5, <1>t, <1>y, GoroutineStep DEF PendingFits

LEMMA NextDownload == ASSUME UpdaterInv, Download PROVE UpdaterInv'
<1> DEFINE o == proc["orch"]
           v == o.up.to
<1>t. PendingFits /\ "orch" \in Proc /\ "orch" \notin Checks /\ Checks \subseteq Proc
  BY InvOfTask
<1>y. /\ disk \in DiskRec /\ setup \in Installer \cup {NoSetup} /\ self \in 0..MaxVersion
      /\ verified \subseteq Version /\ rolledBack \subseteq Version /\ faults \in 0..MaxFaults
      /\ proc \in [Proc -> Task] /\ \A g \in Proc : proc[g].pc \in Pc /\ proc[g].up \in Update
  BY Types
<1>o. /\ o.pc = "download" /\ Upgrade(o.up) /\ self # 0 /\ o.up.from = self /\ disk.pending = None
      /\ v \in Version /\ v > self /\ v \notin disk.blacklist
  BY <1>t, <1>y, Rest DEF Download, At, UpdaterInv, TasksAreUpgrades, OrchestrationIsOwn, TargetAllowed, Upgrade,
                    Update, Version
<1>u. UNCHANGED <<installed, self, wd, setup, verified, rolledBack, faults>>
  BY DEF Download
<1>1. CASE disk' = [disk EXCEPT !.staging = @ \cup {v}] /\ Goto("orch", "source")
  <2>1. PICK t \in Task : t.pc = "source" /\ t.up = o.up /\ proc' = [proc EXCEPT !["orch"] = t]
    BY <1>1, <1>t, <1>y, GoesOn DEF Pc
  <2>2. /\ disk' \in DiskRec /\ disk'.staging = disk.staging \cup {v} /\ disk'.pending = None
        /\ disk'.blacklist = disk.blacklist
    BY <1>1, <1>y, <1>o DEF DiskRec
  <2>3. Fits("orch", t) /\ PendingFits'
    BY <1>o, <1>t, <2>1, <2>2 DEF Fits, PendingFits
  <2>4. \A h \in Proc : h # "orch" => Fits(h, proc[h])
    BY <1>t, <1>u, <2>2 DEF UpdaterInv, TasksAreUpgrades, ChecksAreOwn, Fits
  <2> QED BY <1>t, <1>u, <1>y, <2>1, <2>2, <2>3, <2>4, GoroutineStep
<1>2. CASE UNCHANGED disk /\ Ends("orch")
  <2>1. PICK t \in Task : t.pc = "idle" /\ proc' = [proc EXCEPT !["orch"] = t]
    BY <1>2, <1>t, StopsHere
  <2>3. Fits("orch", t) /\ PendingFits'
    BY <1>2, <1>t, <2>1 DEF Fits, PendingFits
  <2>4. \A h \in Proc : h # "orch" => Fits(h, proc[h])
    BY <1>2, <1>u, InvOfTask
  <2> QED BY <1>2, <1>t, <1>u, <1>y, <2>1, <2>3, <2>4, GoroutineStep
<1>3. CASE /\ disk' = [disk EXCEPT !.staging = @ \ {v}, !.blacklist = @ \cup {v}] /\ Ends("orch")
  <2>1. PICK t \in Task : t.pc = "idle" /\ proc' = [proc EXCEPT !["orch"] = t]
    BY <1>3, <1>t, StopsHere
  <2>2. disk' \in DiskRec /\ disk'.staging = disk.staging \ {v} /\ disk'.pending = None
    BY <1>3, <1>y, <1>o DEF DiskRec
  <2>3. Fits("orch", t) /\ PendingFits'
    BY <1>t, <2>1, <2>2 DEF Fits, PendingFits
  <2>4. \A h \in Proc : h # "orch" => Fits(h, proc[h])
    \* What is thrown away is newer than the version that checks itself.
    <3>1. v # self
      BY <1>o, <1>y DEF Version
    <3> HIDE DEF v
    <3> QED BY <1>t, <1>u, <2>2, <3>1 DEF UpdaterInv, TasksAreUpgrades, ChecksAreOwn, Fits
  <2> QED BY <1>t, <1>u, <1>y, <2>1, <2>2, <2>3, <2>4, GoroutineStep
<1> QED BY <1>1, <1>2, <1>3 DEF Download

\* Another still fits where nothing is taken from the staging directory, the mark
\* is deleted at most or is of this version, and its installer is not replaced.
LEMMA OtherFits ==
    ASSUME UpdaterInv, disk.staging \subseteq disk'.staging,
           disk'.pending \in {None, disk.pending} \/ disk'.pending.from = self,
           NEW h \in Proc, h # "orch", setup' = setup \/ proc[h].pc # "wait"
    PROVE  Fits(h, proc[h])
BY DEF UpdaterInv, TasksAreUpgrades, ChecksAreOwn, Fits

LEMMA OthersFit ==
    ASSUME UpdaterInv, disk.staging \subseteq disk'.staging,
           disk'.pending \in {None, disk.pending} \/ disk'.pending.from = self,
           setup' = setup \/ setup = NoSetup
    PROVE  \A h \in Proc : h # "orch" => Fits(h, proc[h])
<1>1. \A h \in Proc : h # "orch" => setup' = setup \/ proc[h].pc # "wait"
  BY DEF UpdaterInv, TasksAreUpgrades
<1> QED BY <1>1, OtherFits

\* The orchestration still fits where nothing is taken that it needs.
LEMMA OrchestrationFits ==
    ASSUME UpdaterInv, disk.staging \subseteq disk'.staging, disk'.unstashed = disk.unstashed,
           disk'.pending \in {None, disk.pending}, disk'.late = disk.late,
           LET o == proc["orch"] IN
           /\ o.pc \in {"download", "source", "stash", "save", "register", "exec"} =>
                 o.up.to \notin disk'.blacklist
           /\ o.pc = "stash" => o.up.from \in disk'.cache
           /\ o.pc = "save" /\ ~disk.unstashed => o.up.from \in disk'.stash \cup disk'.staging
    PROVE  Fits("orch", proc["orch"])
<1>1. "orch" \in Proc /\ "orch" \notin Checks
  BY DEF Proc
<1> QED BY <1>1 DEF UpdaterInv, TasksAreUpgrades, OrchestrationIsOwn, SourcesKept, Fits

\* The orchestration before its installer runs.
LEMMA Orchestration ==
    ASSUME UpdaterInv, proc["orch"].pc \in {"download", "source", "stash", "save", "register", "exec"}
    PROVE  LET o == proc["orch"] IN
           /\ Upgrade(o.up) /\ self \in Version /\ o.up.from = self /\ o.up.to \in Version
           /\ o.up \in Update /\ o.up.to \notin disk.blacklist
           /\ o.pc \in {"source", "stash", "save"} => disk.pending = None /\ o.up.to \in disk.staging
           /\ o.pc \in {"register", "exec"} => disk.pending = None \/ (disk.pending = o.up /\ ~disk.late)
           /\ o.pc = "stash" => self \in disk.cache
           /\ o.pc = "save" /\ ~disk.unstashed => self \in disk.stash \cup disk.staging
<1>1. "orch" \in Proc /\ proc["orch"].up \in Update /\ self \in 0..MaxVersion
  BY Types, InvOfTask
<1>2. Upgrade(proc["orch"].up) /\ self # 0
  BY <1>1 DEF UpdaterInv, TasksAreUpgrades, OrchestrationIsOwn
<1>3. proc["orch"].up.to \in Version /\ self \in Version
  BY <1>1, <1>2, Rest DEF Version
<1> QED BY <1>1, <1>2, <1>3 DEF UpdaterInv, OrchestrationIsOwn, SourcesKept, TargetAllowed

LEMMA NextSource == ASSUME UpdaterInv, ensureRollbackSource PROVE UpdaterInv'
<1> DEFINE o == proc["orch"]
<1>t. PendingFits /\ "orch" \in Proc /\ "orch" \notin Checks /\ Checks \subseteq Proc
  BY InvOfTask
<1>y. /\ disk \in DiskRec /\ setup \in Installer \cup {NoSetup} /\ self \in 0..MaxVersion
      /\ verified \subseteq Version /\ rolledBack \subseteq Version /\ faults \in 0..MaxFaults
      /\ proc \in [Proc -> Task] /\ \A g \in Proc : proc[g].pc \in Pc /\ proc[g].up \in Update
  BY Types
<1>o. o.pc = "source"
  BY DEF ensureRollbackSource, At
<1>p. /\ Upgrade(o.up) /\ self \in Version /\ o.up.from = self /\ o.up.to \notin disk.blacklist
      /\ disk.pending = None /\ o.up.to \in disk.staging /\ self # 0
  BY <1>o, Orchestration DEF Version
<1>u. UNCHANGED <<installed, self, wd, setup, verified, rolledBack, faults>>
  BY DEF ensureRollbackSource
<1>1. ASSUME Goto("orch", "stash"), disk' \in DiskRec, disk'.pending = None,
             disk'.blacklist = disk.blacklist, disk.staging \subseteq disk'.staging, self \in disk'.cache
      PROVE  UpdaterInv'
  <2>1. PICK t \in Task : t.pc = "stash" /\ t.up = o.up /\ proc' = [proc EXCEPT !["orch"] = t]
    BY <1>1, <1>t, <1>y, GoesOn DEF Pc
  <2>2. Fits("orch", t) /\ PendingFits'
    BY <1>1, <1>p, <1>t, <2>1 DEF Fits, PendingFits
  <2>3. \A h \in Proc : h # "orch" => Fits(h, proc[h])
    BY <1>1, <1>u, OthersFit
  <2> QED BY <1>1, <1>t, <1>u, <1>y, <2>1, <2>2, <2>3, GoroutineStep
<1>2. CASE Ends("orch") /\ UNCHANGED disk
  <2>1. PICK t \in Task : t.pc = "idle" /\ proc' = [proc EXCEPT !["orch"] = t]
    BY <1>2, <1>t, StopsHere
  <2>2. Fits("orch", t) /\ PendingFits'
    BY <1>2, <1>t, <2>1 DEF Fits, PendingFits
  <2>3. \A h \in Proc : h # "orch" => Fits(h, proc[h])
    BY <1>2, <1>u, InvOfTask
  <2> QED BY <1>2, <1>t, <1>u, <1>y, <2>1, <2>2, <2>3, GoroutineStep
<1>3. CASE self \in disk.cache /\ Goto("orch", "stash") /\ UNCHANGED disk
  BY <1>1, <1>3, <1>p, <1>y
<1>4. CASE disk' = [disk EXCEPT !.cache = {self}, !.staging = @ \cup {self}] /\ Goto("orch", "stash")
  <2>1. /\ disk' \in DiskRec /\ disk'.pending = disk.pending /\ disk'.blacklist = disk.blacklist
        /\ disk'.staging = disk.staging \cup {self} /\ disk'.cache = {self}
    BY <1>4, <1>y, <1>p DEF DiskRec
  <2> QED BY <1>1, <1>4, <1>p, <2>1
<1> QED BY <1>2, <1>3, <1>4, <1>p DEF ensureRollbackSource

LEMMA NextStash == ASSUME UpdaterInv, stashRollbackSource PROVE UpdaterInv'
<1> DEFINE o == proc["orch"]
<1>t. PendingFits /\ "orch" \in Proc /\ "orch" \notin Checks /\ Checks \subseteq Proc
  BY InvOfTask
<1>y. /\ disk \in DiskRec /\ setup \in Installer \cup {NoSetup} /\ self \in 0..MaxVersion
      /\ verified \subseteq Version /\ rolledBack \subseteq Version /\ faults \in 0..MaxFaults
      /\ proc \in [Proc -> Task] /\ \A g \in Proc : proc[g].pc \in Pc /\ proc[g].up \in Update
  BY Types
<1>o. o.pc = "stash" /\ Goto("orch", "save")
  BY DEF stashRollbackSource, At
<1>p. /\ Upgrade(o.up) /\ self \in Version /\ o.up.from = self /\ o.up.to \notin disk.blacklist
      /\ disk.pending = None /\ o.up.to \in disk.staging /\ self # 0 /\ self \in disk.cache
  BY <1>o, Orchestration DEF Version
<1>u. UNCHANGED <<installed, self, wd, setup, verified, rolledBack>>
  BY DEF stashRollbackSource
<1>1. PICK t \in Task : t.pc = "save" /\ t.up = o.up /\ proc' = [proc EXCEPT !["orch"] = t]
  BY <1>o, <1>t, <1>y, GoesOn DEF Pc
<1>2. /\ disk' \in DiskRec /\ disk'.pending = None /\ disk'.blacklist = disk.blacklist
      /\ disk'.staging = disk.staging /\ (~disk'.unstashed => self \in disk'.stash)
  <2>1. CASE disk' = [disk EXCEPT !.stash = @ \cup (disk.cache \cap {self})]
    BY <2>1, <1>y, <1>p DEF DiskRec
  <2>2. CASE disk' = [disk EXCEPT !.unstashed = TRUE]
    BY <2>2, <1>y, <1>p DEF DiskRec
  <2> QED BY <2>1, <2>2, <1>p DEF stashRollbackSource
<1>3. faults' \in 0..MaxFaults
  BY <1>y DEF stashRollbackSource
<1>4. Fits("orch", t) /\ PendingFits'
  BY <1>p, <1>t, <1>1, <1>2 DEF Fits, PendingFits
<1>5. \A h \in Proc : h # "orch" => Fits(h, proc[h])
  BY <1>2, <1>u, OthersFit
<1> QED BY <1>t, <1>u, <1>y, <1>1, <1>2, <1>3, <1>4, <1>5, GoroutineStep

LEMMA NextSave == ASSUME UpdaterInv, SavePending PROVE UpdaterInv'
<1> DEFINE o == proc["orch"]
<1>t. PendingFits /\ "orch" \in Proc /\ "orch" \notin Checks /\ Checks \subseteq Proc
  BY InvOfTask
<1>y. /\ disk \in DiskRec /\ setup \in Installer \cup {NoSetup} /\ self \in 0..MaxVersion
      /\ verified \subseteq Version /\ rolledBack \subseteq Version /\ faults \in 0..MaxFaults
      /\ proc \in [Proc -> Task] /\ \A g \in Proc : proc[g].pc \in Pc /\ proc[g].up \in Update
  BY Types
<1>o. o.pc = "save"
  BY DEF SavePending, At
<1>p. /\ Upgrade(o.up) /\ self \in Version /\ o.up.from = self /\ o.up.to \notin disk.blacklist
      /\ disk.pending = None /\ o.up.to \in disk.staging /\ self # 0 /\ o.up \in Update
      /\ (~disk.unstashed => self \in disk.stash \cup disk.staging)
  BY <1>o, Orchestration DEF Version
<1>u. UNCHANGED <<installed, self, wd, setup, verified, rolledBack, faults>>
  BY DEF SavePending
<1>1. CASE disk' = [disk EXCEPT !.pending = o.up, !.late = FALSE] /\ Goto("orch", "register")
  <2>1. PICK t \in Task : t.pc = "register" /\ t.up = o.up /\ proc' = [proc EXCEPT !["orch"] = t]
    BY <1>1, <1>t, <1>y, GoesOn DEF Pc
  <2>2. /\ disk' \in DiskRec /\ disk'.pending = o.up /\ disk'.late = FALSE
        /\ disk'.blacklist = disk.blacklist /\ disk'.staging = disk.staging
        /\ disk'.stash = disk.stash /\ disk'.unstashed = disk.unstashed
    BY <1>1, <1>y, <1>p DEF DiskRec
  <2>3. Fits("orch", t) /\ PendingFits'
    BY <1>p, <1>t, <2>1, <2>2 DEF Fits, PendingFits
  <2>4. \A h \in Proc : h # "orch" => Fits(h, proc[h])
    BY <1>p, <1>u, <2>2, OthersFit
  <2> QED BY <1>t, <1>u, <1>y, <2>1, <2>2, <2>3, <2>4, GoroutineStep
<1>2. CASE UNCHANGED disk /\ Ends("orch")
  <2>1. PICK t \in Task : t.pc = "idle" /\ proc' = [proc EXCEPT !["orch"] = t]
    BY <1>2, <1>t, StopsHere
  <2>2. Fits("orch", t) /\ PendingFits'
    BY <1>2, <1>t, <2>1 DEF Fits, PendingFits
  <2>3. \A h \in Proc : h # "orch" => Fits(h, proc[h])
    BY <1>2, <1>u, InvOfTask
  <2> QED BY <1>2, <1>t, <1>u, <1>y, <2>1, <2>2, <2>3, GoroutineStep
<1> QED BY <1>1, <1>2 DEF SavePending

LEMMA NextRegister == ASSUME UpdaterInv, RegisterWatchdog PROVE UpdaterInv'
<1> DEFINE o == proc["orch"]
<1>t. PendingFits /\ "orch" \in Proc /\ "orch" \notin Checks /\ Checks \subseteq Proc
  BY InvOfTask
<1>y. /\ disk \in DiskRec /\ setup \in Installer \cup {NoSetup} /\ self \in 0..MaxVersion
      /\ verified \subseteq Version /\ rolledBack \subseteq Version /\ faults \in 0..MaxFaults
      /\ proc \in [Proc -> Task] /\ \A g \in Proc : proc[g].pc \in Pc /\ proc[g].up \in Update
  BY Types
<1>o. o.pc = "register"
  BY DEF RegisterWatchdog, At
<1>p. /\ Upgrade(o.up) /\ o.up.from = self /\ o.up.to \notin disk.blacklist /\ self # 0
      /\ disk.pending = None \/ (disk.pending = o.up /\ ~disk.late)
  BY <1>o, Orchestration DEF Version
<1>u. UNCHANGED <<installed, self, wd, setup, verified, rolledBack, faults>>
  BY DEF RegisterWatchdog
<1>1. CASE disk' = [disk EXCEPT !.task = TRUE] /\ Goto("orch", "exec")
  <2>1. PICK t \in Task : t.pc = "exec" /\ t.up = o.up /\ proc' = [proc EXCEPT !["orch"] = t]
    BY <1>1, <1>t, <1>y, GoesOn DEF Pc
  <2>2. /\ disk' \in DiskRec /\ disk'.pending = disk.pending /\ disk'.late = disk.late
        /\ disk'.blacklist = disk.blacklist /\ disk'.staging = disk.staging
        /\ disk'.stash = disk.stash /\ disk'.unstashed = disk.unstashed
    BY <1>1, <1>y DEF DiskRec
  <2>3. Fits("orch", t) /\ PendingFits'
    BY <1>p, <1>t, <2>1, <2>2 DEF Fits, PendingFits
  <2>4. \A h \in Proc : h # "orch" => Fits(h, proc[h])
    BY <1>u, <2>2, OthersFit
  <2> QED BY <1>t, <1>u, <1>y, <2>1, <2>2, <2>3, <2>4, GoroutineStep
<1>2. CASE disk' = [disk EXCEPT !.pending = None] /\ Ends("orch")
  <2>1. PICK t \in Task : t.pc = "idle" /\ proc' = [proc EXCEPT !["orch"] = t]
    BY <1>2, <1>t, StopsHere
  <2>2. disk' \in DiskRec /\ disk'.pending = None /\ disk'.staging = disk.staging
    BY <1>2, <1>y, Rest DEF DiskRec
  <2>3. Fits("orch", t) /\ PendingFits'
    BY <1>t, <2>1, <2>2 DEF Fits, PendingFits
  <2>4. \A h \in Proc : h # "orch" => Fits(h, proc[h])
    BY <1>u, <2>2, OthersFit
  <2> QED BY <1>t, <1>u, <1>y, <2>1, <2>2, <2>3, <2>4, GoroutineStep
<1> QED BY <1>1, <1>2 DEF RegisterWatchdog

-----------------------------------------------------------------------------
(* Rollback. *)

\* Whoever rolls an update back does not blacklist what another aims at.
LEMMA NextRollback ==
    ASSUME UpdaterInv, NEW g \in Proc, NEW up \in Update, Upgrade(up), Rollback(g, up),
           \/ g = "orch" \/ up.to # proc["orch"].up.to
           \/ proc["orch"].pc \notin {"download", "source", "stash", "save", "register", "exec"},
           setup' = setup \/ (setup' = NoSetup /\ setup.by = g),
           installed' = installed \/ installed' \in Version,
           UNCHANGED <<self, wd, verified, rolledBack, faults>>
    PROVE  UpdaterInv'
<1>t. PendingFits /\ "orch" \in Proc /\ "orch" \notin Checks /\ Checks \subseteq Proc
  BY InvOfTask
<1>y. /\ disk \in DiskRec /\ setup \in Installer \cup {NoSetup} /\ self \in 0..MaxVersion
      /\ verified \subseteq Version /\ rolledBack \subseteq Version /\ faults \in 0..MaxFaults
      /\ proc \in [Proc -> Task] /\ \A h \in Proc : proc[h].pc \in Pc /\ proc[h].up \in Update
  BY Types
<1>u. Upgrade(up) /\ up.to \in Version
  BY Rest
<1>d. /\ disk' \in DiskRec /\ disk'.pending = disk.pending /\ disk'.late = disk.late
      /\ disk'.blacklist = disk.blacklist \cup {up.to} /\ disk'.staging = disk.staging
      /\ disk'.cache = disk.cache /\ disk'.stash = disk.stash /\ disk'.unstashed = disk.unstashed
  BY <1>y, <1>u DEF Rollback, DiskRec
<1>1. PICK t \in Task : /\ proc' = [proc EXCEPT ![g] = t]
                        /\ t.pc = "idle" \/ (t.pc = "unmark" /\ t.up = up /\ up.from \in Version)
  <2>1. RollbackSources \subseteq Version
    BY <1>y DEF DiskRec, RollbackSources
  <2>2. CASE up.from \in RollbackSources
    <3> DEFINE t == [pc |-> "unmark", up |-> up]
    <3>1. t \in Task /\ t.pc = "unmark" /\ t.up = up
      BY DEF Task, Pc
    <3>2. proc' = [proc EXCEPT ![g] = t]
      BY <2>2 DEF Rollback
    <3> HIDE DEF t
    <3> QED BY <2>1, <2>2, <3>1, <3>2
  <2>3. CASE up.from \notin RollbackSources
    BY <2>3, Rest DEF Rollback
  <2> QED BY <2>2, <2>3
<1>2. Fits(g, t) /\ PendingFits'
  BY <1>1, <1>u, <1>d, <1>t DEF Fits, PendingFits
<1>3. ASSUME NEW h \in Proc, h # g PROVE Fits(h, proc[h])
  <2>1. CASE h = "orch"
    <3>1. LET o == proc["orch"] IN
          /\ o.pc \in {"download", "source", "stash", "save", "register", "exec"} =>
                o.up.to \notin disk'.blacklist
          /\ o.pc = "stash" => o.up.from \in disk'.cache
          /\ o.pc = "save" /\ ~disk.unstashed => o.up.from \in disk'.stash \cup disk'.staging
      BY <1>3, <1>d, <2>1 DEF UpdaterInv, TargetAllowed, SourcesKept
    <3> QED BY <1>d, <2>1, <3>1, OrchestrationFits
  <2>2. CASE h # "orch"
    <3>1. setup' = setup \/ proc[h].pc # "wait"
      BY <1>3, <2>2 DEF UpdaterInv, TasksAreUpgrades
    <3> QED BY <1>d, <2>2, <3>1, OtherFits
  <2> QED BY <2>1, <2>2
<1>4. setup' \in Installer \cup {NoSetup}
  BY <1>y
<1>5. /\ verified' \subseteq Version /\ rolledBack' \subseteq Version /\ faults' \in 0..MaxFaults
      /\ installed' = installed \/ installed' \in Version
      /\ UNCHANGED <<self, wd>>
  BY <1>y
<1> QED BY <1>d, <1>1, <1>2, <1>3, <1>4, <1>5, GoroutineStep

LEMMA NextExec == ASSUME UpdaterInv, ExecInstaller PROVE UpdaterInv'
<1> DEFINE o == proc["orch"]
<1>t. PendingFits /\ "orch" \in Proc /\ "orch" \notin Checks /\ Checks \subseteq Proc
  BY InvOfTask
<1>y. /\ disk \in DiskRec /\ setup \in Installer \cup {NoSetup} /\ self \in 0..MaxVersion
      /\ verified \subseteq Version /\ rolledBack \subseteq Version /\ faults \in 0..MaxFaults
      /\ proc \in [Proc -> Task] /\ \A g \in Proc : proc[g].pc \in Pc /\ proc[g].up \in Update
  BY Types
<1>o. o.pc = "exec"
  BY DEF ExecInstaller, At
<1>p. /\ Upgrade(o.up) /\ o.up.to \in Version /\ o.up \in Update
  BY <1>o, Orchestration DEF Version
<1>u. UNCHANGED <<installed, self, wd, verified, rolledBack, faults>>
  BY DEF ExecInstaller
<1>1. CASE setup = NoSetup
  <2>1. /\ setup' = [ver |-> o.up.to, by |-> "orch", st |-> "started"]
        /\ Goto("orch", "wait") /\ UNCHANGED disk
    BY <1>1 DEF ExecInstaller
  <2>2. PICK t \in Task : t.pc = "wait" /\ t.up = o.up /\ proc' = [proc EXCEPT !["orch"] = t]
    BY <2>1, <1>t, <1>y, GoesOn DEF Pc
  <2>3. setup' \in Installer
    BY <2>1, <1>p, <1>t DEF Installer
  <2>4. Fits("orch", t) /\ PendingFits'
    BY <1>p, <1>t, <2>1, <2>2 DEF Fits, PendingFits
  <2>5. \A h \in Proc : h # "orch" => Fits(h, proc[h])
    BY <1>1, <2>1, OthersFit
  <2> QED BY <1>t, <1>u, <1>y, <2>1, <2>2, <2>3, <2>4, <2>5, GoroutineStep
<1>2. CASE setup # NoSetup
  BY <1>2, <1>p, <1>t, <1>u, NextRollback DEF ExecInstaller
<1> QED BY <1>1, <1>2

LEMMA NextRollsBack == ASSUME UpdaterInv, NEW g \in Proc, RollsBack(g) PROVE UpdaterInv'
<1>t. PendingFits /\ "orch" \in Proc /\ "orch" \notin Checks /\ Checks \subseteq Proc
  BY InvOfTask
<1>y. /\ disk \in DiskRec /\ setup \in Installer \cup {NoSetup} /\ self \in 0..MaxVersion
      /\ verified \subseteq Version /\ rolledBack \subseteq Version /\ faults \in 0..MaxFaults
      /\ proc \in [Proc -> Task] /\ \A h \in Proc : proc[h].pc \in Pc /\ proc[h].up \in Update
  BY Types
<1>p. /\ proc[g].pc \in {"unmark", "unwatch", "restore"}
      /\ Upgrade(proc[g].up) /\ proc[g].up.from \in Version /\ proc[g].up.to \in Version
  <2>1. proc[g].pc \in {"unmark", "unwatch", "restore"}
    BY DEF RollsBack, RollbackUnmark, RollbackUnwatch, RollbackRestore, At
  <2>2. Upgrade(proc[g].up) /\ proc[g].up.from \in Version
    BY <2>1 DEF UpdaterInv, TasksAreUpgrades
  <2> QED BY <1>y, <2>1, <2>2, Rest
<1>f. ASSUME /\ disk' \in DiskRec /\ disk'.staging = disk.staging /\ disk'.unstashed = disk.unstashed
             /\ disk'.pending \in {None, disk.pending} /\ disk'.late = disk.late
             /\ disk'.blacklist = disk.blacklist /\ disk'.cache = disk.cache /\ disk'.stash = disk.stash,
             setup' = setup \/ setup = NoSetup
      PROVE  PendingFits' /\ \A h \in Proc : h # g => Fits(h, proc[h])
  <2>1. PendingFits'
    BY <1>f, <1>t DEF PendingFits
  <2>2. LET o == proc["orch"] IN
        /\ o.pc \in {"download", "source", "stash", "save", "register", "exec"} =>
              o.up.to \notin disk'.blacklist
        /\ o.pc = "stash" => o.up.from \in disk'.cache
        /\ o.pc = "save" /\ ~disk.unstashed => o.up.from \in disk'.stash \cup disk'.staging
    BY <1>f DEF UpdaterInv, TargetAllowed, SourcesKept
  <2>3. Fits("orch", proc["orch"])
    BY <1>f, <2>2, OrchestrationFits
  <2>4. \A h \in Proc : h # "orch" => Fits(h, proc[h])
    BY <1>f, OthersFit
  <2> QED BY <2>1, <2>3, <2>4
<1>1. CASE RollbackUnmark(g)
  <2>1. PICK t \in Task : t.pc = "unwatch" /\ t.up = proc[g].up /\ proc' = [proc EXCEPT ![g] = t]
    BY <1>1, <1>y, GoesOn DEF RollbackUnmark, Pc
  <2>2. /\ disk' \in DiskRec /\ disk'.staging = disk.staging /\ disk'.unstashed = disk.unstashed
        /\ disk'.pending \in {None, disk.pending} /\ disk'.late = disk.late
        /\ disk'.blacklist = disk.blacklist /\ disk'.cache = disk.cache /\ disk'.stash = disk.stash
    BY <1>1, <1>y, Rest DEF RollbackUnmark, DiskRec
  <2>3. Fits(g, t)
    BY <1>p, <1>t, <2>1 DEF Fits
  <2>4. UNCHANGED <<installed, self, wd, setup, verified, rolledBack, faults>>
    BY <1>1 DEF RollbackUnmark
  <2> QED BY <1>f, <1>y, <2>1, <2>2, <2>3, <2>4, GoroutineStep
<1>2. CASE RollbackUnwatch(g)
  <2>1. PICK t \in Task : t.pc = "restore" /\ t.up = proc[g].up /\ proc' = [proc EXCEPT ![g] = t]
    BY <1>2, <1>y, GoesOn DEF RollbackUnwatch, Pc
  <2>2. /\ disk' \in DiskRec /\ disk'.staging = disk.staging /\ disk'.unstashed = disk.unstashed
        /\ disk'.pending \in {None, disk.pending} /\ disk'.late = disk.late
        /\ disk'.blacklist = disk.blacklist /\ disk'.cache = disk.cache /\ disk'.stash = disk.stash
    BY <1>2, <1>y DEF RollbackUnwatch, DiskRec
  <2>3. Fits(g, t)
    BY <1>p, <1>t, <2>1 DEF Fits
  <2>4. UNCHANGED <<installed, self, wd, setup, verified, rolledBack, faults>>
    BY <1>2 DEF RollbackUnwatch
  <2> QED BY <1>f, <1>y, <2>1, <2>2, <2>3, <2>4, GoroutineStep
<1>3. CASE RollbackRestore(g) /\ setup = NoSetup
  <2>1. PICK t \in Task : t.pc = "wait" /\ t.up = proc[g].up /\ proc' = [proc EXCEPT ![g] = t]
    BY <1>3, <1>y, GoesOn DEF RollbackRestore, Pc
  <2>2. /\ setup' = [ver |-> proc[g].up.from, by |-> g, st |-> "started"]
        /\ rolledBack' = rolledBack \cup {proc[g].up.to}
        /\ UNCHANGED <<disk, installed, self, wd, verified, faults>>
    BY <1>3 DEF RollbackRestore
  <2>3. setup' \in Installer /\ setup'.by = g /\ setup'.ver = proc[g].up.from
    BY <1>p, <2>2 DEF Installer
  <2>4. Fits(g, t)
    BY <1>p, <1>t, <2>1, <2>3, Rest DEF Fits
  <2> QED BY <1>3, <1>f, <1>p, <1>y, <2>1, <2>2, <2>3, <2>4, GoroutineStep
<1>4. CASE RollbackRestore(g) /\ setup # NoSetup
  <2>1. PICK t \in Task : t.pc = "idle" /\ proc' = [proc EXCEPT ![g] = t]
    BY <1>4, StopsHere DEF RollbackRestore
  <2>2. UNCHANGED <<disk, installed, self, wd, setup, verified, rolledBack, faults>>
    BY <1>4 DEF RollbackRestore
  <2>3. Fits(g, t)
    BY <1>t, <2>1 DEF Fits
  <2> QED BY <1>f, <1>y, <2>1, <2>2, <2>3, GoroutineStep
<1> QED BY <1>1, <1>2, <1>3, <1>4 DEF RollsBack

-----------------------------------------------------------------------------
(* Self-check, finalize and startup check. *)

LEMMA NextSelfCheck == ASSUME UpdaterInv, NEW c \in Checks, SelfCheck(c) PROVE UpdaterInv'
<1>t. PendingFits /\ "orch" \in Proc /\ "orch" \notin Checks /\ Checks \subseteq Proc
  BY InvOfTask
<1>y. /\ disk \in DiskRec /\ setup \in Installer \cup {NoSetup} /\ self \in 0..MaxVersion
      /\ verified \subseteq Version /\ rolledBack \subseteq Version /\ faults \in 0..MaxFaults
      /\ proc \in [Proc -> Task] /\ \A g \in Proc : proc[g].pc \in Pc /\ proc[g].up \in Update
  BY Types
<1> DEFINE t == [pc |-> "health", up |-> disk.pending]
<1>1. /\ proc' = [proc EXCEPT ![c] = t] /\ self # 0 /\ disk.pending.to = self
      /\ UNCHANGED <<disk, installed, self, wd, setup, verified, rolledBack, faults>>
  BY DEF SelfCheck
<1>2. t \in Task /\ t.pc = "health" /\ t.up = disk.pending
  BY <1>y DEF Task, Pc, DiskRec
<1> HIDE DEF t
<1>3. disk.pending # None
  BY <1>1 DEF None
<1>4. Fits(c, t) /\ PendingFits'
  BY <1>1, <1>2, <1>3, <1>t DEF Fits, PendingFits
<1>5. \A h \in Proc : h # c => Fits(h, proc[h])
  BY <1>1, InvOfTask
<1> QED BY <1>t, <1>y, <1>1, <1>2, <1>4, <1>5, GoroutineStep

\* A self-check at work, and whose update it can blacklist: no orchestration's.
LEMMA SelfCheckAtWork ==
    ASSUME UpdaterInv, NEW c \in Checks,
           proc[c].pc \in {"health", "refresh", "complete", "disarm", "tidy"}
    PROVE  /\ Upgrade(proc[c].up) /\ proc[c].up \in Update /\ proc[c].up.to = self /\ self \in Version
           /\ self \in disk.staging
           /\ proc["orch"].pc \in {"download", "source", "stash", "save", "register", "exec"} =>
                 proc["orch"].up.from = self /\ proc["orch"].up.to # self
<1>1. c \in Proc /\ proc[c].up \in Update /\ self \in 0..MaxVersion
  BY InvOfTask, Types
<1>2. Upgrade(proc[c].up) /\ proc[c].up.to = self /\ self # 0 /\ self \in disk.staging
  BY <1>1 DEF UpdaterInv, TasksAreUpgrades, ChecksAreOwn
<1>3. ASSUME proc["orch"].pc \in {"download", "source", "stash", "save", "register", "exec"}
      PROVE  proc["orch"].up.from = self /\ proc["orch"].up.to # self
  <2>1. Upgrade(proc["orch"].up) /\ proc["orch"].up.from = self /\ self \in Version
        /\ proc["orch"].up.to \in Version
    BY <1>3, Orchestration
  <2> QED BY <2>1 DEF Upgrade, Version
<1> QED BY <1>1, <1>2, <1>3 DEF Version

\* A step of finalize: what it does to the disk takes nothing that is needed.
LEMMA FinalizeStep ==
    ASSUME UpdaterInv, NEW c \in Checks, NEW t \in Task, proc' = [proc EXCEPT ![c] = t],
           proc[c].pc \in {"health", "refresh", "complete", "disarm", "tidy"},
           disk' \in DiskRec, disk'.staging = disk.staging, disk'.unstashed = disk.unstashed,
           disk'.pending \in {None, disk.pending}, disk'.late = disk.late, disk'.blacklist = disk.blacklist,
           disk'.cache = disk.cache \/ self \in disk'.cache,
           disk'.stash = disk.stash \/ proc[c].pc = "tidy",
           \/ t.pc = "idle"
           \/ t.pc \in {"health", "refresh", "complete"} /\ t.up = proc[c].up
           \/ t.pc = "disarm" /\ t.up = proc[c].up /\ disk'.pending = None
           \/ t.pc = "tidy" /\ t.up = proc[c].up /\ proc[c].pc = "disarm",
           verified' \subseteq Version,
           UNCHANGED <<installed, self, wd, setup, rolledBack, faults>>
    PROVE  UpdaterInv'
<1>t. PendingFits /\ "orch" \in Proc /\ "orch" \notin Checks /\ Checks \subseteq Proc
  BY InvOfTask
<1>y. /\ disk \in DiskRec /\ setup \in Installer \cup {NoSetup} /\ self \in 0..MaxVersion
      /\ verified \subseteq Version /\ rolledBack \subseteq Version /\ faults \in 0..MaxFaults
      /\ proc \in [Proc -> Task] /\ \A g \in Proc : proc[g].pc \in Pc /\ proc[g].up \in Update
  BY Types
<1>c. /\ Upgrade(proc[c].up) /\ proc[c].up.to = self /\ self \in disk.staging /\ self # 0
      /\ c # "orch" /\ c \in Proc
      /\ proc["orch"].pc \in {"download", "source", "stash", "save", "register", "exec"} =>
            proc["orch"].up.from = self
  BY <1>t, SelfCheckAtWork DEF Version
<1>g. proc[c].pc \in {"disarm", "tidy"} => disk.pending = None \/ disk.pending.from = self
  BY DEF UpdaterInv, ChecksAreOwn
<1>1. PendingFits'
  BY <1>c, <1>g, <1>t DEF PendingFits
<1>2. Fits(c, t)
  BY <1>c, <1>g, <1>t DEF Fits
<1>3. Fits("orch", proc["orch"])
  <2>1. LET o == proc["orch"] IN
        /\ o.pc \in {"download", "source", "stash", "save", "register", "exec"} =>
              o.up.to \notin disk'.blacklist
        /\ o.pc = "stash" => o.up.from \in disk'.cache
        /\ o.pc = "save" /\ ~disk.unstashed => o.up.from \in disk'.stash \cup disk'.staging
    BY <1>c DEF UpdaterInv, TargetAllowed, SourcesKept
  <2> QED BY <2>1, OrchestrationFits
<1>4. \A h \in Proc : h # "orch" => Fits(h, proc[h])
  BY OthersFit
<1>5. \A h \in Proc : h # c => Fits(h, proc[h])
  BY <1>3, <1>4
<1> QED BY <1>c, <1>y, <1>1, <1>2, <1>5, GoroutineStep

LEMMA NextFinalizes == ASSUME UpdaterInv, NEW c \in Checks, Finalizes(c) PROVE UpdaterInv'
<1>t. PendingFits /\ "orch" \in Proc /\ "orch" \notin Checks /\ Checks \subseteq Proc
  BY InvOfTask
<1>y. /\ disk \in DiskRec /\ setup \in Installer \cup {NoSetup} /\ self \in 0..MaxVersion
      /\ verified \subseteq Version /\ rolledBack \subseteq Version /\ faults \in 0..MaxFaults
      /\ proc \in [Proc -> Task] /\ \A g \in Proc : proc[g].pc \in Pc /\ proc[g].up \in Update
  BY Types
<1>w. proc[c].pc \in {"health", "refresh", "complete", "disarm", "tidy"} /\ c \in Proc
  BY <1>t DEF Finalizes, SelfCheckDecides, FinalizeCache, FinalizeUnmark, FinalizeUnwatch, FinalizeTidy, At
<1>c. /\ Upgrade(proc[c].up) /\ proc[c].up \in Update /\ proc[c].up.to = self /\ self \in Version
      /\ self \in disk.staging
      /\ proc["orch"].pc \in {"download", "source", "stash", "save", "register", "exec"} =>
            proc["orch"].up.to # self
  BY <1>w, SelfCheckAtWork
<1>1. CASE SelfCheckDecides(c) /\ Goto(c, "refresh") /\ UNCHANGED disk
  <2>1. PICK t \in Task : t.pc = "refresh" /\ t.up = proc[c].up /\ proc' = [proc EXCEPT ![c] = t]
    BY <1>1, <1>w, <1>y, GoesOn DEF Pc
  <2>2. UNCHANGED <<installed, self, wd, setup, verified, rolledBack, faults>>
    BY <1>1 DEF SelfCheckDecides
  <2> QED BY <1>1, <1>w, <1>y, <2>1, <2>2, FinalizeStep
<1>2. CASE SelfCheckDecides(c) /\ Rollback(c, proc[c].up)
  <2>1. UNCHANGED <<installed, self, wd, setup, verified, rolledBack, faults>>
    BY <1>2 DEF SelfCheckDecides
  <2> QED BY <1>2, <1>w, <1>c, <2>1, NextRollback
<1>3. CASE FinalizeCache(c)
  <2>1. PICK t \in Task : t.pc = "complete" /\ t.up = proc[c].up /\ proc' = [proc EXCEPT ![c] = t]
    BY <1>3, <1>w, <1>y, GoesOn DEF FinalizeCache, Pc
  <2>2. disk' = [disk EXCEPT !.cache = {self}] /\ UNCHANGED <<installed, self, wd, setup, verified, rolledBack, faults>>
    BY <1>3, <1>c DEF FinalizeCache
  <2>3. /\ disk' \in DiskRec /\ disk'.staging = disk.staging /\ disk'.unstashed = disk.unstashed
        /\ disk'.pending = disk.pending /\ disk'.late = disk.late /\ disk'.blacklist = disk.blacklist
        /\ disk'.cache = {self} /\ disk'.stash = disk.stash
    BY <1>c, <1>y, <2>2 DEF DiskRec
  <2> QED BY <1>w, <1>y, <2>1, <2>2, <2>3, FinalizeStep
<1>4. CASE FinalizeUnmark(c)
  <2>1. PICK t \in Task : t.pc = "disarm" /\ t.up = proc[c].up /\ proc' = [proc EXCEPT ![c] = t]
    BY <1>4, <1>w, <1>y, GoesOn DEF FinalizeUnmark, Pc
  <2>2. /\ disk' = [disk EXCEPT !.pending = None] /\ verified' = verified \cup {self}
        /\ UNCHANGED <<installed, self, wd, setup, rolledBack, faults>>
    BY <1>4, <1>c DEF FinalizeUnmark
  <2>3. /\ disk' \in DiskRec /\ disk'.staging = disk.staging /\ disk'.unstashed = disk.unstashed
        /\ disk'.pending = None /\ disk'.late = disk.late /\ disk'.blacklist = disk.blacklist
        /\ disk'.cache = disk.cache /\ disk'.stash = disk.stash
    BY <1>y, <2>2, Rest DEF DiskRec
  <2> QED BY <1>c, <1>w, <1>y, <2>1, <2>2, <2>3, FinalizeStep
<1>5. CASE FinalizeUnwatch(c)
  <2>1. PICK t \in Task : t.pc = "tidy" /\ t.up = proc[c].up /\ proc' = [proc EXCEPT ![c] = t]
    BY <1>5, <1>w, <1>y, GoesOn DEF FinalizeUnwatch, Pc
  <2>2. proc[c].pc = "disarm" /\ UNCHANGED <<installed, self, wd, setup, verified, rolledBack, faults>>
    BY <1>5 DEF FinalizeUnwatch, At
  <2>3. /\ disk' \in DiskRec /\ disk'.staging = disk.staging /\ disk'.unstashed = disk.unstashed
        /\ disk'.pending = disk.pending /\ disk'.late = disk.late /\ disk'.blacklist = disk.blacklist
        /\ disk'.cache = disk.cache /\ disk'.stash = disk.stash
    BY <1>5, <1>y DEF FinalizeUnwatch, DiskRec
  <2> QED BY <1>w, <1>y, <2>1, <2>2, <2>3, FinalizeStep
<1>6. CASE FinalizeTidy(c)
  <2>1. PICK t \in Task : t.pc = "idle" /\ proc' = [proc EXCEPT ![c] = t]
    BY <1>6, <1>w, StopsHere DEF FinalizeTidy
  <2>2. /\ proc[c].pc = "tidy" /\ disk' = [disk EXCEPT !.stash = {}]
        /\ UNCHANGED <<installed, self, wd, setup, verified, rolledBack, faults>>
    BY <1>6 DEF FinalizeTidy, At
  <2>3. /\ disk' \in DiskRec /\ disk'.staging = disk.staging /\ disk'.unstashed = disk.unstashed
        /\ disk'.pending = disk.pending /\ disk'.late = disk.late /\ disk'.blacklist = disk.blacklist
        /\ disk'.cache = disk.cache
    BY <1>y, <2>2 DEF DiskRec
  <2> QED BY <1>w, <1>y, <2>1, <2>2, <2>3, FinalizeStep
<1> QED BY <1>1, <1>2, <1>3, <1>4, <1>5, <1>6 DEF Finalizes, SelfCheckDecides

LEMMA NextStartup == ASSUME UpdaterInv, StartupPendingCheck PROVE UpdaterInv'
<1>t. PendingFits /\ "orch" \in Proc /\ "orch" \notin Checks /\ Checks \subseteq Proc
  BY InvOfTask
<1>y. /\ disk \in DiskRec /\ setup \in Installer \cup {NoSetup} /\ self \in 0..MaxVersion
      /\ verified \subseteq Version /\ rolledBack \subseteq Version /\ faults \in 0..MaxFaults
      /\ proc \in [Proc -> Task] /\ \A g \in Proc : proc[g].pc \in Pc /\ proc[g].up \in Update
  BY Types
<1>s. "startup" \in Proc
  BY DEF Proc
<1>u. UNCHANGED <<installed, self, wd, setup, verified, rolledBack, faults>>
  BY DEF StartupPendingCheck
<1>1. CASE /\ disk.pending # None /\ (disk.late \/ self \notin {disk.pending.from, disk.pending.to})
           /\ Rollback("startup", disk.pending)
  \* A mark that is to be rolled back is not the mark of an update under way.
  <2>1. proc["orch"].pc \notin {"download", "source", "stash", "save", "register", "exec"}
    BY <1>1 DEF UpdaterInv, OrchestrationIsOwn
  <2>2. disk.pending \in Update /\ Upgrade(disk.pending)
    BY <1>1, <1>t, <1>y DEF DiskRec, PendingFits
  <2> QED BY <1>1, <1>s, <1>u, <2>1, <2>2, NextRollback
<1>2. CASE Ends("startup") /\ UNCHANGED disk
  <2>1. PICK t \in Task : t.pc = "idle" /\ proc' = [proc EXCEPT !["startup"] = t]
    BY <1>2, <1>s, StopsHere
  <2>2. Fits("startup", t) /\ PendingFits'
    BY <1>2, <1>t, <2>1 DEF Fits, PendingFits
  <2>3. \A h \in Proc : h # "startup" => Fits(h, proc[h])
    BY <1>2, <1>u, InvOfTask
  <2> QED BY <1>2, <1>s, <1>u, <1>y, <2>1, <2>2, <2>3, GoroutineStep
<1> QED BY <1>1, <1>2 DEF StartupPendingCheck

-----------------------------------------------------------------------------
(* The installer, the watchdog, time and crashes. *)

LEMMA NextInstaller ==
    ASSUME UpdaterInv, InstallerStopsAgent \/ InstallerFinishes \/ InstallerFails
    PROVE  UpdaterInv'
<1>t. PendingFits /\ "orch" \in Proc /\ "orch" \notin Checks /\ Checks \subseteq Proc
  BY InvOfTask
<1>y. /\ disk \in DiskRec /\ setup \in Installer \cup {NoSetup} /\ self \in 0..MaxVersion
      /\ verified \subseteq Version /\ rolledBack \subseteq Version /\ faults \in 0..MaxFaults
      /\ proc \in [Proc -> Task] /\ \A g \in Proc : proc[g].pc \in Pc /\ proc[g].up \in Update
  BY Types
<1>w. wd \in [pc : {"idle", "sleep", "missing"}, up : Update] /\ installed \in Version
  BY Types
<1>1. CASE InstallerStopsAgent
  <2>1. setup \in Installer
    BY <1>1, <1>y, Rest DEF InstallerStopsAgent
  <2>2. setup' \in Installer
    BY <1>1, <2>1 DEF InstallerStopsAgent, Installer
  <2>3. proc' \in [Proc -> Task] /\ self' \in 0..MaxVersion /\ \A g \in Proc : proc'[g].pc \in {"idle", "load"}
    BY <1>1, <1>y, FreshStarts DEF InstallerStopsAgent
  <2>4. UNCHANGED <<disk, installed, wd, verified, rolledBack, faults>>
    BY <1>1 DEF InstallerStopsAgent
  <2>5. TypeOK'
    BY <1>w, <1>y, <2>2, <2>3, <2>4 DEF TypeOK, DiskRec
  <2> QED BY <1>t, <2>3, <2>4, <2>5, InvFresh DEF PendingFits
<1>2. CASE InstallerFinishes
  <2>1. setup \in Installer /\ setup.ver \in Version /\ setup.ver \in 0..MaxVersion
    BY <1>2, <1>y, Rest DEF InstallerFinishes, Version
  <2>2. /\ disk' \in DiskRec /\ disk'.pending = disk.pending /\ disk'.staging = disk.staging
        /\ disk'.stash = disk.stash /\ disk'.unstashed = disk.unstashed
    BY <1>2, <1>y, <2>1 DEF InstallerFinishes, DiskRec
  <2>3. proc' \in [Proc -> Task] /\ self' \in 0..MaxVersion /\ \A g \in Proc : proc'[g].pc \in {"idle", "load"}
    BY <1>2, <2>1, FreshStarts DEF InstallerFinishes
  <2>4. setup' = NoSetup /\ installed' = setup.ver /\ UNCHANGED <<wd, verified, rolledBack, faults>>
    BY <1>2 DEF InstallerFinishes
  <2>5. TypeOK'
    BY <1>w, <1>y, <2>1, <2>2, <2>3, <2>4 DEF TypeOK, DiskRec
  <2> QED BY <1>t, <2>2, <2>3, <2>5, InvFresh DEF PendingFits
<1>3. CASE InstallerFails
  <2>1. setup \in Installer /\ setup.ver \in Version
    BY <1>3, <1>y, Rest DEF InstallerFails
  <2>2. setup' = NoSetup /\ UNCHANGED <<self, wd, verified, rolledBack, faults>> /\ installed' \in Version
    BY <1>3, <1>w, <2>1 DEF InstallerFails
  <2> DEFINE b == setup.by
  <2>3. CASE b \in Proc /\ proc[b].pc = "wait" /\ setup.ver = proc[b].up.to
    <3>1. Rollback(b, proc[b].up)
      BY <1>3, <2>3 DEF InstallerFails
    <3>2. proc[b].up \in Update /\ Upgrade(proc[b].up)
      BY <1>y, <2>3 DEF UpdaterInv, TasksAreUpgrades
    <3>3. b = "orch"
      \* Another waits for the installer of the version before.
      BY <1>y, <2>3, <3>2 DEF UpdaterInv, TasksAreUpgrades, Upgrade, Update
    <3> QED BY <2>2, <2>3, <3>1, <3>2, <3>3, NextRollback
  <2>4. CASE b \in Proc /\ proc[b].pc = "wait" /\ setup.ver # proc[b].up.to
    <3>1. Ends(b) /\ UNCHANGED disk
      BY <1>3, <2>4 DEF InstallerFails
    <3>2. PICK t \in Task : t.pc = "idle" /\ proc' = [proc EXCEPT ![b] = t]
      BY <2>4, <3>1, StopsHere
    <3>3. Fits(b, t) /\ PendingFits'
      BY <1>t, <3>1, <3>2 DEF Fits, PendingFits
    <3>4. ASSUME NEW h \in Proc, h # b PROVE Fits(h, proc[h])
      <4>1. h # "orch" => proc[h].pc # "wait"
        BY <3>4 DEF UpdaterInv, TasksAreUpgrades
      <4> QED BY <3>1, <4>1, <1>t DEF UpdaterInv, TasksAreUpgrades, OrchestrationIsOwn, SourcesKept,
                                 ChecksAreOwn, TargetAllowed, Fits
    <3> QED BY <1>y, <2>2, <2>4, <3>1, <3>2, <3>3, <3>4, GoroutineStep
  <2>5. CASE ~(b \in Proc /\ proc[b].pc = "wait")
    <3>1. UNCHANGED <<disk, proc>>
      BY <1>3, <2>5 DEF InstallerFails
    <3>2. TypeOK' /\ PendingFits' /\ self' = self
      BY <1>t, <1>w, <1>y, <2>2, <3>1 DEF TypeOK, DiskRec, PendingFits
    <3>3. ASSUME NEW h \in Proc PROVE Fits(h, proc'[h])
      <4>1. h # "orch" => proc[h].pc # "wait"
        BY <2>5 DEF UpdaterInv, TasksAreUpgrades
      <4> QED BY <3>1, <4>1, <1>t DEF UpdaterInv, TasksAreUpgrades, OrchestrationIsOwn, SourcesKept,
                                 ChecksAreOwn, TargetAllowed, Fits
    <3> QED BY <3>2, <3>3, InvByTask
  <2> QED BY <2>3, <2>4, <2>5
<1> QED BY <1>1, <1>2, <1>3

\* A step of no goroutine, under the goroutines' feet.
LEMMA AroundGoroutines ==
    ASSUME UpdaterInv, disk' \in DiskRec, setup' \in Installer \cup {NoSetup},
           wd' \in [pc : {"idle", "sleep", "missing"}, up : Update], rolledBack' \subseteq Version,
           disk'.staging = disk.staging, disk'.unstashed = disk.unstashed, disk'.stash = disk.stash,
           disk'.cache = disk.cache, disk'.blacklist = disk.blacklist,
           disk'.pending \in {None, disk.pending},
           disk'.late = disk.late \/ proc["orch"].pc = "idle",
           setup' = setup \/ setup = NoSetup,
           UNCHANGED <<installed, self, proc, verified, faults>>
    PROVE  UpdaterInv'
<1>t. PendingFits /\ "orch" \in Proc /\ "orch" \notin Checks /\ Checks \subseteq Proc
  BY InvOfTask
<1>y. /\ disk \in DiskRec /\ setup \in Installer \cup {NoSetup} /\ self \in 0..MaxVersion
      /\ verified \subseteq Version /\ rolledBack \subseteq Version /\ faults \in 0..MaxFaults
      /\ proc \in [Proc -> Task] /\ \A g \in Proc : proc[g].pc \in Pc /\ proc[g].up \in Update
  BY Types
<1>w. wd \in [pc : {"idle", "sleep", "missing"}, up : Update] /\ installed \in Version
  BY Types
<1>1. TypeOK'
  BY <1>w, <1>y DEF TypeOK, DiskRec
<1>2. PendingFits'
  BY <1>t DEF PendingFits
<1>3. Fits("orch", proc["orch"])
  <2>1. CASE disk'.late = disk.late
    <3>1. LET o == proc["orch"] IN
          /\ o.pc \in {"download", "source", "stash", "save", "register", "exec"} =>
                o.up.to \notin disk'.blacklist
          /\ o.pc = "stash" => o.up.from \in disk'.cache
          /\ o.pc = "save" /\ ~disk.unstashed => o.up.from \in disk'.stash \cup disk'.staging
      BY DEF UpdaterInv, TargetAllowed, SourcesKept
    <3> QED BY <2>1, <3>1, OrchestrationFits
  <2>2. CASE proc["orch"].pc = "idle"
    BY <1>t, <2>2 DEF Fits
  <2> QED BY <2>1, <2>2
<1>4. \A h \in Proc : h # "orch" => Fits(h, proc[h])
  BY OthersFit
<1>5. \A h \in Proc : Fits(h, proc'[h])
  BY <1>3, <1>4
<1> QED BY <1>1, <1>2, <1>5, InvByTask

LEMMA NextWatchdog == ASSUME UpdaterInv, Watchdog PROVE UpdaterInv'
<1>t. PendingFits /\ "orch" \in Proc /\ "orch" \notin Checks /\ Checks \subseteq Proc
  BY InvOfTask
<1>y. /\ disk \in DiskRec /\ setup \in Installer \cup {NoSetup} /\ self \in 0..MaxVersion
      /\ verified \subseteq Version /\ rolledBack \subseteq Version /\ faults \in 0..MaxFaults
      /\ proc \in [Proc -> Task] /\ \A g \in Proc : proc[g].pc \in Pc /\ proc[g].up \in Update
  BY Types
<1>w. wd \in [pc : {"idle", "sleep", "missing"}, up : Update] /\ installed \in Version
  BY Types
<1>i. Idle \in [pc : {"idle", "sleep", "missing"}, up : Update] /\ None \in Update
  BY Rest DEF Idle
<1>1. CASE WatchdogFires
  <2>1. /\ disk' \in DiskRec /\ disk'.pending = disk.pending /\ disk'.late = disk.late
        /\ disk'.staging = disk.staging /\ disk'.stash = disk.stash /\ disk'.unstashed = disk.unstashed
        /\ disk'.cache = disk.cache /\ disk'.blacklist = disk.blacklist
    BY <1>1, <1>y DEF WatchdogFires, DiskRec
  <2>2. wd' \in [pc : {"idle", "sleep", "missing"}, up : Update]
    BY <1>1, <1>w, <1>i DEF WatchdogFires
  <2>3. UNCHANGED <<installed, setup, verified, rolledBack, faults>>
    BY <1>1 DEF WatchdogFires
  <2>4. CASE UNCHANGED <<self, proc>>
    BY <1>y, <2>1, <2>2, <2>3, <2>4, AroundGoroutines
  <2>5. CASE Starts(installed)
    <3>1. proc' \in [Proc -> Task] /\ self' \in 0..MaxVersion /\ \A g \in Proc : proc'[g].pc \in {"idle", "load"}
      BY <1>w, <2>5, FreshStarts DEF Version
    <3>2. TypeOK'
      BY <1>w, <1>y, <2>1, <2>2, <2>3, <3>1 DEF TypeOK, DiskRec
    <3> QED BY <1>t, <2>1, <3>1, <3>2, InvFresh DEF PendingFits
  <2> QED BY <1>1, <2>4, <2>5 DEF WatchdogFires
<1>2. CASE WatchdogWakes
  <2>1. UNCHANGED <<installed, self, proc, verified, faults>>
    BY <1>2 DEF WatchdogWakes
  <2>2. CASE /\ disk.pending # None /\ disk.pending.from \in WatchdogSources
             /\ wd' = Idle /\ disk' = [disk EXCEPT !.pending = None]
             /\ \/ /\ setup = NoSetup
                   /\ setup' = [ver |-> disk.pending.from, by |-> "watchdog", st |-> "started"]
                   /\ rolledBack' = rolledBack \cup {disk.pending.to}
                \/ UNCHANGED <<setup, rolledBack>>
    <3>1. /\ disk' \in DiskRec /\ disk'.pending = None /\ disk'.late = disk.late
          /\ disk'.staging = disk.staging /\ disk'.stash = disk.stash /\ disk'.unstashed = disk.unstashed
          /\ disk'.cache = disk.cache /\ disk'.blacklist = disk.blacklist
      BY <1>i, <1>y, <2>2 DEF DiskRec
    <3>2. disk.pending.from \in Version /\ disk.pending.to \in Version
      BY <1>y, <1>t, <2>2 DEF WatchdogSources, PendingFits, DiskRec
    <3>3. setup' \in Installer \cup {NoSetup} /\ rolledBack' \subseteq Version
      BY <1>y, <2>2, <3>2 DEF Installer
    <3>4. setup' = setup \/ setup = NoSetup
      BY <2>2
    <3>5. wd' \in [pc : {"idle", "sleep", "missing"}, up : Update]
      BY <1>i, <2>2
    <3> QED BY <2>1, <3>1, <3>3, <3>4, <3>5, AroundGoroutines
  <2>3. CASE /\ wd' = IF disk.pending = None THEN Idle ELSE [pc |-> "missing", up |-> disk.pending]
             /\ UNCHANGED <<disk, setup, rolledBack>>
    <3>1. wd' \in [pc : {"idle", "sleep", "missing"}, up : Update]
      BY <1>i, <1>y, <2>3 DEF DiskRec
    <3> QED BY <1>y, <2>1, <2>3, <3>1, AroundGoroutines
  <2> QED BY <1>2, <2>2, <2>3 DEF WatchdogWakes
<1>3. CASE WatchdogGivesUp
  BY <1>3, <1>i, <1>y, AroundGoroutines DEF WatchdogGivesUp
<1> QED BY <1>1, <1>2, <1>3 DEF Watchdog

LEMMA NextEnvironment ==
    ASSUME UpdaterInv, PendingAges \/ AgentStarts \/ AgentCrashes \/ PowerLoss
    PROVE  UpdaterInv'
<1>t. PendingFits /\ "orch" \in Proc /\ "orch" \notin Checks /\ Checks \subseteq Proc
  BY InvOfTask
<1>y. /\ disk \in DiskRec /\ setup \in Installer \cup {NoSetup} /\ self \in 0..MaxVersion
      /\ verified \subseteq Version /\ rolledBack \subseteq Version /\ faults \in 0..MaxFaults
      /\ proc \in [Proc -> Task] /\ \A g \in Proc : proc[g].pc \in Pc /\ proc[g].up \in Update
  BY Types
<1>w. wd \in [pc : {"idle", "sleep", "missing"}, up : Update] /\ installed \in Version
  BY Types
<1>1. CASE PendingAges
  <2>1. /\ disk' \in DiskRec /\ disk'.pending = disk.pending
        /\ disk'.staging = disk.staging /\ disk'.stash = disk.stash /\ disk'.unstashed = disk.unstashed
        /\ disk'.cache = disk.cache /\ disk'.blacklist = disk.blacklist
    BY <1>1, <1>y DEF PendingAges, DiskRec
  <2>2. proc["orch"].pc = "idle" /\ UNCHANGED <<installed, self, proc, wd, setup, verified, rolledBack, faults>>
    BY <1>1 DEF PendingAges, At
  <2> QED BY <1>w, <1>y, <2>1, <2>2, AroundGoroutines
<1>2. CASE AgentStarts \/ AgentCrashes
  <2>1. proc' \in [Proc -> Task] /\ self' \in 0..MaxVersion /\ \A g \in Proc : proc'[g].pc \in {"idle", "load"}
    BY <1>2, <1>w, FreshStarts DEF AgentStarts, AgentCrashes, Version
  <2>2. UNCHANGED <<disk, installed, wd, setup, verified, rolledBack>> /\ faults' \in 0..MaxFaults
    BY <1>2, <1>y DEF AgentStarts, AgentCrashes
  <2>3. TypeOK'
    BY <1>w, <1>y, <2>1, <2>2 DEF TypeOK, DiskRec
  <2> QED BY <1>t, <2>1, <2>2, <2>3, InvFresh DEF PendingFits
<1>3. CASE PowerLoss
  <2>1. proc' \in [Proc -> Task] /\ self' \in 0..MaxVersion /\ \A g \in Proc : proc'[g].pc \in {"idle", "load"}
    BY <1>3, <1>w, FreshStarts DEF PowerLoss, Version
  <2>2. PICK missed \in BOOLEAN : disk' = [disk EXCEPT !.task = @ /\ ~missed]
    BY <1>3 DEF PowerLoss
  <2>3. /\ disk' \in DiskRec /\ disk'.pending = disk.pending
        /\ disk'.staging = disk.staging /\ disk'.stash = disk.stash /\ disk'.unstashed = disk.unstashed
    BY <1>y, <2>2 DEF DiskRec
  <2>4. installed' \in Version
    <3>1. setup.st = "stopped" => setup.ver \in Version
      BY <1>y, Rest
    <3> QED BY <1>3, <1>w, <3>1 DEF PowerLoss
  <2>5. /\ setup' = NoSetup /\ wd' = Idle /\ faults' \in 0..MaxFaults
        /\ UNCHANGED <<verified, rolledBack>>
    BY <1>3, <1>y DEF PowerLoss
  <2>6. Idle \in [pc : {"idle", "sleep", "missing"}, up : Update]
    BY Rest DEF Idle
  <2>7. TypeOK'
    BY <1>y, <2>1, <2>3, <2>4, <2>5, <2>6 DEF TypeOK, DiskRec
  <2> QED BY <1>t, <2>1, <2>3, <2>7, InvFresh DEF PendingFits
<1> QED BY <1>1, <1>2, <1>3

LEMMA NextUpdater == UpdaterInv /\ [Next]_vars => UpdaterInv'
<1> SUFFICES ASSUME UpdaterInv, [Next]_vars PROVE UpdaterInv'
  OBVIOUS
<1>1. CASE UNCHANGED vars
  BY <1>1 DEF vars, UpdaterInv, TypeOK, TasksAreUpgrades, OrchestrationIsOwn, SourcesKept, ChecksAreOwn,
              TargetAllowed
<1>2. CASE Orchestrates
  BY <1>2, NextDownload, NextSource, NextStash, NextSave, NextRegister, NextExec DEF Orchestrates
<1> QED BY <1>1, <1>2, NextTrigger, NextRollsBack, NextSelfCheck, NextFinalizes, NextStartup, NextInstaller,
           NextWatchdog, NextEnvironment DEF Next

LEMMA UpdaterInvariant == Spec => []UpdaterInv
<1>1. Init => UpdaterInv
  BY InitUpdater
<1>2. UpdaterInv /\ [Next]_vars => UpdaterInv'
  BY NextUpdater
<1> QED BY <1>1, <1>2, PTL DEF Spec

(* The state directory, the goroutines, the watchdog script and the installer
   keep their types: whoever works on an update works on a real one. *)
THEOREM UpdaterTypeCorrect == Spec => []TypeOK
<1>1. UpdaterInv => TypeOK
  BY DEF UpdaterInv
<1> QED BY <1>1, UpdaterInvariant, PTL

(* While an update is pending, a rollback finds an installer of the version it
   came from, whatever installers, self-checks and power losses do to the cache,
   the stash and the staging directory (updater.go: ensureRollbackSource,
   stashRollbackSource, finalize). *)
THEOREM RollbackSourceKept == Spec => []SourceKept
<1>1. UpdaterInv => SourceKept
  BY DEF UpdaterInv, SourcesKept, SourceKept, RollbackSources
<1> QED BY <1>1, UpdaterInvariant, PTL

(* No update under way aims at a blacklisted version, although the gate is
   passed once and others blacklist meanwhile (updater.go: orchestrateTrigger,
   Rollback). *)
THEOREM BlacklistHolds == Spec => []TargetAllowed
<1>1. UpdaterInv => TargetAllowed
  BY DEF UpdaterInv
<1> QED BY <1>1, UpdaterInvariant, PTL
=============================================================================
