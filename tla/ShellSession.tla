---------------------------- MODULE ShellSession ----------------------------
(***************************************************************************)
(* One exec or shell session at the agent, from SESSION_OPEN to the end of *)
(* its handler, on either platform.  On Linux the handler's process host   *)
(* runs the command itself: pumps, a supervisor and a timer around the     *)
(* process group (shellhost_linux.go).  On Windows the core creates an     *)
(* xnc-shell process that runs the command and sends its output over a     *)
(* pipe, which the agent's pipe client pumps into the same channels.       *)
(*                                                                         *)
(* The output is one stream of numbered chunks (the pumps of stdout and    *)
(* stderr are alike, each with its own budget).  What is typed into a      *)
(* shell and its geometry are left out.                                    *)
(***************************************************************************)
EXTENDS Naturals, Sequences, SequencesExt

CONSTANTS
    Platform,   \* subset of {"linux", "windows"}
    Mode,       \* subset of {"oneshot", "interactive"}: exec and shell
    Depth,      \* capacity of the output channel (64)
    Budget,     \* output budget of an exec, in chunks (4 MB)
    MaxOut,     \* bound: chunks a command writes
    MaxFaults,  \* bound: legs lost, core lost, processes that leave the group
    Begin, Marker, Result,      \* SHELL_BEGIN, the truncation marker, EXEC_RESULT
    Ok, Killed, Lost, Taken,    \* exit codes: its own, a killed one's, none came; taken
    None

ASSUME ShellAssumption ==
    /\ Platform \subseteq {"linux", "windows"} /\ Mode \subseteq {"oneshot", "interactive"}
    /\ Depth \in Nat \ {0} /\ Budget \in Nat \ {0} /\ MaxOut \in Nat /\ MaxFaults \in Nat
    /\ None \notin {Ok, Killed, Lost, Taken} /\ Ok \notin {Killed, Lost}
    /\ {Ok, Killed, Lost} \cap {Begin, Marker, Taken} = {}
    /\ \A x \in {Begin, Marker, Ok, Killed, Lost, None} : x \notin Nat
    /\ Marker # Begin /\ Result \notin {Begin, Marker, Ok, Killed, Lost, None} /\ Result \notin Nat

VARIABLES
    plat, mode,
    pc,         \* the session's handler
    cancelled,  \* its context: SESSION_CLOSE has come
    ws,         \* the session's websocket: ok, stalled or dead
    sent,       \* what was written to it
    writer,     \* the goroutine that writes output to it: off, idle, writing, done
    hand,       \* the chunk it holds
    timer,      \* the handler's deadline: off, armed, fired
    timed, exit,\* the handler's locals of these names
    tree,       \* the command: none, running, left (only descendants), gone
    escaped,    \* a process outside the group or tree holds the output open
    made,       \* chunks the command has written
    code,       \* how its main process ended: ok, killed
    hostTimer,  \* the host's own deadline
    got,        \* chunks the host's pump has read
    pump,       \* the host's pump: off, reading, holding, blocked, done
    chan,       \* the output channel
    chanClosed,
    exits,      \* the exit channel: None, a code, or taken
    dropped,    \* chunks over the budget
    \* Linux
    doneCh,     \* directProc.done is closed
    crashed,    \* a goroutine sent on a closed channel
    \* Windows
    core,       \* the core answers
    shell,      \* the xnc-shell process: none, accept, serving, gone
    wire,       \* frames from it, not yet read
    killSent,   \* SHELL_KILL is on its way to it
    conn,       \* the agent's end of the pipe: off, open, closed
    client,     \* Conn.pump: off, reading, draining, done
    exitVal,    \* the code it has read
    budgeted,   \* SetExecBudget has run
    total,      \* chunks counted against the budget since
    pend,       \* Conn.pend
    early,      \* history: output was dropped before the budget was set
    faults

handler == <<pc, cancelled, ws, sent, writer, hand, timer, timed, exit>>
command == <<tree, escaped, made, code>>
output == <<chan, chanClosed, exits, dropped>>
linux == <<doneCh, crashed>>
windows == <<core, shell, wire, killSent, conn, client, exitVal, budgeted, total, pend, early>>
fixed == <<plat, mode>>
vars == <<fixed, handler, command, hostTimer, got, pump, output, linux, windows, faults>>

Chunk == 1..MaxOut
Code == {Ok, Killed, Lost}

TypeOK ==
    /\ plat \in Platform /\ mode \in Mode
    /\ pc \in {"new", "create", "piping", "budget", "run", "killExit", "killWait", "coreExit",
               "coreWait", "await", "drain", "close", "closing", "finish", "ended"}
    /\ ws \in {"ok", "stalled", "dead"}
    /\ sent \in Seq(Chunk \cup {Marker, Result})
    /\ writer \in {"off", "idle", "writing", "done"} /\ hand \in Chunk \cup {Marker, None}
    /\ timer \in {"off", "armed", "fired"} /\ hostTimer \in {"off", "armed", "fired"}
    /\ timed \in BOOLEAN /\ exit \in Code \cup {None} /\ cancelled \in BOOLEAN
    /\ tree \in {"none", "running", "left", "gone"} /\ escaped \in BOOLEAN
    /\ made \in 0..MaxOut /\ got \in 0..made /\ code \in Code \cup {None}
    /\ pump \in {"off", "reading", "holding", "blocked", "done"}
    /\ chan \in Seq(Chunk \cup {Marker}) /\ Len(chan) <= Depth
    /\ chanClosed \in BOOLEAN /\ exits \in Code \cup {None, Taken} /\ dropped \in 0..MaxOut
    /\ doneCh \in BOOLEAN /\ crashed \in BOOLEAN /\ core \in BOOLEAN /\ killSent \in BOOLEAN
    /\ shell \in {"none", "accept", "serving", "gone"}
    /\ wire \in Seq(Chunk \cup Code \cup {Begin})
    /\ conn \in {"off", "open", "closed"} /\ client \in {"off", "reading", "draining", "done"}
    /\ exitVal \in Code \cup {None} /\ budgeted \in BOOLEAN /\ total \in 0..Budget /\ early \in BOOLEAN
    /\ pend \in Seq(Chunk \cup {Marker}) /\ faults \in 0..MaxFaults

Init ==
    /\ plat \in Platform /\ mode \in Mode
    /\ pc = "new" /\ cancelled = FALSE /\ ws = "ok" /\ sent = <<>>
    /\ writer = "off" /\ hand = None /\ timer = "off" /\ timed = FALSE /\ exit = None
    /\ tree = "none" /\ escaped = FALSE /\ made = 0 /\ code = None
    /\ hostTimer = "off" /\ got = 0 /\ pump = "off"
    /\ chan = <<>> /\ chanClosed = FALSE /\ exits = None /\ dropped = 0
    /\ doneCh = FALSE /\ crashed = FALSE
    /\ core = TRUE /\ shell = "none" /\ wire = <<>> /\ killSent = FALSE /\ conn = "off"
    /\ client = "off" /\ exitVal = None /\ budgeted = FALSE /\ total = 0 /\ pend = <<>> /\ early = FALSE
    /\ faults = 0

Exec == mode = "oneshot"
Armed(m) == IF m = "oneshot" THEN "armed" ELSE "off"

-----------------------------------------------------------------------------
(* The environment: the peer, the command, faults. *)

\* HandleSessionClose, or an agent that ends the session.
SessionClose ==
    /\ pc \notin {"new", "ended"} /\ ~cancelled
    /\ cancelled' = TRUE
    /\ UNCHANGED <<fixed, pc, ws, sent, writer, hand, timer, timed, exit, command, hostTimer,
                   got, pump, output, linux, windows, faults>>

\* The session's leg stops taking data, or is lost.
LegFails ==
    /\ ws = "ok" /\ faults < MaxFaults
    /\ ws' \in {"stalled", "dead"} /\ faults' = faults + 1
    /\ UNCHANGED <<fixed, pc, cancelled, sent, writer, hand, timer, timed, exit, command,
                   hostTimer, got, pump, output, linux, windows>>

CoreFails ==
    /\ plat = "windows" /\ core /\ faults < MaxFaults
    /\ core' = FALSE /\ faults' = faults + 1
    /\ UNCHANGED <<fixed, handler, command, hostTimer, got, pump, output, linux, shell, wire,
                   killSent, conn, client, exitVal, budgeted, total, pend, early>>

\* A descendant leaves the process group, with the output still open.
Escapes ==
    /\ tree = "running" /\ ~escaped /\ faults < MaxFaults
    /\ escaped' = TRUE /\ faults' = faults + 1
    /\ UNCHANGED <<fixed, handler, tree, made, code, hostTimer, got, pump, output, linux, windows>>

Emits ==
    /\ tree \in {"running", "left"} /\ made < MaxOut
    /\ made' = made + 1
    /\ UNCHANGED <<fixed, handler, tree, escaped, code, hostTimer, got, pump, output, linux,
                   windows, faults>>

\* The main process exits, and its descendants then or later.
MainExits ==
    /\ tree = "running" /\ tree' \in {"left", "gone"} /\ code' = Ok
    /\ UNCHANGED <<fixed, handler, escaped, made, hostTimer, got, pump, output, linux, windows,
                   faults>>
OthersExit ==
    /\ tree = "left" /\ tree' = "gone"
    /\ UNCHANGED <<fixed, handler, escaped, made, code, hostTimer, got, pump, output, linux,
                   windows, faults>>

\* The output has ended for whoever reads it.
Eof == got = made /\ tree = "gone" /\ ~escaped

-----------------------------------------------------------------------------
(* Killing. *)

\* Only the process that was started is killed.
KillGroupMain ==
    /\ tree' = IF tree = "running" THEN "left" ELSE tree
    /\ code' = IF tree = "running" THEN Killed ELSE code

\* killGroup: SIGKILL for the group.
KillGroup ==
    /\ tree' = IF tree \in {"running", "left"} THEN "gone" ELSE tree
    /\ code' = IF tree = "running" THEN Killed ELSE code

\* killTree: taskkill finds the tree from its main process, if that still runs.
KillTree ==
    /\ tree' = IF tree = "running" THEN "gone" ELSE tree
    /\ code' = IF tree = "running" THEN Killed ELSE code

-----------------------------------------------------------------------------
(* Linux: directProc. *)

\* CreateShell: the process is started with its pump, supervisor and timer, and
\* the handler starts its goroutines and its own timer.
LinuxCreate ==
    /\ plat = "linux" /\ pc = "create"
    /\ pc' = "run" /\ writer' = "idle" /\ timer' = Armed(mode)
    /\ tree' = "running" /\ pump' = "reading" /\ hostTimer' = Armed(mode)
    /\ UNCHANGED <<fixed, cancelled, ws, sent, hand, timed, exit, escaped, made, code, got,
                   output, linux, windows, faults>>

\* A hung-up terminal ends for its reader when the shell does.
LinuxEof == IF Exec THEN Eof ELSE got = made /\ tree \in {"left", "gone"}

\* pumpStream, pumpPty: Read returns a chunk; what is over the budget is counted.
LinuxRead ==
    /\ plat = "linux" /\ pump = "reading" /\ got < made
    /\ got' = got + 1
    /\ IF Exec /\ got >= Budget
       THEN dropped' = dropped + 1 /\ pump' = "reading"
       ELSE pump' = "holding" /\ UNCHANGED dropped
    /\ UNCHANGED <<fixed, handler, command, hostTimer, chan, chanClosed, exits, linux, windows,
                   faults>>

\* What the pump is about to send: the chunk it has read, or the marker at the end.
Held == IF Exec /\ got > Budget THEN Marker ELSE got

\* Read returns an error: the pump ends, an exec's with the marker if it must.
LinuxReadEnds ==
    /\ plat = "linux" /\ pump = "reading"
    /\ LinuxEof \/ (~Exec /\ doneCh)
    /\ pump' = IF Exec /\ dropped > 0 THEN "holding" ELSE "done"
    /\ chanClosed' = (chanClosed \/ ~Exec)
    /\ UNCHANGED <<fixed, handler, command, hostTimer, got, chan, exits, dropped, linux, windows,
                   faults>>

\* After a send the pump reads on; the marker is its last.
AfterSend == IF Held = Marker THEN "done" ELSE "reading"

\* select: the channel has room; or the pump blocks; or done is closed.  A send
\* on a channel that is closed panics.
LinuxSend ==
    /\ plat = "linux" /\ pump \in {"holding", "blocked"}
    /\ \/ /\ ~chanClosed /\ Len(chan) < Depth
          /\ chan' = Append(chan, Held) /\ pump' = AfterSend
          /\ UNCHANGED <<chanClosed, crashed>>
       \/ /\ ~chanClosed /\ Len(chan) = Depth /\ ~doneCh /\ pump = "holding"
          /\ pump' = "blocked"
          /\ UNCHANGED <<chan, chanClosed, crashed>>
       \/ /\ doneCh
          /\ pump' = "done" /\ chanClosed' = (chanClosed \/ ~Exec)
          /\ UNCHANGED <<chan, crashed>>
       \/ /\ chanClosed
          /\ crashed' = TRUE /\ pump' = "done"
          /\ UNCHANGED <<chan, chanClosed>>
    /\ UNCHANGED <<fixed, handler, command, hostTimer, got, exits, dropped, doneCh, windows, faults>>

\* supervise: the pumps have ended; the process is waited for, the channel
\* closed, the code delivered.
Supervise ==
    /\ plat = "linux" /\ pump = "done" /\ tree \in {"left", "gone"} /\ exits = None
    /\ chanClosed' = TRUE /\ exits' = code
    /\ UNCHANGED <<fixed, handler, command, hostTimer, got, pump, chan, dropped, linux, windows,
                   faults>>

\* Close: done is closed first, which a blocked pump sees, the output channel last.
LinuxCloseDone ==
    /\ plat = "linux" /\ pc = "close" /\ pc' = "closing"
    /\ doneCh' = TRUE /\ hostTimer' = "off"
    /\ pump' = IF pump = "blocked" THEN "done" ELSE pump
    /\ UNCHANGED <<fixed, cancelled, ws, sent, writer, hand, timer, timed, exit, command, got,
                   output, crashed, windows, faults>>
LinuxCloseStreams ==
    /\ plat = "linux" /\ pc = "closing" /\ pc' = "finish"
    /\ chanClosed' = TRUE
    /\ UNCHANGED <<fixed, cancelled, ws, sent, writer, hand, timer, timed, exit, command,
                   hostTimer, got, pump, chan, exits, dropped, linux, windows, faults>>

-----------------------------------------------------------------------------
(* Windows: the core and xnc-shell. *)

\* The core starts xnc-shell; or it does and the answer is lost; or it refuses
\* or is not there (the last two are Refused).
CoreCreateShell ==
    /\ plat = "windows" /\ pc = "create" /\ core
    /\ shell' = "accept"
    /\ \/ pc' = "piping" /\ UNCHANGED faults
       \/ pc' = "finish" /\ faults < MaxFaults /\ faults' = faults + 1
    /\ UNCHANGED <<fixed, cancelled, ws, sent, writer, hand, timer, timed, exit, command,
                   hostTimer, got, pump, output, linux, core, wire, killSent, conn, client,
                   exitVal, budgeted, total, pend, early>>

\* Dial, the handshake on both sides, SHELL_BEGIN, and the command is started
\* with the pumps, the reader and the timer of xnc-shell.
HostBegins ==
    /\ shell = "accept" /\ pc = "piping" /\ conn = "off"
    /\ shell' = "serving" /\ conn' = "open" /\ wire' = <<Begin>>
    /\ tree' = "running" /\ pump' = "reading" /\ hostTimer' = Armed(mode)
    /\ UNCHANGED <<fixed, handler, escaped, made, code, got, output, linux, core, killSent,
                   client, exitVal, budgeted, total, pend, early, faults>>

\* The command of an exec cannot be started: SHELL_EXIT follows SHELL_BEGIN, and
\* xnc-shell ends.  (A shell's failure comes before SHELL_BEGIN: DialFails.)
HostSpawnFails ==
    /\ shell = "accept" /\ pc = "piping" /\ conn = "off" /\ Exec
    /\ shell' = "gone" /\ conn' = "open" /\ wire' = <<Begin, Lost>>
    /\ UNCHANGED <<fixed, handler, command, hostTimer, got, pump, output, linux, core, killSent,
                   client, exitVal, budgeted, total, pend, early, faults>>

\* The pipe cannot be used: the agent has the core kill the shell it knows.
DialFails ==
    /\ plat = "windows" /\ pc = "piping" /\ conn = "off" /\ faults < MaxFaults
    /\ faults' = faults + 1
    /\ pc' = "finish" /\ shell' = IF core THEN "gone" ELSE shell
    /\ UNCHANGED <<fixed, cancelled, ws, sent, writer, hand, timer, timed, exit, command,
                   hostTimer, got, pump, output, linux, core, wire, killSent, conn, client,
                   exitVal, budgeted, total, pend, early>>

\* The output pump of xnc-shell; a write that fails kills the command.
HostPumps ==
    /\ shell = "serving" /\ pump = "reading" /\ got < made
    /\ got' = got + 1
    /\ IF conn = "open"
       THEN wire' = Append(wire, got') /\ UNCHANGED <<pump, tree, code>>
       ELSE KillTree /\ pump' = "done" /\ UNCHANGED wire
    /\ UNCHANGED <<fixed, handler, escaped, made, hostTimer, output, linux, core, shell, killSent,
                   conn, client, exitVal, budgeted, total, pend, early, faults>>
HostPumpEnds ==
    /\ shell = "serving" /\ pump = "reading" /\ Eof
    /\ pump' = "done"
    /\ UNCHANGED <<fixed, handler, command, hostTimer, got, output, linux, windows, faults>>

\* Its reader sees SHELL_KILL or the end of the pipe.
HostReaderKills ==
    /\ shell = "serving" /\ tree = "running"
    /\ killSent \/ conn = "closed"
    /\ KillTree
    /\ UNCHANGED <<fixed, handler, escaped, made, hostTimer, got, pump, output, linux, windows,
                   faults>>

\* The host's deadline, on either platform.
HostTimerFires ==
    /\ plat = "linux" \/ shell = "serving"
    /\ hostTimer = "armed" /\ hostTimer' = "fired"
    /\ IF plat = "linux" THEN KillGroup ELSE KillTree
    /\ UNCHANGED <<fixed, handler, escaped, made, got, pump, output, linux, windows, faults>>

\* SHELL_EXIT.  An exec's is sent when its output has ended, and xnc-shell ends;
\* a shell's when shell, output or pipe end, with the terminal and all that is
\* attached to it, and xnc-shell waits for another connection.
HostExits ==
    /\ shell = "serving"
    /\ IF Exec
       THEN /\ pump = "done" /\ tree \in {"left", "gone"}
            /\ shell' = "gone" /\ UNCHANGED <<tree, code, pump>>
       ELSE /\ tree \in {"left", "gone"} \/ pump = "done" \/ killSent \/ conn = "closed"
            /\ shell' = "accept" /\ tree' = "gone" /\ pump' = "done"
            /\ code' = IF tree = "running" THEN Killed ELSE code
    /\ wire' = IF conn = "open" THEN Append(wire, code') ELSE wire
    /\ UNCHANGED <<fixed, handler, escaped, made, hostTimer, got, output, linux, core, killSent,
                   conn, client, exitVal, budgeted, total, pend, early, faults>>

\* KillShell: the core terminates the process it started.  Its pipe ends; a
\* terminal goes with it, the processes of an exec do not.
CoreKillShell ==
    /\ plat = "windows" /\ pc \in {"coreExit", "coreWait"}
    /\ pc' = IF pc = "coreWait" THEN "await" ELSE IF Exec THEN "drain" ELSE "close"
    /\ IF core /\ shell # "none"
       THEN /\ shell' = "gone"
            /\ tree' = IF ~Exec /\ tree # "none" THEN "gone" ELSE tree
            /\ code' = IF ~Exec /\ tree = "running" THEN Killed ELSE code
       ELSE UNCHANGED <<shell, tree, code>>
    /\ UNCHANGED <<fixed, cancelled, ws, sent, writer, hand, timer, timed, exit, escaped, made,
                   hostTimer, got, pump, output, linux, core, wire, killSent, conn, client,
                   exitVal, budgeted, total, pend, early, faults>>

-----------------------------------------------------------------------------
(* Windows: the pipe client of the agent. *)

\* Dial returns with SHELL_BEGIN; its pump runs from here on.
DialBegun ==
    /\ pc = "piping" /\ wire # <<>> /\ Head(wire) = Begin
    /\ wire' = Tail(wire) /\ client' = "reading"
    /\ IF Exec THEN pc' = "budget" /\ UNCHANGED writer ELSE pc' = "run" /\ writer' = "idle"
    /\ UNCHANGED <<fixed, cancelled, ws, sent, hand, timer, timed, exit, command, hostTimer, got,
                   pump, output, linux, core, shell, killSent, conn, exitVal, budgeted, total, pend,
                   early, faults>>

\* SetExecBudget, and the handler starts its goroutine and its timer.
SetExecBudget ==
    /\ pc = "budget" /\ budgeted' = TRUE
    /\ pc' = "run" /\ writer' = "idle" /\ timer' = Armed(mode)
    /\ UNCHANGED <<fixed, cancelled, ws, sent, hand, timed, exit, command, hostTimer, got, pump,
                   output, linux, core, shell, wire, killSent, conn, client, exitVal, total, pend, early,
                   faults>>

\* As much as the channel has room for goes there, oldest first.
Deliver(data) ==
    LET room == Depth - Len(chan)
        k == IF Len(data) < room THEN Len(data) ELSE room
    IN /\ chan' = chan \o SubSeq(data, 1, k)
       /\ pend' = SubSeq(data, k + 1, Len(data))

\* enqueueData: within the budget what does not fit is kept, over it is counted;
\* without a budget what does not fit is lost.
EnqueueData(d) ==
    IF budgeted /\ total = Budget
    THEN dropped' = dropped + 1 /\ UNCHANGED <<chan, pend, early, total>>
    ELSE /\ total' = (IF budgeted THEN total + 1 ELSE total) /\ UNCHANGED dropped
         /\ IF budgeted \/ Len(chan) < Depth
            THEN Deliver(Append(pend, d)) /\ UNCHANGED early
            ELSE early' = TRUE /\ UNCHANGED <<chan, pend>>

\* Conn.pump reads a frame.
ClientReads ==
    /\ client = "reading" /\ conn = "open" /\ wire # <<>>
    /\ wire' = Tail(wire)
    /\ IF Head(wire) \in Code
       THEN exitVal' = Head(wire) /\ UNCHANGED <<chan, pend, dropped, early, total>>
       ELSE EnqueueData(Head(wire)) /\ UNCHANGED exitVal
    /\ UNCHANGED <<fixed, handler, command, hostTimer, got, pump, chanClosed, exits, linux, core,
                   shell, killSent, conn, client, budgeted, faults>>

\* The pipe is closed on either side.
PipeEnded == conn = "closed" \/ (wire = <<>> /\ shell # "serving")

\* The code is only delivered if there is one.
TeardownSilent ==
    /\ client = "reading" /\ PipeEnded
    /\ client' = "draining"
    /\ pend' = IF budgeted /\ dropped > 0 THEN Append(pend, Marker) ELSE pend
    /\ exits' = exitVal
    /\ UNCHANGED <<fixed, handler, command, hostTimer, got, pump, chan, chanClosed, dropped, linux,
                   core, shell, wire, killSent, conn, exitVal, budgeted, total, early, faults>>

\* teardown: the marker is put behind the output if any was dropped, the code
\* delivered (1 if none has come), and then the rest is drained ...
Teardown ==
    /\ client = "reading" /\ PipeEnded
    /\ client' = "draining"
    /\ pend' = IF budgeted /\ dropped > 0 THEN Append(pend, Marker) ELSE pend
    /\ exits' = IF exitVal = None THEN Lost ELSE exitVal
    /\ UNCHANGED <<fixed, handler, command, hostTimer, got, pump, chan, chanClosed, dropped, linux,
                   core, shell, wire, killSent, conn, exitVal, budgeted, total, early, faults>>

\* ... chunk by chunk, unless nobody takes it within drainTimeout, and the
\* channel is closed.
DrainPend ==
    /\ client = "draining"
    /\ \/ /\ pend # <<>> /\ Len(chan) < Depth
          /\ Deliver(pend) /\ UNCHANGED <<client, chanClosed>>
       \/ /\ pend = <<>> \/ (Len(chan) = Depth /\ (writer = "done" \/ ws = "stalled"))
          /\ client' = "done" /\ chanClosed' = TRUE /\ pend' = <<>> /\ UNCHANGED chan
    /\ UNCHANGED <<fixed, handler, command, hostTimer, got, pump, exits, dropped, linux, core,
                   shell, wire, killSent, conn, exitVal, budgeted, total, early, faults>>

\* Close of the pipe.
ClosePipe ==
    /\ plat = "windows" /\ pc = "close" /\ pc' = "finish"
    /\ conn' = "closed"
    /\ UNCHANGED <<fixed, cancelled, ws, sent, writer, hand, timer, timed, exit, command,
                   hostTimer, got, pump, output, linux, core, shell, wire, killSent, client,
                   exitVal, budgeted, total, pend, early, faults>>

-----------------------------------------------------------------------------
(* The engine and the handlers: Exec.Handle and Shell.Handle. *)

\* HandleSessionOpen: the session's websocket is dialled, or that fails.
SessionOpen ==
    /\ pc = "new" /\ pc' \in {"create", "ended"}
    /\ UNCHANGED <<fixed, cancelled, ws, sent, writer, hand, timer, timed, exit, command,
                   hostTimer, got, pump, output, linux, windows, faults>>

\* Bad parameters, no host, a profile that is missing, the core's refusal: the
\* client is told and the session ends.
Refused ==
    /\ pc = "create" /\ pc' = "finish"
    /\ UNCHANGED <<fixed, cancelled, ws, sent, writer, hand, timer, timed, exit, command,
                   hostTimer, got, pump, output, linux, windows, faults>>

\* The goroutine that writes output: it takes a chunk, or the channel's end ...
WriterTakes ==
    /\ writer = "idle"
    /\ IF chan # <<>>
       THEN writer' = "writing" /\ hand' = Head(chan) /\ chan' = Tail(chan)
       ELSE chanClosed /\ writer' = "done" /\ UNCHANGED <<hand, chan>>
    /\ UNCHANGED <<fixed, pc, cancelled, ws, sent, timer, timed, exit, command, hostTimer, got,
                   pump, chanClosed, exits, dropped, linux, windows, faults>>

\* ... and writes it, or gives up: on a lost leg, a cancelled context, a write
\* that does not end in time (which closes the leg).
WriterWrites ==
    /\ writer = "writing" /\ hand' = None
    /\ IF ws = "ok" /\ ~cancelled
       THEN sent' = Append(sent, hand) /\ writer' = "idle" /\ UNCHANGED ws
       ELSE writer' = "done" /\ ws' = "dead" /\ UNCHANGED sent
    /\ UNCHANGED <<fixed, pc, cancelled, timer, timed, exit, command, hostTimer, got, pump, output,
                   linux, windows, faults>>

\* The handler's own deadline.
TimerFires ==
    /\ timer = "armed" /\ pc # "ended" /\ timer' = "fired"
    /\ UNCHANGED <<fixed, pc, cancelled, ws, sent, writer, hand, timed, exit, command, hostTimer,
                   got, pump, output, linux, windows, faults>>

\* Exec.Handle: the exit code, unless the deadline was first ...
TakeExit ==
    /\ Exec /\ pc = "run" /\ exits \in Code
    /\ exits' = Taken /\ pc' = "killExit"
    /\ IF timer = "fired" THEN timed' = TRUE /\ UNCHANGED exit
                          ELSE exit' = exits /\ UNCHANGED timed
    /\ UNCHANGED <<fixed, cancelled, ws, sent, writer, hand, timer, command, hostTimer, got, pump,
                   chan, chanClosed, dropped, linux, windows, faults>>

\* ... or the end of the session, or the deadline.
SeeCancel ==
    /\ Exec /\ pc = "run" /\ cancelled /\ pc' = "killWait"
    /\ UNCHANGED <<fixed, cancelled, ws, sent, writer, hand, timer, timed, exit, command,
                   hostTimer, got, pump, output, linux, windows, faults>>
SeeTimer ==
    /\ Exec /\ pc = "run" /\ timer = "fired" /\ timed' = TRUE /\ pc' = "killWait"
    /\ UNCHANGED <<fixed, cancelled, ws, sent, writer, hand, timer, exit, command, hostTimer, got,
                   pump, output, linux, windows, faults>>

\* Shell.Handle: the shell's exit, the end of its output, of the leg, or of the
\* session (the goroutine that reads the leg sees the last two).
ShellEnds ==
    /\ ~Exec /\ pc = "run"
    /\ exits \in Code \/ writer = "done" \/ ws = "dead" \/ cancelled
    /\ pc' = "killExit"
    /\ UNCHANGED <<fixed, cancelled, ws, sent, writer, hand, timer, timed, exit, command,
                   hostTimer, got, pump, output, linux, windows, faults>>

\* proc.Kill: on Linux the group; on Windows SHELL_KILL and then the core.
Kill ==
    /\ pc \in {"killExit", "killWait"}
    /\ IF plat = "linux"
       THEN /\ KillGroup /\ UNCHANGED killSent
            /\ pc' = IF pc = "killWait" THEN "await" ELSE IF Exec THEN "drain" ELSE "close"
       ELSE /\ killSent' = (killSent \/ shell = "serving") /\ UNCHANGED <<tree, code>>
            /\ pc' = IF pc = "killWait" THEN "coreWait" ELSE "coreExit"
    /\ UNCHANGED <<fixed, cancelled, ws, sent, writer, hand, timer, timed, exit, escaped, made,
                   hostTimer, got, pump, output, linux, core, shell, wire, conn, client, exitVal,
                   budgeted, total, pend, early, faults>>

\* The handler goes on as soon as it has killed.
AwaitNothing ==
    /\ pc = "await" /\ pc' = "close"
    /\ UNCHANGED <<fixed, cancelled, ws, sent, writer, hand, timer, timed, exit, command,
                   hostTimer, got, pump, output, linux, windows, faults>>

\* <-exit, without a time limit.
AwaitExit ==
    /\ pc = "await" /\ exits \in Code
    /\ exits' = Taken /\ pc' = "drain"
    /\ UNCHANGED <<fixed, cancelled, ws, sent, writer, hand, timer, timed, exit, command,
                   hostTimer, got, pump, chan, chanClosed, dropped, linux, windows, faults>>

\* The result does not wait for the output.
NotAwaitOutput ==
    /\ pc = "drain" /\ pc' = "close"
    /\ UNCHANGED <<fixed, cancelled, ws, sent, writer, hand, timer, timed, exit, command,
                   hostTimer, got, pump, output, linux, windows, faults>>

\* The output has been written, or its time is over.
AwaitOutput ==
    /\ writer = "done" \/ ws = "stalled"
    /\ pc = "drain" /\ pc' = "close"
    /\ UNCHANGED <<fixed, cancelled, ws, sent, writer, hand, timer, timed, exit, command,
                   hostTimer, got, pump, output, linux, windows, faults>>

\* EXEC_RESULT, SHELL's refusal or nothing; the leg is closed; the script removed.
Finish ==
    /\ pc = "finish" /\ pc' = "ended"
    /\ sent' = IF Exec /\ ws = "ok" /\ ~cancelled THEN Append(sent, Result) ELSE sent
    /\ ws' = "dead"
    /\ UNCHANGED <<fixed, cancelled, writer, hand, timer, timed, exit, command, hostTimer, got,
                   pump, output, linux, windows, faults>>

-----------------------------------------------------------------------------
Handler == \/ SessionOpen \/ TakeExit \/ SeeCancel \/ SeeTimer \/ ShellEnds \/ Kill \/ AwaitExit
           \/ AwaitOutput \/ Finish \/ CoreKillShell \/ SetExecBudget \/ ClosePipe
           \/ LinuxCloseDone \/ LinuxCloseStreams
LinuxHost == LinuxRead \/ LinuxReadEnds \/ LinuxSend \/ Supervise
WindowsHost == HostPumps \/ HostPumpEnds \/ HostReaderKills \/ HostExits
Client == DialBegun \/ ClientReads \/ Teardown \/ DrainPend
Writer == WriterTakes \/ WriterWrites
Create == LinuxCreate \/ CoreCreateShell \/ Refused
Environment == SessionClose \/ LegFails \/ CoreFails \/ Escapes \/ Emits \/ MainExits \/ OthersExit
               \/ DialFails \/ HostSpawnFails

Next == Handler \/ LinuxHost \/ WindowsHost \/ HostBegins \/ Client \/ Writer \/ Create
        \/ TimerFires \/ HostTimerFires \/ Environment

Spec == Init /\ [][Next]_vars

\* Goroutines and processes get on and timers fire; nothing is assumed of the
\* command or the peer.
FairSpec ==
    /\ Spec
    /\ WF_vars(Handler) /\ WF_vars(LinuxHost) /\ WF_vars(HostBegins) /\ WF_vars(Client)
    /\ WF_vars(HostPumps) /\ WF_vars(HostPumpEnds) /\ WF_vars(HostReaderKills) /\ WF_vars(HostExits)
    /\ WF_vars(Writer) /\ WF_vars(Create) /\ WF_vars(TimerFires) /\ WF_vars(HostTimerFires)

-----------------------------------------------------------------------------
(* What holds. *)

\* The first n chunks, and the marker if output was dropped.
Numbered(n) == [i \in 1..n |-> i]
Mark(lossy) == IF lossy THEN <<Marker>> ELSE <<>>

\* When the client has the result of a command that ended by itself, it has
\* before it the whole output in order, or the part within the budget and the
\* marker that says so; nothing else, and nothing after the result.  (Not if the
\* pipe client dropped output before it knew the budget, see OutputComplete.)
OutputAccounted ==
    Contains(sent, Result) /\ exit = Ok /\ ~early =>
        sent = (Numbered(made - dropped) \o Mark(dropped > 0)) \o <<Result>>

\* No exec makes a pump send on a closed channel, which would end the agent:
\* the channel is closed by the handler only when the pumps have ended.
ExecNeverPanics == Exec => ~crashed

\* Where nothing is known to keep a handler: a process that left the group, a
\* Linux exec whose output nobody takes any more, a core that is gone.
Excused == \/ plat = "linux" /\ Exec /\ (escaped \/ cancelled \/ ws # "ok")
           \/ plat = "windows" /\ ~core

\* A handler that runs a command comes to its end: an exec by its deadline at
\* the latest, a shell when the session is closed or its leg is lost.
HandlerReturns ==
    pc = "run" /\ (Exec \/ cancelled \/ ws = "dead") ~> pc = "ended" \/ Excused

\* A handler that has ended leaves nothing behind: on Linux no process of the
\* group, on Windows no terminal with its processes and no xnc-shell.
NothingLeft ==
    pc = "ended" ~> \/ plat = "linux" /\ tree \in {"none", "gone"}
                    \/ plat = "windows" /\ shell \in {"none", "gone"}
                                        /\ (Exec \/ tree \in {"none", "gone"})
                    \/ plat = "windows" /\ (~core \/ conn = "off")

(* What does not hold. *)

\* As OutputAccounted, whenever the output comes.
OutputComplete ==
    Contains(sent, Result) /\ exit = Ok => Len(sent) > made - dropped

\* No pump sends on a closed channel.
NeverPanics == ~crashed

\* Every handler comes to its end.
HandlerAlwaysReturns == pc = "run" /\ (Exec \/ cancelled \/ ws = "dead") ~> pc = "ended"

\* The command does not outlive its handler.
CommandDies == pc = "ended" ~> tree \in {"none", "gone"}

\* A command that the host's deadline killed is reported as timed out.
TimeoutReported ==
    Contains(sent, Result) /\ hostTimer = "fired" /\ code = Killed => timed
=============================================================================
