------------------------- MODULE ShellSessionProofs -------------------------
(***************************************************************************)
(* Proofs about ShellSession, for every capacity of the channel, budget,   *)
(* length of the output and number of faults.                              *)
(***************************************************************************)
EXTENDS ShellSession, SequenceTheorems, TLAPS

-----------------------------------------------------------------------------
(* No exec sends on a closed channel. *)

\* What only exists on Windows is not there on Linux.
NoCoreOnLinux == plat = "linux" => shell = "none" /\ client = "off" /\ wire = <<>>

\* The pump of a Linux exec has ended when its exit code is there, and when its
\* channel is closed; before the process is created there is neither,
\* nor a pump.
PumpEndsFirst ==
    plat = "linux" /\ Exec =>
        /\ exits # None => pump = "done"
        /\ chanClosed => pump = "done"
        /\ pc \in {"new", "create"} => exits = None /\ ~chanClosed /\ pump = "off"

\* The handler of an exec closes its process only after it has had the code.
ClosedAfterExit ==
    plat = "linux" /\ Exec /\ pc \in {"killExit", "drain", "close", "closing"} => exits # None

PanicInv ==
    /\ NoCoreOnLinux
    /\ PumpEndsFirst
    /\ ClosedAfterExit
    /\ plat = "windows" => ~crashed
    /\ ExecNeverPanics

\* No step changes the platform or the mode.
LEMMA Fixed == [Next]_vars => plat' = plat /\ mode' = mode
<1> SUFFICES ASSUME [Next]_vars PROVE UNCHANGED fixed
  BY DEF fixed
<1>1. CASE UNCHANGED vars
  BY <1>1 DEF vars
<1>2. CASE Handler
  BY <1>2 DEF Handler, SessionOpen, TakeExit, SeeCancel, SeeTimer, ShellEnds, Kill, AwaitExit,
     AwaitOutput, Finish, CoreKillShell, SetExecBudget, ClosePipe, LinuxCloseDone,
     LinuxCloseStreams
<1>3. CASE LinuxHost \/ WindowsHost \/ HostBegins
  BY <1>3 DEF LinuxHost, LinuxRead, LinuxReadEnds, LinuxSend, Supervise, WindowsHost, HostPumps,
     HostPumpEnds, HostReaderKills, HostExits, HostBegins
<1>4. CASE Client \/ Writer \/ Create \/ TimerFires \/ HostTimerFires
  BY <1>4 DEF Client, DialBegun, ClientReads, Teardown, DrainPend, Writer, WriterTakes,
     WriterWrites, Create, LinuxCreate, CoreCreateShell, Refused, TimerFires, HostTimerFires
<1>5. CASE Environment
  BY <1>5 DEF Environment, SessionClose, LegFails, CoreFails, Escapes, Emits, MainExits,
     OthersExit, DialFails, HostSpawnFails
<1> QED BY <1>1, <1>2, <1>3, <1>4, <1>5 DEF Next

LEMMA InitPanic == Init => PanicInv
BY ShellAssumption DEF Init, PanicInv, NoCoreOnLinux, PumpEndsFirst, ClosedAfterExit,
   ExecNeverPanics, Exec

LEMMA NextPanic == plat \in {"linux", "windows"} /\ PanicInv /\ [Next]_vars => PanicInv'
<1> SUFFICES ASSUME plat \in {"linux", "windows"}, PanicInv, [Next]_vars PROVE PanicInv'
  OBVIOUS
<1> USE ShellAssumption
    DEF PanicInv, NoCoreOnLinux, PumpEndsFirst, ClosedAfterExit, ExecNeverPanics, Exec,
        fixed, handler, command, output, linux, windows
<1>1. CASE UNCHANGED vars
  BY <1>1 DEF vars
<1>2. CASE SessionOpen \/ TakeExit \/ SeeCancel \/ SeeTimer \/ ShellEnds
  BY <1>2 DEF SessionOpen, TakeExit, SeeCancel, SeeTimer, ShellEnds, Code
<1>3. CASE Kill \/ AwaitExit \/ AwaitOutput \/ Finish
  BY <1>3 DEF Kill, AwaitExit, AwaitOutput, Finish, Code
<1>4. CASE CoreKillShell \/ SetExecBudget \/ ClosePipe \/ LinuxCloseDone \/ LinuxCloseStreams
  BY <1>4 DEF CoreKillShell, SetExecBudget, ClosePipe, LinuxCloseDone, LinuxCloseStreams
<1>5. CASE LinuxRead \/ Supervise
  BY <1>5 DEF LinuxRead, Supervise
<1>6. CASE LinuxReadEnds
  <2>1. Exec /\ plat = "linux" =>
            pump # "done" /\ ~chanClosed /\ exits = None /\ pc \notin {"new", "create"}
    BY <1>6 DEF LinuxReadEnds
  <2>2. Exec /\ plat = "linux" => ~chanClosed'
    BY <1>6, <2>1 DEF LinuxReadEnds
  <2>3. UNCHANGED <<fixed, pc, exits, crashed, shell, client, wire>>
    BY <1>6 DEF LinuxReadEnds
  <2> QED BY <2>1, <2>2, <2>3, <1>6
<1>11. CASE LinuxSend
  <2>1. Exec /\ plat = "linux" =>
            pump # "done" /\ ~chanClosed /\ exits = None /\ pc \notin {"new", "create"}
    BY <1>11 DEF LinuxSend
  <2>2. Exec /\ plat = "linux" => ~chanClosed' /\ (crashed' <=> crashed)
    BY <1>11, <2>1 DEF LinuxSend
  <2>3. UNCHANGED <<fixed, pc, exits, shell, client, wire>> /\ plat = "linux"
    BY <1>11 DEF LinuxSend
  <2> QED BY <2>1, <2>2, <2>3
<1>7. CASE WindowsHost \/ HostBegins
  BY <1>7 DEF WindowsHost, HostPumps, HostPumpEnds, HostReaderKills, HostExits, HostBegins
<1>8. CASE DialBegun \/ ClientReads \/ Teardown \/ DrainPend
  BY <1>8 DEF DialBegun, ClientReads, Teardown, DrainPend
<1>9. CASE Writer \/ Create \/ TimerFires \/ HostTimerFires
  BY <1>9 DEF Writer, WriterTakes, WriterWrites, Create, LinuxCreate, CoreCreateShell, Refused,
     TimerFires, HostTimerFires
<1>10. CASE Environment
  BY <1>10 DEF Environment, SessionClose, LegFails, CoreFails, Escapes, Emits, MainExits,
     OthersExit, DialFails, HostSpawnFails
<1> QED BY <1>1, <1>2, <1>3, <1>4, <1>5, <1>6, <1>7, <1>8, <1>9, <1>10,
           <1>11 DEF Next, Handler, LinuxHost, Client

\* The pump of an exec never sends on a closed channel, which would end the agent
\* (pumpStream, supervise, Close in shellhost_linux.go).
THEOREM ExecsNeverPanic == Spec => []ExecNeverPanics
<1>1. Init => plat \in {"linux", "windows"} /\ PanicInv
  BY InitPanic, ShellAssumption DEF Init
<1>2. plat \in {"linux", "windows"} /\ PanicInv /\ [Next]_vars
          => (plat \in {"linux", "windows"} /\ PanicInv)'
  BY NextPanic, Fixed
<1>3. PanicInv => ExecNeverPanics
  BY DEF PanicInv
<1> QED BY <1>1, <1>2, <1>3, PTL DEF Spec

-----------------------------------------------------------------------------
(* The output is accounted for. *)

\* What the queues hold.
Item == Nat \cup Code \cup {Begin, Marker, None}

Typed ==
    /\ made \in Nat /\ got \in Nat /\ dropped \in Nat /\ total \in 0..Budget
    /\ sent \in Seq(Item \cup {Result}) /\ (pc # "ended" => sent \in Seq(Item))
    /\ chan \in Seq(Item) /\ Len(chan) <= Depth /\ pend \in Seq(Item)
    /\ wire \in Seq(Item) /\ hand \in Item
    /\ code \in Code \cup {None} /\ exitVal \in Code \cup {None}
    /\ tree \in {"none", "running", "left", "gone"}
    /\ pump \in {"off", "reading", "holding", "blocked", "done"}
    /\ client \in {"off", "reading", "draining", "done"}
    /\ writer \in {"off", "idle", "writing", "done"}
    /\ shell \in {"none", "accept", "serving", "gone"} /\ conn \in {"off", "open", "closed"}
    /\ got <= made

\* The command is over and all it wrote was read.
Finished == pump = "done" /\ got = made /\ tree = "gone"

\* Where the handler stands: it has a code only after it was delivered, and ends
\* with one only when the goroutine that writes has seen the end of the output.
HandlerInv ==
    /\ ~Exec => exit = None
    /\ exit # None =>
          /\ pc \in {"killExit", "coreExit", "drain", "close", "closing", "finish", "ended"}
          /\ exits # None
    /\ exit # None /\ ws = "ok" /\ pc \in {"close", "closing", "finish"} => writer = "done"
    /\ Exec /\ writer = "done" /\ ws = "ok" => chan = <<>> /\ chanClosed
    /\ pc = "ended" /\ writer \in {"idle", "writing"} => ws = "dead"
    /\ pc \in {"new", "create", "piping", "budget"} => writer = "off"

\* The pump of a Linux exec: what it counts, and that it ends at the end.
LinuxInv ==
    plat = "linux" /\ Exec =>
        /\ dropped = IF got > Budget THEN got - Budget ELSE 0
        /\ pump = "off" => got = 0
        /\ pump \in {"holding", "blocked"} => got > 0
        /\ pump \in {"holding", "blocked"} /\ got > Budget => got = made /\ tree = "gone"
        /\ pump = "done" => got = made /\ tree = "gone"
        /\ doneCh => pump = "done"
        /\ pend = <<>>

\* The frames of xnc-shell: SHELL_BEGIN before the client reads, output, the code
\* as the last one.
FramesInv ==
    \A i \in 1..Len(wire) :
        /\ wire[i] \in Nat \cup Code \cup {Begin}
        /\ wire[i] = Begin <=> i = 1 /\ client = "off"
        /\ wire[i] \in Code => i = Len(wire) /\ shell = "gone" /\ exitVal = None
        /\ wire[i] = Ok => Finished

\* A Windows exec from its xnc-shell to the handler.
PipeInv ==
    /\ pc \in {"new", "create"} => conn = "off"
    /\ pc \in {"new", "create", "piping"} => client = "off"
    /\ conn = "off" => wire = <<>> /\ exitVal = None /\ got = 0 /\ shell # "serving"
    /\ shell = "serving" /\ client = "off" => wire # <<>>
    /\ shell = "serving" /\ conn = "open" /\ pump = "done" => Finished
    /\ tree \in {"left", "gone"} => code \in Code
    /\ exitVal # None => wire = <<>> /\ shell = "gone"
    /\ exitVal = Ok => Finished
    /\ exits # None => client \in {"draining", "done"}
    /\ exits = Ok => exitVal = Ok
    /\ exit = Ok => exitVal = Ok
    /\ chanClosed => client = "done"
    /\ client = "done" => pend = <<>>
    /\ client = "off" => dropped = 0 /\ exitVal = None
    /\ dropped > 0 => budgeted /\ total = Budget

WindowsInv == plat = "windows" /\ Exec => FramesInv /\ PipeInv

\* The output on its way to the client, from the oldest.
InHand == IF writer = "writing" THEN <<hand>> ELSE <<>>
Queue == (sent \o InHand) \o (chan \o pend)

\* On Linux it is what the pump has sent.
LinuxStream ==
    /\ pump \in {"off", "reading"} => Queue = Numbered(got - dropped)
    /\ pump \in {"holding", "blocked"} => Queue = Numbered(IF got > Budget THEN Budget ELSE got - 1)
    /\ pump = "done" => Queue = Numbered(got - dropped) \o Mark(dropped > 0)

\* On Windows it is the first n chunks, and the frames on the way continue them.
Offset == IF client = "off" THEN 1 ELSE 0
Continues(n) ==
    /\ \A i \in 1..Len(wire) : wire[i] \in Nat => wire[i] = n + dropped + i - Offset
    /\ shell = "serving" /\ conn = "open" => n + dropped + Len(wire) - Offset = got
    /\ \A i \in 1..Len(wire) : wire[i] = Ok => n + dropped + Len(wire) - 1 - Offset = got
    /\ exitVal = Ok => n + dropped = got
WindowsStream(n) ==
    /\ Queue = Numbered(n) \o Mark(dropped > 0 /\ client \in {"draining", "done"})
    /\ client = "off" => n = 0
    /\ Continues(n)

StreamInv ==
    Exec /\ ws = "ok" /\ ~early =>
        /\ plat = "linux" => LinuxStream
        /\ plat = "windows" => \E n \in Nat : WindowsStream(n)

OutputInv ==
    /\ plat \in {"linux", "windows"} /\ PanicInv
    /\ Typed /\ HandlerInv /\ LinuxInv /\ WindowsInv /\ StreamInv
    /\ OutputAccounted

-----------------------------------------------------------------------------
(* Sequences. *)

\* Taking the head of a queue in hand, and putting what is in hand behind what was
\* sent, leaves the order of the whole.
LEMMA Takes ==
    ASSUME NEW S, NEW a \in Seq(S), NEW b \in Seq(S), NEW c \in Seq(S), b # <<>>
    PROVE  (a \o <<Head(b)>>) \o (Tail(b) \o c) = (a \o <<>>) \o (b \o c)
<1>1. Len(b) \in Nat \ {0} /\ Head(b) \in S /\ Tail(b) \in Seq(S) /\ Head(b) = b[1]
  BY EmptySeq, HeadTailProperties
<1>2. b = <<Head(b)>> \o Tail(b)
  BY <1>1, SubSeqRecursiveFirst, SubSeqFull, TailIsSubSeq
<1>h. <<Head(b)>> \in Seq(S)
  BY <1>1
<1>3. b \o c = <<Head(b)>> \o (Tail(b) \o c)
  BY <1>1, <1>2, <1>h, ConcatAssociative
<1>4. Tail(b) \o c \in Seq(S) /\ a \o <<>> = a
  BY <1>1, ConcatProperties, ConcatEmptySeq
<1> DEFINE h == <<Head(b)>>
           t == Tail(b) \o c
<1>5. h \in Seq(S) /\ t \in Seq(S)
  BY <1>h, <1>4
<1> HIDE DEF h, t
<1>6. (a \o h) \o t = a \o (h \o t)
  BY <1>5, ConcatAssociative, SMTT(30)
<1> QED BY <1>3, <1>4, <1>6 DEF h, t

LEMMA Writes ==
    ASSUME NEW S, NEW a \in Seq(S), NEW h \in S
    PROVE  Append(a, h) \o <<>> = a \o <<h>>
BY AppendIsConcat, AppendProperties, ConcatEmptySeq

\* What is appended to the last queue is appended to the whole.
LEMMA Appends ==
    ASSUME NEW S, NEW a \in Seq(S), NEW b \in Seq(S), NEW c \in Seq(S), NEW d \in S
    PROVE  a \o (b \o Append(c, d)) = Append(a \o (b \o c), d)
<1>1. <<d>> \in Seq(S) /\ Append(c, d) = c \o <<d>>
  BY AppendIsConcat
<1>2. b \o (c \o <<d>>) = (b \o c) \o <<d>> /\ b \o c \in Seq(S)
  BY <1>1, ConcatAssociative, ConcatProperties
<1>3. a \o ((b \o c) \o <<d>>) = (a \o (b \o c)) \o <<d>> /\ a \o (b \o c) \in Seq(S)
  BY <1>1, <1>2, ConcatAssociative, ConcatProperties
<1> QED BY <1>1, <1>2, <1>3, AppendIsConcat

\* Moving the front of one queue behind another one.
LEMMA Moves ==
    ASSUME NEW S, NEW b \in Seq(S), NEW data \in Seq(S), NEW k \in 0..Len(data)
    PROVE  /\ (b \o SubSeq(data, 1, k)) \o SubSeq(data, k + 1, Len(data)) = b \o data
           /\ b \o SubSeq(data, 1, k) \in Seq(S) /\ SubSeq(data, k + 1, Len(data)) \in Seq(S)
           /\ Len(b \o SubSeq(data, 1, k)) = Len(b) + k
<1>1. Len(data) \in Nat /\ \A i \in 1..Len(data) : data[i] \in S
  BY LenProperties, ElementOfSeq
<1>2. SubSeq(data, 1, k) \in Seq(S) /\ Len(SubSeq(data, 1, k)) = k
  BY <1>1, SubSeqProperties
<1>3. SubSeq(data, k + 1, Len(data)) \in Seq(S)
  BY <1>1, SubSeqProperties
<1>4. SubSeq(data, 1, k) \o SubSeq(data, k + 1, Len(data)) = data
  <2>1. 1 \in 1..Len(data) + 1 /\ k \in 1 - 1..Len(data) /\ Len(data) \in k..Len(data)
    BY <1>1
  <2>2. SubSeq(data, 1, k) \o SubSeq(data, k + 1, Len(data)) = SubSeq(data, 1, Len(data))
    BY <2>1, ConcatAdjacentSubSeq
  <2> QED BY <2>2, SubSeqFull
<1>5. (b \o SubSeq(data, 1, k)) \o SubSeq(data, k + 1, Len(data))
        = b \o (SubSeq(data, 1, k) \o SubSeq(data, k + 1, Len(data)))
  <2> DEFINE s == SubSeq(data, 1, k)
             u == SubSeq(data, k + 1, Len(data))
  <2>1. s \in Seq(S) /\ u \in Seq(S)
    BY <1>2, <1>3
  <2> HIDE DEF s, u
  <2>2. (b \o s) \o u = b \o (s \o u)
    BY <2>1, ConcatAssociative, SMTT(30)
  <2> QED BY <2>2 DEF s, u
<1>6. b \o SubSeq(data, 1, k) \in Seq(S) /\ Len(b \o SubSeq(data, 1, k)) = Len(b) + k
  BY <1>2, ConcatProperties
<1> QED BY <1>3, <1>4, <1>5, <1>6

LEMMA NumberedGrows ==
    ASSUME NEW n \in Nat
    PROVE  /\ Numbered(n) \in Seq(Nat) /\ Len(Numbered(n)) = n
           /\ Numbered(n + 1) = Append(Numbered(n), n + 1)
<1>1. /\ Numbered(n) \in Seq(Nat) /\ Len(Numbered(n)) = n
      /\ Numbered(n + 1) \in Seq(Nat) /\ Len(Numbered(n + 1)) = n + 1
  BY DEF Numbered
<1>2. Append(Numbered(n), n + 1) \in Seq(Nat) /\ Len(Append(Numbered(n), n + 1)) = n + 1
  BY <1>1
<1>3. ASSUME NEW i \in 1..n + 1 PROVE Append(Numbered(n), n + 1)[i] = Numbered(n + 1)[i]
  <2>1. CASE i = n + 1
    BY <1>1, <2>1, AppendProperties DEF Numbered
  <2>2. CASE i \in 1..n
    BY <1>1, <2>2, AppendProperties DEF Numbered
  <2>3. i = n + 1 \/ i \in 1..n
    OBVIOUS
  <2> QED BY <2>1, <2>2, <2>3
<1> QED BY <1>1, <1>2, <1>3, SeqEqual

-----------------------------------------------------------------------------
(* Types. *)

LEMMA Items == Nat \subseteq Item /\ Code \subseteq Item /\ {Begin, Marker, None} \subseteq Item
BY DEF Item

\* Both ways to put output into the queues keep them queues.
LEMMA DeliverTyped ==
    ASSUME chan \in Seq(Item), NEW data \in Seq(Item), Len(chan) <= Depth, Deliver(data)
    PROVE  /\ chan' \in Seq(Item) /\ pend' \in Seq(Item)
           /\ chan' \o pend' = chan \o data
           /\ Len(chan') <= Depth
<1> DEFINE room == Depth - Len(chan)
           k == IF Len(data) < room THEN Len(data) ELSE room
<1>1. /\ Len(chan) \in Nat /\ Len(data) \in Nat /\ Depth \in Nat
      /\ k \in 0..Len(data) /\ k <= Depth - Len(chan)
  BY ShellAssumption, LenProperties
<1>2. chan' = chan \o SubSeq(data, 1, k) /\ pend' = SubSeq(data, k + 1, Len(data))
  BY DEF Deliver
<1> HIDE DEF k, room
<1>3. /\ (chan \o SubSeq(data, 1, k)) \o SubSeq(data, k + 1, Len(data)) = chan \o data
      /\ chan \o SubSeq(data, 1, k) \in Seq(Item) /\ SubSeq(data, k + 1, Len(data)) \in Seq(Item)
      /\ Len(chan \o SubSeq(data, 1, k)) = Len(chan) + k
  BY <1>1, Moves
<1> DEFINE s == chan \o SubSeq(data, 1, k)
           u == SubSeq(data, k + 1, Len(data))
<1>4. /\ s \o u = chan \o data /\ s \in Seq(Item) /\ u \in Seq(Item) /\ Len(s) = Len(chan) + k
      /\ chan' = s /\ pend' = u
  BY <1>2, <1>3
<1> HIDE DEF s, u
<1> QED BY <1>1, <1>4

LEMMA EnqueueTyped ==
    ASSUME Typed, NEW d \in Item, EnqueueData(d)
    PROVE  /\ chan' \in Seq(Item) /\ Len(chan') <= Depth /\ pend' \in Seq(Item)
           /\ dropped' \in Nat /\ total' \in 0..Budget
<1>1. /\ Append(pend, d) \in Seq(Item) /\ chan \in Seq(Item) /\ Len(chan) <= Depth
      /\ total \in 0..Budget /\ dropped \in Nat /\ Budget \in Nat /\ pend \in Seq(Item)
  BY ShellAssumption DEF Typed
<1>2. Deliver(Append(pend, d)) =>
        chan' \in Seq(Item) /\ pend' \in Seq(Item) /\ Len(chan') <= Depth
  BY <1>1, DeliverTyped
<1> QED BY <1>1, <1>2 DEF EnqueueData

LEMMA InitTyped == Init => Typed
BY ShellAssumption, Items DEF Init, Typed

LEMMA NextTyped == Typed /\ [Next]_vars => Typed'
<1> SUFFICES ASSUME Typed, [Next]_vars PROVE Typed'
  OBVIOUS
<1>d. Budget \in Nat /\ Depth \in Nat \ {0}
  BY ShellAssumption
<1> USE Items DEF fixed, handler, command, output, linux, windows
<1>1. CASE UNCHANGED vars
  BY <1>1 DEF vars, Typed
<1>2. CASE SessionOpen \/ TakeExit \/ SeeCancel \/ SeeTimer \/ ShellEnds \/ AwaitExit \/ AwaitOutput
  BY <1>2 DEF SessionOpen, TakeExit, SeeCancel, SeeTimer, ShellEnds, AwaitExit, AwaitOutput, Typed
<1>3. CASE Kill
  BY <1>3 DEF Kill, KillGroup, Typed, Code
<1>4. CASE Finish
  <2>1. sent \in Seq(Item) /\ Append(sent, Result) \in Seq(Item \cup {Result})
    BY <1>4 DEF Finish, Typed
  <2> QED BY <1>4, <2>1 DEF Finish, Typed
<1>5. CASE CoreKillShell
  BY <1>5 DEF CoreKillShell, Typed, Code
<1>6. CASE SetExecBudget \/ ClosePipe \/ LinuxCloseDone \/ LinuxCloseStreams
  BY <1>6 DEF SetExecBudget, ClosePipe, LinuxCloseDone, LinuxCloseStreams, Typed
<1>7. CASE LinuxRead \/ LinuxReadEnds \/ Supervise
  BY <1>7 DEF LinuxRead, LinuxReadEnds, Supervise, Typed
<1>8. CASE LinuxSend
  <2>1. Held \in Item /\ AfterSend \in {"reading", "done"}
    BY DEF Held, AfterSend, Typed
  <2>2. chan' = chan \/ (Len(chan) < Depth /\ chan' = Append(chan, Held))
    BY <1>8 DEF LinuxSend
  <2>3. chan' \in Seq(Item) /\ Len(chan') <= Depth
    <3>1. chan \in Seq(Item) /\ Len(chan) \in Nat /\ Len(chan) <= Depth
      BY LenProperties DEF Typed
    <3>2. Append(chan, Held) \in Seq(Item) /\ Len(Append(chan, Held)) = Len(chan) + 1
      BY <2>1, <3>1, AppendProperties
    <3> QED BY <1>d, <2>2, <3>1, <3>2
  <2>4. pump' \in {"reading", "blocked", "done"}
    BY <1>8, <2>1 DEF LinuxSend
  <2> QED BY <1>8, <2>3, <2>4 DEF LinuxSend, Typed
<1>9. CASE HostPumps
  <2>1. got + 1 \in Nat /\ got + 1 <= made /\ Append(wire, got + 1) \in Seq(Item)
    BY <1>9 DEF HostPumps, Typed
  <2>2. got' = got + 1 /\ wire' \in {wire, Append(wire, got + 1)}
    BY <1>9 DEF HostPumps
  <2>3. got' \in Nat /\ got' <= made /\ wire' \in Seq(Item)
    BY <2>1, <2>2 DEF Typed
  <2>4. /\ tree' \in {"none", "running", "left", "gone"} /\ code' \in Code \cup {None}
        /\ pump' \in {pump, "done"}
    BY <1>9 DEF HostPumps, KillTree, Typed, Code
  <2> QED BY <1>9, <2>3, <2>4 DEF HostPumps, Typed
<1>10. CASE HostPumpEnds \/ HostReaderKills
  BY <1>10 DEF HostPumpEnds, HostReaderKills, KillTree, Typed, Code
<1>11. CASE HostExits
  <2>1. code' \in Code \cup {None}
    BY <1>11 DEF HostExits, Typed, Code
  <2>2. wire' \in Seq(Item)
    <3>1. wire \in Seq(Item) /\ code' \in Item
      BY <2>1 DEF Typed
    <3>2. Append(wire, code') \in Seq(Item)
      BY <3>1
    <3> QED BY <1>11, <3>1, <3>2 DEF HostExits
  <2> QED BY <1>11, <2>1, <2>2 DEF HostExits, Typed
<1>12. CASE HostBegins
  <2>1. <<Begin>> \in Seq(Item)
    OBVIOUS
  <2> QED BY <1>12, <2>1 DEF HostBegins, Typed
<1>13. CASE HostSpawnFails
  <2>1. <<Begin, Lost>> \in Seq(Item)
    BY DEF Code
  <2> QED BY <1>13, <2>1 DEF HostSpawnFails, Typed
<1>14. CASE DialBegun
  BY <1>14 DEF DialBegun, Typed
<1>15. CASE ClientReads
  <2>1. Head(wire) \in Item /\ Tail(wire) \in Seq(Item) /\ wire' = Tail(wire)
    BY <1>15 DEF ClientReads, Typed
  <2>2. CASE Head(wire) \in Code
    BY <1>15, <2>1, <2>2 DEF ClientReads, Typed
  <2>3. CASE Head(wire) \notin Code
    <3>1. EnqueueData(Head(wire)) /\ UNCHANGED exitVal
      BY <1>15, <2>3 DEF ClientReads
    <3>2. /\ chan' \in Seq(Item) /\ Len(chan') <= Depth /\ pend' \in Seq(Item)
          /\ dropped' \in Nat /\ total' \in 0..Budget
      BY <2>1, <3>1, EnqueueTyped
    <3> QED BY <1>15, <2>1, <3>1, <3>2 DEF ClientReads, Typed
  <2> QED BY <2>2, <2>3
<1>16. CASE Teardown
  <2>1. Append(pend, Marker) \in Seq(Item)
    BY DEF Typed
  <2> QED BY <1>16, <2>1 DEF Teardown, Typed
<1>17. CASE DrainPend
  <2>1. Deliver(pend) => chan' \in Seq(Item) /\ pend' \in Seq(Item) /\ Len(chan') <= Depth
    BY DeliverTyped DEF Typed
  <2>2. chan' \in Seq(Item) /\ pend' \in Seq(Item) /\ Len(chan') <= Depth
    <3>1. <<>> \in Seq(Item) /\ chan \in Seq(Item) /\ Len(chan) <= Depth
      BY EmptySeq DEF Typed
    <3>2. Deliver(pend) \/ (pend' = <<>> /\ chan' = chan)
      BY <1>17 DEF DrainPend
    <3> QED BY <2>1, <3>1, <3>2
  <2> QED BY <1>17, <2>2 DEF DrainPend, Typed
<1>18. CASE WriterTakes
  <2>1. chan # <<>> => Head(chan) \in Item /\ Tail(chan) \in Seq(Item) /\ Len(Tail(chan)) <= Depth
    <3>1. chan \in Seq(Item) /\ Len(chan) \in Nat /\ Len(chan) <= Depth
      BY LenProperties DEF Typed
    <3> HAVE chan # <<>>
    <3>2. Head(chan) \in Item /\ Tail(chan) \in Seq(Item) /\ Len(Tail(chan)) = Len(chan) - 1
      BY <3>1, HeadTailProperties
    <3> QED BY <1>d, <3>1, <3>2
  <2>2. /\ chan' \in Seq(Item) /\ Len(chan') <= Depth /\ hand' \in Item
        /\ writer' \in {"writing", "done"}
    BY <1>18, <2>1 DEF WriterTakes, Typed
  <2> QED BY <1>18, <2>2 DEF WriterTakes, Typed
<1>19. CASE WriterWrites
  <2>1. /\ Append(sent, hand) \in Seq(Item \cup {Result})
        /\ pc # "ended" => Append(sent, hand) \in Seq(Item)
    <3>1. sent \in Seq(Item \cup {Result}) /\ hand \in Item \cup {Result} /\ hand \in Item
      BY DEF Typed
    <3> QED BY <3>1, AppendProperties DEF Typed
  <2>2. sent' \in {sent, Append(sent, hand)} /\ writer' \in {"idle", "done"} /\ hand' = None
    BY <1>19 DEF WriterWrites
  <2>3. sent' \in Seq(Item \cup {Result}) /\ (pc # "ended" => sent' \in Seq(Item))
    BY <2>1, <2>2 DEF Typed
  <2> QED BY <1>19, <2>2, <2>3 DEF WriterWrites, Typed
<1>20. CASE Create \/ TimerFires
  BY <1>20 DEF Create, LinuxCreate, CoreCreateShell, Refused, TimerFires, Typed
<1>21. CASE HostTimerFires
  BY <1>21 DEF HostTimerFires, KillGroup, KillTree, Typed, Code
<1>22. CASE SessionClose \/ LegFails \/ CoreFails \/ Escapes \/ OthersExit \/ DialFails
  BY <1>22 DEF SessionClose, LegFails, CoreFails, Escapes, OthersExit, DialFails, Typed
<1>23. CASE Emits \/ MainExits
  BY <1>23 DEF Emits, MainExits, Typed, Code
<1> QED BY <1>1, <1>2, <1>3, <1>4, <1>5, <1>6, <1>7, <1>8, <1>9, <1>10, <1>11, <1>12, <1>13,
           <1>14, <1>15, <1>16, <1>17, <1>18, <1>19, <1>20, <1>21, <1>22, <1>23
        DEF Next, Handler, LinuxHost, WindowsHost, Client, Writer, Environment

-----------------------------------------------------------------------------
(* The handler and the pump on Linux. *)

LEMMA NextHandler ==
    ASSUME plat \in {"linux", "windows"}, PanicInv, Typed, WindowsInv, HandlerInv, [Next]_vars
    PROVE  HandlerInv'
<1>a. None \notin Code /\ Taken # None /\ Lost # None
  BY ShellAssumption DEF Code
<1> USE <1>a DEF HandlerInv, Exec, fixed, handler, command, output, linux, windows
<1>1. CASE UNCHANGED vars
  BY <1>1 DEF vars
<1>2. CASE SessionOpen \/ SeeCancel \/ SeeTimer \/ ShellEnds \/ AwaitOutput
  BY <1>2 DEF SessionOpen, SeeCancel, SeeTimer, ShellEnds, AwaitOutput
<1>3. CASE TakeExit \/ AwaitExit
  BY <1>3 DEF TakeExit, AwaitExit
<1>4. CASE Kill \/ CoreKillShell
  BY <1>4 DEF Kill, CoreKillShell
<1>5. CASE Finish
  BY <1>5 DEF Finish
<1>6. CASE SetExecBudget \/ ClosePipe \/ LinuxCloseDone \/ LinuxCloseStreams
  BY <1>6 DEF SetExecBudget, ClosePipe, LinuxCloseDone, LinuxCloseStreams
<1>7. CASE LinuxRead \/ Supervise
  BY <1>7 DEF LinuxRead, Supervise, PanicInv, PumpEndsFirst
<1>8. CASE LinuxReadEnds
  <2>1. chanClosed => chanClosed'
    BY <1>8 DEF LinuxReadEnds
  <2> QED BY <1>8, <2>1 DEF LinuxReadEnds
<1>9. CASE LinuxSend
  <2>1. \/ ~chanClosed
        \/ (chanClosed' <=> chanClosed) /\ chan' = chan
        \/ (chanClosed' <=> chanClosed \/ ~Exec) /\ chan' = chan
    BY <1>9 DEF LinuxSend
  <2> QED BY <1>9, <2>1 DEF LinuxSend
<1>10. CASE WindowsHost \/ HostBegins
  BY <1>10 DEF WindowsHost, HostPumps, HostPumpEnds, HostReaderKills, HostExits, HostBegins
<1>11. CASE DialBegun
  BY <1>11 DEF DialBegun
<1>12. CASE ClientReads \/ DrainPend
  <2>1. /\ UNCHANGED <<fixed, pc, ws, writer, exit, exits>>
        /\ plat = "windows" /\ client \in {"reading", "draining"}
    BY <1>12 DEF ClientReads, DrainPend, PanicInv, NoCoreOnLinux
  <2>2. Exec => ~chanClosed
    BY <2>1 DEF WindowsInv, PipeInv
  <2> QED BY <2>1, <2>2
<1>13. CASE Teardown
  BY <1>13 DEF Teardown
<1>14. CASE WriterTakes
  BY <1>14 DEF WriterTakes
<1>15. CASE WriterWrites
  BY <1>15 DEF WriterWrites
<1>16. CASE Create \/ TimerFires \/ HostTimerFires
  BY <1>16 DEF Create, LinuxCreate, CoreCreateShell, Refused, TimerFires, HostTimerFires
<1>17. CASE Environment
  BY <1>17 DEF Environment, SessionClose, LegFails, CoreFails, Escapes, Emits, MainExits,
     OthersExit, DialFails, HostSpawnFails
<1> QED BY <1>1, <1>2, <1>3, <1>4, <1>5, <1>6, <1>7, <1>8, <1>9, <1>10, <1>11, <1>12, <1>13,
           <1>14, <1>15, <1>16, <1>17
        DEF Next, Handler, LinuxHost, Client, Writer

LEMMA NextLinux ==
    ASSUME plat \in {"linux", "windows"}, PanicInv, Typed, LinuxInv, [Next]_vars
    PROVE  LinuxInv'
<1> SUFFICES ASSUME plat = "linux", Exec PROVE LinuxInv'
  BY Fixed DEF LinuxInv, Exec
<1>a. Budget \in Nat /\ Budget > 0 /\ Marker \notin Nat
  BY ShellAssumption
<1>c. /\ made \in Nat /\ got \in Nat /\ got <= made /\ dropped \in Nat
      /\ pump \in {"off", "reading", "holding", "blocked", "done"}
      /\ shell = "none" /\ client = "off" /\ wire = <<>>
      /\ (exits # None => pump = "done") /\ (chanClosed => pump = "done")
      /\ pc \in {"new", "create"} => pump = "off"
      /\ pc \in {"killExit", "drain", "close", "closing"} => exits # None
  BY DEF Typed, PanicInv, NoCoreOnLinux, PumpEndsFirst, ClosedAfterExit
<1> USE <1>a, <1>c DEF LinuxInv, Exec, fixed, handler, command, output, linux, windows
<1>1. CASE UNCHANGED vars
  BY <1>1 DEF vars
<1>2. CASE SessionOpen \/ SeeCancel \/ SeeTimer \/ ShellEnds \/ AwaitOutput \/ TakeExit \/ AwaitExit
           \/ Finish
  BY <1>2 DEF SessionOpen, SeeCancel, SeeTimer, ShellEnds, AwaitOutput, TakeExit, AwaitExit, Finish
<1>3. CASE Kill \/ HostTimerFires
  BY <1>3 DEF Kill, HostTimerFires, KillGroup
<1>4. CASE CoreKillShell \/ SetExecBudget \/ ClosePipe \/ LinuxCloseStreams
  BY <1>4 DEF CoreKillShell, SetExecBudget, ClosePipe, LinuxCloseStreams
<1>5. CASE LinuxCloseDone
  BY <1>5 DEF LinuxCloseDone
<1>6. CASE LinuxRead
  BY <1>6 DEF LinuxRead
<1>7. CASE LinuxReadEnds
  BY <1>7 DEF LinuxReadEnds, LinuxEof, Eof
<1>8. CASE LinuxSend
  <2>1. ~chanClosed /\ ~doneCh
    BY <1>8 DEF LinuxSend
  <2>2. pump' \in {"blocked", AfterSend} /\ UNCHANGED <<got, made, dropped, tree, pend, doneCh>>
    BY <1>8, <2>1 DEF LinuxSend
  <2>3. AfterSend = IF got > Budget THEN "done" ELSE "reading"
    BY DEF AfterSend, Held
  <2> QED BY <1>8, <2>1, <2>2, <2>3 DEF LinuxSend
<1>9. CASE Supervise
  BY <1>9 DEF Supervise
<1>10. CASE WindowsHost \/ HostBegins \/ Client
  BY <1>10 DEF WindowsHost, HostPumps, HostPumpEnds, HostReaderKills, HostExits, HostBegins,
     Client, DialBegun, ClientReads, Teardown, DrainPend
<1>11. CASE Writer \/ TimerFires
  BY <1>11 DEF Writer, WriterTakes, WriterWrites, TimerFires
<1>12. CASE Create
  BY <1>12 DEF Create, LinuxCreate, CoreCreateShell, Refused
<1>13. CASE Environment
  BY <1>13 DEF Environment, SessionClose, LegFails, CoreFails, Escapes, Emits, MainExits,
     OthersExit, DialFails, HostSpawnFails
<1> QED BY <1>1, <1>2, <1>3, <1>4, <1>5, <1>6, <1>7, <1>8, <1>9, <1>10, <1>11, <1>12, <1>13
        DEF Next, Handler, LinuxHost

-----------------------------------------------------------------------------
(* The frames and the pipe client on Windows. *)

\* The mode is exec and the platform Windows, and the facts needed of the constants.
LEMMA Distinct ==
    /\ None \notin Code /\ Taken \notin Code /\ Taken # None /\ Ok \in Code /\ Lost \in Code
    /\ Lost # Ok /\ Killed \in Code /\ Begin \notin Code /\ Begin \notin Nat /\ Marker \notin Nat
    /\ \A c \in Code : c \notin Nat
BY ShellAssumption DEF Code

\* A command that has ended and was read to its end stays so.
LEMMA FinishedStays ==
    ASSUME plat = "windows", Exec, Finished, [Next]_vars, ~HostBegins
    PROVE  Finished' /\ got' = got
<1> USE DEF Finished, Exec, fixed, handler, command, output, linux, windows
<1>1. CASE UNCHANGED vars
  BY <1>1 DEF vars
<1>2. CASE Handler
  BY <1>2 DEF Handler, SessionOpen, TakeExit, SeeCancel, SeeTimer, ShellEnds, Kill, AwaitExit,
     AwaitOutput, Finish, CoreKillShell, SetExecBudget, ClosePipe, LinuxCloseDone,
     LinuxCloseStreams
<1>3. CASE LinuxHost \/ WindowsHost
  BY <1>3 DEF LinuxHost, LinuxRead, LinuxReadEnds, LinuxSend, Supervise, WindowsHost, HostPumps,
     HostPumpEnds, HostReaderKills, HostExits
<1>4. CASE Client \/ Writer \/ Create \/ TimerFires
  BY <1>4 DEF Client, DialBegun, ClientReads, Teardown, DrainPend, Writer, WriterTakes,
     WriterWrites, Create, LinuxCreate, CoreCreateShell, Refused, TimerFires
<1>5. CASE HostTimerFires
  BY <1>5 DEF HostTimerFires, KillTree
<1>6. CASE Environment
  BY <1>6 DEF Environment, SessionClose, LegFails, CoreFails, Escapes, Emits, MainExits,
     OthersExit, DialFails, HostSpawnFails
<1> QED BY <1>1, <1>2, <1>3, <1>4, <1>5, <1>6 DEF Next

\* An appended frame that is not Begin keeps the frames in order.
LEMMA FramesAppend ==
    ASSUME FramesInv, NEW x \in Nat \cup Code, wire \in Seq(Item), shell = "serving",
           client = "off" => wire # <<>>,
           wire' = Append(wire, x), UNCHANGED <<client, exitVal>>, exitVal = None,
           x \in Code => shell' = "gone",
           x = Ok => Finished'
    PROVE  FramesInv'
<1>1. \A i \in 1..Len(wire) : wire[i] \notin Code
  BY DEF FramesInv
<1>2. Len(wire) \in Nat /\ (client = "off" => Len(wire) > 0) /\ x # Begin
  BY Distinct, EmptySeq, LenProperties
<1>x. x \in Item
  BY Items
<1>3. /\ Len(wire') = Len(wire) + 1 /\ wire'[Len(wire) + 1] = x
      /\ \A i \in 1..Len(wire) : wire'[i] = wire[i]
  BY <1>x, AppendProperties
<1>4. SUFFICES ASSUME NEW i \in 1..Len(wire')
               PROVE  /\ wire'[i] \in Nat \cup Code \cup {Begin}
                      /\ wire'[i] = Begin <=> i = 1 /\ client' = "off"
                      /\ wire'[i] \in Code => i = Len(wire') /\ shell' = "gone" /\ exitVal' = None
                      /\ wire'[i] = Ok => Finished'
  BY DEF FramesInv
<1>5. CASE i = Len(wire) + 1
  BY <1>2, <1>3, <1>5
<1>6. CASE i \in 1..Len(wire)
  <2>1. wire'[i] = wire[i] /\ wire[i] \notin Code /\ wire[i] # Ok
    BY <1>1, <1>3, <1>6, Distinct
  <2> QED BY <1>6, <2>1 DEF FramesInv
<1>7. i = Len(wire) + 1 \/ i \in 1..Len(wire)
  BY <1>2, <1>3
<1> QED BY <1>5, <1>6, <1>7

\* A frame that is taken leaves the others in order.
LEMMA FramesTail ==
    ASSUME FramesInv, wire \in Seq(Item), wire # <<>>, wire' = Tail(wire), UNCHANGED shell,
           client' # "off", Head(wire) \notin Code => UNCHANGED exitVal, Finished => Finished'
    PROVE  FramesInv'
<1>1. /\ Len(wire) \in Nat /\ Len(wire') = Len(wire) - 1 /\ Head(wire) = wire[1]
      /\ \A i \in 1..Len(wire') : wire'[i] = wire[i + 1]
  BY HeadTailProperties, LenProperties
<1>2. SUFFICES ASSUME NEW i \in 1..Len(wire')
               PROVE  /\ wire'[i] \in Nat \cup Code \cup {Begin}
                      /\ wire'[i] = Begin <=> i = 1 /\ client' = "off"
                      /\ wire'[i] \in Code => i = Len(wire') /\ shell' = "gone" /\ exitVal' = None
                      /\ wire'[i] = Ok => Finished'
  BY DEF FramesInv
<1>3. i + 1 \in 1..Len(wire) /\ i + 1 # 1 /\ wire'[i] = wire[i + 1] /\ 1 \in 1..Len(wire)
      /\ 1 # Len(wire)
  BY <1>1
<1>4. Head(wire) \notin Code
  BY <1>1, <1>3 DEF FramesInv
<1>5. /\ wire[i + 1] \in Nat \cup Code \cup {Begin} /\ wire[i + 1] # Begin
      /\ wire[i + 1] \in Code => i + 1 = Len(wire) /\ shell = "gone" /\ exitVal = None
      /\ wire[i + 1] = Ok => Finished
  BY <1>3 DEF FramesInv
<1>6. i + 1 = Len(wire) => i = Len(wire')
  <2> DEFINE m == Len(wire)
             k == Len(wire')
  <2>1. m \in Nat /\ k = m - 1 /\ i \in 1..k
    BY <1>1
  <2> HIDE DEF m, k
  <2>2. i + 1 = m => i = k
    BY <2>1
  <2> QED BY <2>2 DEF m, k
<1>7. UNCHANGED <<shell, exitVal>> /\ client' # "off"
  BY <1>4
<1> DEFINE y == wire'[i]
<1>8. y = wire[i + 1]
  BY <1>3
<1> HIDE DEF y
<1>9. /\ y \in Nat \cup Code \cup {Begin}
      /\ y = Begin <=> i = 1 /\ client' = "off"
      /\ y \in Code => i = Len(wire') /\ shell' = "gone" /\ exitVal' = None
      /\ y = Ok => Finished'
  BY <1>5, <1>6, <1>7, <1>8
<1> QED BY <1>9 DEF y

LEMMA NextFrames ==
    ASSUME plat = "windows", Exec, Typed, WindowsInv, [Next]_vars
    PROVE  FramesInv'
<1>w. /\ FramesInv /\ wire \in Seq(Item) /\ got \in Nat
      /\ pc \in {"new", "create"} => conn = "off"
      /\ pc \in {"new", "create", "piping"} => client = "off"
      /\ conn = "off" => wire = <<>> /\ exitVal = None /\ got = 0 /\ shell # "serving"
      /\ shell = "serving" /\ client = "off" => wire # <<>>
      /\ shell = "serving" /\ conn = "open" /\ pump = "done" => Finished
      /\ tree \in {"left", "gone"} => code \in Code
      /\ exitVal # None => wire = <<>> /\ shell = "gone"
  BY DEF WindowsInv, PipeInv, Typed
<1>f. ~HostBegins => (Finished => Finished')
  BY FinishedStays
<1>e. CASE wire' = <<>>
  BY <1>e, EmptySeq DEF FramesInv
<1>s. ASSUME UNCHANGED <<wire, exitVal>>, client' = client \/ (client # "off" /\ client' # "off"),
             shell' = shell \/ shell' = "gone", ~HostBegins
      PROVE  FramesInv'
  BY <1>w, <1>f, <1>s DEF FramesInv
<1> USE DEF fixed, handler, command, output, linux, windows
<1>1. CASE UNCHANGED vars \/ Handler \/ LinuxHost
  <2>1. /\ UNCHANGED <<wire, exitVal, client>>
        /\ shell' = shell \/ shell' = "gone"
    BY <1>1 DEF vars, Handler, SessionOpen, TakeExit, SeeCancel, SeeTimer, ShellEnds, Kill,
       AwaitExit, AwaitOutput, Finish, CoreKillShell, SetExecBudget, ClosePipe, LinuxCloseDone,
       LinuxCloseStreams, LinuxHost, LinuxRead, LinuxReadEnds, LinuxSend, Supervise
  <2>2. CASE HostBegins
    BY <2>1, <2>2, <1>w, <1>e DEF HostBegins
  <2> QED BY <1>s, <2>1, <2>2
<1>2. CASE HostPumps
  <2>1. CASE conn = "open"
    <3>1. wire' = Append(wire, got + 1) /\ UNCHANGED <<client, exitVal>> /\ shell = "serving"
      BY <1>2, <2>1 DEF HostPumps
    <3>2. got + 1 \in Nat /\ got + 1 \notin Code /\ got + 1 # Ok
      BY <1>w, Distinct
    <3>3. (client = "off" => wire # <<>>) /\ exitVal = None
      BY <1>w, <3>1
    <3> QED BY <1>w, <3>1, <3>2, <3>3, FramesAppend
  <2>2. CASE conn # "open"
    BY <1>2, <2>2, <1>s DEF HostPumps, HostBegins
  <2> QED BY <2>1, <2>2
<1>3. CASE HostPumpEnds \/ HostReaderKills \/ HostTimerFires
  BY <1>3, <1>s, <1>w DEF HostPumpEnds, HostReaderKills, HostTimerFires, HostBegins
<1>4. CASE HostExits
  <2>1. CASE conn = "open"
    <3>1. /\ wire' = Append(wire, code) /\ UNCHANGED <<client, exitVal>> /\ shell = "serving"
          /\ pump = "done" /\ tree \in {"left", "gone"} /\ shell' = "gone"
      BY <1>4, <2>1 DEF HostExits, Exec
    <3>2. code \in Code /\ Finished
      BY <1>w, <2>1, <3>1
    <3>3. (client = "off" => wire # <<>>) /\ exitVal = None
      BY <1>w, <3>1
    <3>4. Finished'
      BY <3>1, <3>2, <1>4 DEF Finished, HostExits, Exec
    <3> QED BY <1>w, <3>1, <3>2, <3>3, <3>4, FramesAppend
  <2>2. CASE conn # "open"
    BY <1>4, <2>2, <1>s DEF HostExits, HostBegins, Exec
  <2> QED BY <2>1, <2>2
<1>5. CASE HostBegins
  <2>1. wire' = <<Begin>> /\ client' = "off" /\ Len(<<Begin>>) = 1
    BY <1>5, <1>w DEF HostBegins
  <2> QED BY <2>1, Distinct DEF FramesInv
<1>6. CASE HostSpawnFails
  <2>1. /\ wire' = <<Begin, Lost>> /\ client' = "off" /\ shell' = "gone" /\ exitVal' = None
        /\ Len(<<Begin, Lost>>) = 2
    BY <1>6, <1>w DEF HostSpawnFails
  <2>2. \A i \in 1..2 : i = 1 \/ i = 2
    OBVIOUS
  <2> QED BY <2>1, <2>2, Distinct DEF FramesInv
<1>7. CASE DialBegun \/ ClientReads
  <2>1. /\ wire # <<>> /\ wire' = Tail(wire) /\ UNCHANGED shell /\ client' # "off"
        /\ Head(wire) \notin Code => UNCHANGED exitVal
    BY <1>7 DEF DialBegun, ClientReads
  <2>2. ~HostBegins
    BY <2>1, <1>w DEF HostBegins
  <2> QED BY <1>w, <1>f, <2>1, <2>2, FramesTail
<1>8. CASE Teardown \/ DrainPend
  <2>1. ~HostBegins
    BY <1>8 DEF Teardown, DrainPend, HostBegins
  <2> QED BY <1>8, <2>1, <1>s DEF Teardown, DrainPend
<1>9. CASE Writer \/ TimerFires \/ Create
  <2>1. CASE CoreCreateShell
    BY <2>1, <1>e, <1>w DEF CoreCreateShell
  <2>2. CASE ~CoreCreateShell
    <3>1. UNCHANGED <<wire, exitVal, client, shell>>
      BY <1>9, <2>2 DEF Writer, WriterTakes, WriterWrites, TimerFires, Create, LinuxCreate, Refused
    <3>2. ~HostBegins
      BY <3>1, <1>w DEF HostBegins
    <3> QED BY <3>1, <3>2, <1>s
  <2> QED BY <2>1, <2>2
<1>10. CASE Environment /\ ~HostSpawnFails
  <2>1. CASE DialFails
    BY <2>1, <1>e, <1>w DEF DialFails
  <2>2. CASE ~DialFails
    <3>1. UNCHANGED <<wire, exitVal, client, shell>>
      BY <1>10, <2>2 DEF Environment, SessionClose, LegFails, CoreFails, Escapes, Emits,
         MainExits, OthersExit
    <3>2. ~HostBegins
      BY <3>1, <1>w DEF HostBegins
    <3> QED BY <3>1, <3>2, <1>s
  <2> QED BY <2>1, <2>2
<1> QED BY <1>1, <1>2, <1>3, <1>4, <1>5, <1>6, <1>7, <1>8, <1>9, <1>10
        DEF Next, WindowsHost, Client

LEMMA NextPipe ==
    ASSUME plat = "windows", Exec, Typed, HandlerInv, WindowsInv, [Next]_vars
    PROVE  PipeInv'
<1>w. FramesInv /\ PipeInv
  BY DEF WindowsInv
<1>t. /\ wire \in Seq(Item) /\ pend \in Seq(Item) /\ got \in Nat /\ made \in Nat
      /\ dropped \in Nat /\ total \in 0..Budget /\ Budget \in Nat /\ code \in Code \cup {None}
      /\ exit # None => exits # None
      /\ pump \in {"off", "reading", "holding", "blocked", "done"}
  BY ShellAssumption DEF Typed, HandlerInv
<1>f. ~HostBegins => (Finished => Finished')
  BY FinishedStays
<1> USE <1>w, <1>t, Distinct DEF PipeInv, Exec, fixed, handler, command, output, linux, windows
<1>1. CASE UNCHANGED vars
  BY <1>1 DEF vars, Finished
<1>2. CASE SessionOpen \/ SeeCancel \/ SeeTimer \/ ShellEnds \/ AwaitOutput \/ Kill \/ Finish
  BY <1>2 DEF SessionOpen, SeeCancel, SeeTimer, ShellEnds, AwaitOutput, Kill, Finish, Finished
<1>3. CASE TakeExit \/ AwaitExit
  BY <1>3 DEF TakeExit, AwaitExit, Finished
<1>4. CASE CoreKillShell \/ SetExecBudget \/ ClosePipe
  BY <1>4 DEF CoreKillShell, SetExecBudget, ClosePipe, Finished
<1>5. CASE LinuxHost \/ LinuxCloseDone \/ LinuxCloseStreams
  BY <1>5 DEF LinuxHost, LinuxRead, LinuxReadEnds, LinuxSend, Supervise, LinuxCloseDone,
     LinuxCloseStreams
<1>6. CASE HostPumps
  <2>1. wire' # <<>> \/ wire' = wire
    BY <1>6, AppendProperties, Items DEF HostPumps
  <2>2. conn = "open" => wire' # <<>>
    BY <1>6, AppendProperties, Items DEF HostPumps
  <2> QED BY <1>6, <2>1, <2>2 DEF HostPumps, KillTree, Finished
<1>7. CASE HostPumpEnds \/ HostReaderKills
  BY <1>7 DEF HostPumpEnds, HostReaderKills, KillTree, Eof, Finished
<1>8. CASE HostTimerFires
  BY <1>8 DEF HostTimerFires, KillTree, Finished
<1>9. CASE HostExits
  BY <1>9 DEF HostExits, Finished
<1>10. CASE HostBegins
  BY <1>10 DEF HostBegins, Finished
<1>11. CASE DialBegun
  BY <1>11 DEF DialBegun, Finished
<1>12. CASE ClientReads
  <2>1. /\ client = "reading" /\ conn = "open" /\ wire # <<>> /\ wire' = Tail(wire)
        /\ exits = None /\ exit = None /\ exitVal = None /\ ~chanClosed
        /\ UNCHANGED <<fixed, handler, command, got, pump, chanClosed, exits, shell, conn, client,
                       budgeted>>
    BY <1>12 DEF ClientReads
  <2>2. CASE Head(wire) \in Code
    <3>1. Len(wire) \in Nat /\ Len(wire) > 0 /\ Head(wire) = wire[1] /\ 1 \in 1..Len(wire)
      BY <2>1, EmptySeq, LenProperties
    <3>2. 1 = Len(wire) /\ shell = "gone" /\ (Head(wire) = Ok => Finished)
      BY <2>2, <3>1 DEF FramesInv
    <3>3. wire' = <<>>
      BY <2>1, <3>2, HeadTailProperties, EmptySeq
    <3>4. exitVal' = Head(wire) /\ UNCHANGED <<pend, dropped, total>>
      BY <1>12, <2>2 DEF ClientReads
    <3> QED BY <2>1, <3>2, <3>3, <3>4 DEF Finished
  <2>3. CASE Head(wire) \notin Code
    <3>1. EnqueueData(Head(wire)) /\ UNCHANGED exitVal
      BY <1>12, <2>3 DEF ClientReads
    <3>2. dropped' > 0 => budgeted /\ total' = Budget
      BY <3>1 DEF EnqueueData
    <3> QED BY <2>1, <3>1, <3>2 DEF Finished
  <2> QED BY <2>2, <2>3
<1>13. CASE Teardown
  BY <1>13 DEF Teardown, Finished
<1>14. CASE DrainPend
  BY <1>14 DEF DrainPend, Finished
<1>15. CASE Writer \/ TimerFires
  BY <1>15 DEF Writer, WriterTakes, WriterWrites, TimerFires, Finished
<1>16. CASE Create
  BY <1>16 DEF Create, LinuxCreate, CoreCreateShell, Refused, Finished
<1>17. CASE Emits \/ MainExits \/ OthersExit
  BY <1>17 DEF Emits, MainExits, OthersExit, Finished
<1>18. CASE SessionClose \/ LegFails \/ CoreFails \/ Escapes \/ DialFails \/ HostSpawnFails
  BY <1>18 DEF SessionClose, LegFails, CoreFails, Escapes, DialFails, HostSpawnFails, Finished
<1> QED BY <1>1, <1>2, <1>3, <1>4, <1>5, <1>6, <1>7, <1>8, <1>9, <1>10, <1>11, <1>12, <1>13,
           <1>14, <1>15, <1>16, <1>17, <1>18
        DEF Next, Handler, WindowsHost, Client, Environment

LEMMA NextWindows ==
    ASSUME Typed, HandlerInv, WindowsInv, [Next]_vars
    PROVE  WindowsInv'
BY Fixed, NextFrames, NextPipe DEF WindowsInv, Exec

-----------------------------------------------------------------------------
(* What each step does to the output on its way. *)

LEMMA QueueParts ==
    ASSUME Typed
    PROVE  /\ sent \in Seq(Item \cup {Result}) /\ hand \in Item \cup {Result}
           /\ InHand \in Seq(Item \cup {Result}) /\ sent \o InHand \in Seq(Item \cup {Result})
           /\ chan \in Seq(Item \cup {Result}) /\ pend \in Seq(Item \cup {Result})
           /\ chan \o pend \in Seq(Item \cup {Result}) /\ Queue \in Seq(Item \cup {Result})
<1>1. sent \in Seq(Item \cup {Result}) /\ hand \in Item \cup {Result}
  BY DEF Typed
<1>2. chan \in Seq(Item \cup {Result}) /\ pend \in Seq(Item \cup {Result})
  BY SeqMonotonic DEF Typed
<1>3. InHand \in Seq(Item \cup {Result})
  <2>1. <<hand>> \in Seq(Item \cup {Result}) /\ <<>> \in Seq(Item \cup {Result})
    BY <1>1, EmptySeq
  <2>2. InHand = <<hand>> \/ InHand = <<>>
    BY DEF InHand
  <2> QED BY <2>1, <2>2
<1>4. sent \o InHand \in Seq(Item \cup {Result}) /\ chan \o pend \in Seq(Item \cup {Result})
  BY <1>1, <1>2, <1>3, ConcatProperties
<1> QED BY <1>1, <1>2, <1>3, <1>4, ConcatProperties DEF Queue

\* The goroutine that writes moves output on, and loses some only with the leg.
LEMMA WriterKeepsQueue ==
    ASSUME Typed, WriterTakes \/ (WriterWrites /\ ws' = "ok")
    PROVE  Queue' = Queue
<1>q. /\ sent \in Seq(Item \cup {Result}) /\ hand \in Item \cup {Result}
      /\ chan \in Seq(Item \cup {Result}) /\ pend \in Seq(Item \cup {Result})
  BY QueueParts
<1>1. CASE WriterTakes /\ chan # <<>>
  <2>1. /\ writer = "idle" /\ writer' = "writing" /\ hand' = Head(chan) /\ chan' = Tail(chan)
        /\ UNCHANGED <<sent, pend>>
    BY <1>1 DEF WriterTakes, windows
  <2>2. InHand = <<>> /\ InHand' = <<Head(chan)>>
    BY <2>1 DEF InHand
  <2>3. (sent \o <<Head(chan)>>) \o (Tail(chan) \o pend) = (sent \o <<>>) \o (chan \o pend)
    <3> DEFINE S == Item \cup {Result}
    <3>1. sent \in Seq(S) /\ chan \in Seq(S) /\ pend \in Seq(S) /\ chan # <<>>
      BY <1>1, <1>q
    <3> HIDE DEF S
    <3> QED BY <3>1, Takes
  <2>4. Queue' = (sent \o <<Head(chan)>>) \o (Tail(chan) \o pend)
    BY <2>1, <2>2 DEF Queue
  <2> QED BY <2>2, <2>3, <2>4 DEF Queue
<1>2. CASE WriterTakes /\ chan = <<>>
  <2>1. writer = "idle" /\ writer' = "done" /\ UNCHANGED <<hand, chan, sent, pend>>
    BY <1>2 DEF WriterTakes, windows
  <2> QED BY <2>1 DEF Queue, InHand
<1>3. CASE WriterWrites /\ ws' = "ok"
  <2>1. /\ writer = "writing" /\ writer' = "idle" /\ sent' = Append(sent, hand)
        /\ UNCHANGED <<chan, pend>>
    BY <1>3 DEF WriterWrites, windows, output
  <2>2. InHand = <<hand>> /\ InHand' = <<>>
    BY <2>1 DEF InHand
  <2>3. Append(sent, hand) \o <<>> = sent \o <<hand>>
    <3> DEFINE S == Item \cup {Result}
    <3>1. sent \in Seq(S) /\ hand \in S
      BY <1>q
    <3> HIDE DEF S
    <3> QED BY <3>1, Writes
  <2>4. Queue' = (Append(sent, hand) \o <<>>) \o (chan \o pend)
    BY <2>1, <2>2 DEF Queue
  <2> QED BY <2>2, <2>3, <2>4 DEF Queue
<1> QED BY <1>1, <1>2, <1>3

\* Nothing is lost where nothing is moved.
LEMMA QueueStays ==
    ASSUME UNCHANGED <<sent, hand, chan, pend>>, writer' = "writing" <=> writer = "writing"
    PROVE  Queue' = Queue
BY DEF Queue, InHand

\* The pump on Linux sends into the channel.
LEMMA SendExtendsQueue ==
    ASSUME Typed, NEW x \in Item, pend = <<>>, chan' = Append(chan, x),
           UNCHANGED <<sent, hand, writer, pend>>
    PROVE  Queue' = Append(Queue, x)
<1>q. /\ sent \o InHand \in Seq(Item \cup {Result}) /\ chan \in Seq(Item \cup {Result})
      /\ <<>> \in Seq(Item \cup {Result}) /\ x \in Item \cup {Result}
  BY QueueParts, EmptySeq
<1>1. Append(chan, x) \in Seq(Item \cup {Result})
  BY <1>q
<1>2. /\ chan \o <<>> = chan /\ Append(chan, x) \o <<>> = Append(chan, x)
      /\ <<>> \o chan = chan /\ <<>> \o Append(chan, x) = Append(chan, x)
  BY <1>q, <1>1, ConcatEmptySeq
<1>3. (sent \o InHand) \o (<<>> \o Append(chan, x)) = Append((sent \o InHand) \o (<<>> \o chan), x)
  BY <1>q, Appends, SMTT(30)
<1>4. Queue' = (sent \o InHand) \o (Append(chan, x) \o <<>>)
  BY DEF Queue, InHand
<1> QED BY <1>2, <1>3, <1>4 DEF Queue

\* The pipe client puts output behind what it has.
LEMMA EnqueueExtendsQueue ==
    ASSUME Typed, NEW d \in Item, Deliver(Append(pend, d)), UNCHANGED <<sent, hand, writer>>
    PROVE  Queue' = Append(Queue, d)
<1>q. /\ sent \o InHand \in Seq(Item \cup {Result}) /\ chan \in Seq(Item \cup {Result})
      /\ pend \in Seq(Item \cup {Result}) /\ d \in Item \cup {Result}
  BY QueueParts
<1>1. chan \in Seq(Item) /\ Append(pend, d) \in Seq(Item) /\ Len(chan) <= Depth
  BY DEF Typed
<1>2. chan' \o pend' = chan \o Append(pend, d)
  BY <1>1, DeliverTyped
<1>3. Queue' = (sent \o InHand) \o (chan' \o pend')
  BY DEF Queue, InHand
<1>4. (sent \o InHand) \o (chan \o Append(pend, d)) = Append((sent \o InHand) \o (chan \o pend), d)
  <2> DEFINE a == sent \o InHand
             S == Item \cup {Result}
  <2>1. a \in Seq(S) /\ chan \in Seq(S) /\ pend \in Seq(S) /\ d \in S
    BY <1>q
  <2> HIDE DEF a, S
  <2>2. a \o (chan \o Append(pend, d)) = Append(a \o (chan \o pend), d)
    BY <2>1, Appends, SMTT(30)
  <2> QED BY <2>2 DEF a
<1> QED BY <1>2, <1>3, <1>4 DEF Queue

LEMMA DrainKeepsQueue ==
    ASSUME Typed, Deliver(pend), UNCHANGED <<sent, hand, writer>>
    PROVE  Queue' = Queue
<1>1. chan \in Seq(Item) /\ pend \in Seq(Item) /\ Len(chan) <= Depth
  BY DEF Typed
<1>2. chan' \o pend' = chan \o pend
  BY <1>1, DeliverTyped
<1>3. Queue' = (sent \o InHand) \o (chan' \o pend')
  BY DEF Queue, InHand
<1> QED BY <1>2, <1>3 DEF Queue

LEMMA MarkerExtendsQueue ==
    ASSUME Typed, pend' = Append(pend, Marker), UNCHANGED <<sent, hand, writer, chan>>
    PROVE  Queue' = Append(Queue, Marker)
<1>q. /\ sent \o InHand \in Seq(Item \cup {Result}) /\ chan \in Seq(Item \cup {Result})
      /\ pend \in Seq(Item \cup {Result}) /\ Marker \in Item \cup {Result}
  BY QueueParts, Items
<1>1. Queue' = (sent \o InHand) \o (chan \o Append(pend, Marker))
  BY DEF Queue, InHand
<1> DEFINE a == sent \o InHand
           S == Item \cup {Result}
<1>2. a \in Seq(S) /\ chan \in Seq(S) /\ pend \in Seq(S) /\ Marker \in S
  BY <1>q
<1> HIDE DEF a, S
<1>3. a \o (chan \o Append(pend, Marker)) = Append(a \o (chan \o pend), Marker)
  BY <1>2, Appends, SMTT(30)
<1> QED BY <1>1, <1>3 DEF Queue, a

\* A leg that is usable was, and so was the budget in time.
LEMMA UsableWas ==
    ASSUME [Next]_vars, ws' = "ok", ~early'
    PROVE  ws = "ok" /\ ~early
<1> USE DEF fixed, handler, command, output, linux, windows
<1>1. CASE UNCHANGED vars
  BY <1>1 DEF vars
<1>2. CASE Handler
  BY <1>2 DEF Handler, SessionOpen, TakeExit, SeeCancel, SeeTimer, ShellEnds, Kill, AwaitExit,
     AwaitOutput, Finish, CoreKillShell, SetExecBudget, ClosePipe, LinuxCloseDone,
     LinuxCloseStreams
<1>3. CASE LinuxHost \/ WindowsHost \/ HostBegins
  BY <1>3 DEF LinuxHost, LinuxRead, LinuxReadEnds, LinuxSend, Supervise, WindowsHost, HostPumps,
     HostPumpEnds, HostReaderKills, HostExits, HostBegins
<1>4. CASE ClientReads
  BY <1>4 DEF ClientReads, EnqueueData
<1>5. CASE DialBegun \/ Teardown \/ DrainPend \/ Writer \/ Create \/ TimerFires \/ HostTimerFires
  BY <1>5 DEF DialBegun, Teardown, DrainPend, Writer, WriterTakes, WriterWrites, Create,
     LinuxCreate, CoreCreateShell, Refused, TimerFires, HostTimerFires
<1>6. CASE Environment
  BY <1>6 DEF Environment, SessionClose, LegFails, CoreFails, Escapes, Emits, MainExits,
     OthersExit, DialFails, HostSpawnFails
<1> QED BY <1>1, <1>2, <1>3, <1>4, <1>5, <1>6 DEF Next, Client

-----------------------------------------------------------------------------
(* The stream on Linux. *)

LEMMA MarkIs == Mark(TRUE) = <<Marker>> /\ Mark(FALSE) = <<>>
BY DEF Mark

LEMMA NumberedMark ==
    ASSUME NEW n \in Nat
    PROVE  /\ Numbered(n) \o <<>> = Numbered(n)
           /\ Append(Numbered(n), Marker) = Numbered(n) \o <<Marker>>
<1>1. Numbered(n) \in Seq(Nat \cup {Marker}) /\ Marker \in Nat \cup {Marker}
  BY NumberedGrows, SeqMonotonic
<1> QED BY <1>1, ConcatEmptySeq, AppendIsConcat

LEMMA NextLinuxStream ==
    ASSUME plat = "linux", Exec, PanicInv, Typed, HandlerInv, LinuxInv, LinuxStream,
           ws = "ok", ws' = "ok", [Next]_vars
    PROVE  LinuxStream'
<1>a. Budget \in Nat /\ Budget > 0 /\ Marker \notin Nat
  BY ShellAssumption
<1>c. /\ made \in Nat /\ got \in Nat /\ got <= made /\ dropped \in Nat
      /\ pump \in {"off", "reading", "holding", "blocked", "done"}
      /\ shell = "none" /\ client = "off" /\ wire = <<>>
      /\ (exits # None => pump = "done") /\ (chanClosed => pump = "done")
      /\ pc \in {"new", "create"} => pump = "off"
      /\ pc \in {"killExit", "drain", "close", "closing"} => exits # None
      /\ dropped = IF got > Budget THEN got - Budget ELSE 0
      /\ pump \in {"holding", "blocked"} => got > 0
      /\ doneCh => pump = "done"
      /\ pend = <<>>
      /\ pc \in {"new", "create", "piping", "budget"} => writer = "off"
  BY DEF Typed, PanicInv, NoCoreOnLinux, PumpEndsFirst, ClosedAfterExit, LinuxInv, HandlerInv
<1>s. ASSUME UNCHANGED <<pump, got, dropped>>, Queue' = Queue PROVE LinuxStream'
  BY <1>s DEF LinuxStream
<1>q. ASSUME UNCHANGED <<pump, got, dropped, sent, hand, chan, pend, writer>> PROVE LinuxStream'
  <2>1. Queue' = Queue
    BY <1>q, QueueStays
  <2> QED BY <1>q, <2>1, <1>s
<1> USE DEF fixed, handler, command, output, linux, windows
<1>1. CASE UNCHANGED vars
  BY <1>1, <1>q DEF vars
<1>2. CASE SessionOpen \/ SeeCancel \/ SeeTimer \/ ShellEnds \/ AwaitOutput \/ TakeExit \/ AwaitExit
           \/ Kill \/ CoreKillShell \/ ClosePipe \/ LinuxCloseStreams
  BY <1>2, <1>q DEF SessionOpen, SeeCancel, SeeTimer, ShellEnds, AwaitOutput, TakeExit, AwaitExit,
     Kill, CoreKillShell, ClosePipe, LinuxCloseStreams
<1>3. CASE SetExecBudget \/ Create
  <2>1. CASE LinuxCreate
    <3>1. /\ pump = "off" /\ pump' = "reading" /\ UNCHANGED <<sent, hand, chan, pend, got, dropped>>
          /\ writer = "off" /\ writer' = "idle"
      BY <1>c, <2>1 DEF LinuxCreate
    <3>2. Queue' = Queue
      BY <3>1, QueueStays
    <3> QED BY <3>1, <3>2 DEF LinuxStream
  <2>2. CASE SetExecBudget
    <3>1. /\ UNCHANGED <<sent, hand, chan, pend, pump, got, dropped>>
          /\ writer = "off" /\ writer' = "idle"
      BY <1>c, <2>2 DEF SetExecBudget
    <3>2. Queue' = Queue
      BY <3>1, QueueStays
    <3> QED BY <3>1, <3>2, <1>s
  <2>3. CASE CoreCreateShell \/ Refused
    BY <2>3, <1>q DEF CoreCreateShell, Refused
  <2> QED BY <1>3, <2>1, <2>2, <2>3 DEF Create
<1>4. CASE Finish
  BY <1>4 DEF Finish
<1>5. CASE LinuxCloseDone
  BY <1>5, <1>c, <1>q DEF LinuxCloseDone
<1>6. CASE LinuxRead
  <2>1. Queue' = Queue
    BY <1>6, QueueStays DEF LinuxRead
  <2>2. /\ got' = got + 1 /\ pump = "reading"
        /\ \/ got >= Budget /\ dropped' = dropped + 1 /\ pump' = "reading"
           \/ got < Budget /\ dropped' = dropped /\ pump' = "holding"
    BY <1>6, <1>a, <1>c DEF LinuxRead
  <2>3. Queue = Numbered(got - dropped)
    BY <2>2 DEF LinuxStream
  <2>4. CASE got >= Budget
    <3>1. got' - dropped' = got - dropped /\ pump' = "reading"
      BY <2>2, <2>4, <1>a, <1>c
    <3> QED BY <2>1, <2>3, <3>1 DEF LinuxStream
  <2>5. CASE got < Budget
    <3>1. /\ got - dropped = IF got' > Budget THEN Budget ELSE got' - 1
          /\ pump' = "holding"
      BY <2>2, <2>5, <1>a, <1>c
    <3> QED BY <2>1, <2>3, <3>1 DEF LinuxStream
  <2> QED BY <2>4, <2>5, <1>a, <1>c
<1>7. CASE LinuxReadEnds
  <2>1. Queue' = Queue
    BY <1>7, QueueStays DEF LinuxReadEnds
  <2>2. /\ pump = "reading" /\ UNCHANGED <<got, dropped>>
        /\ pump' = IF dropped > 0 THEN "holding" ELSE "done"
    BY <1>7 DEF LinuxReadEnds
  <2>3. Queue = Numbered(got - dropped) /\ got - dropped \in Nat
    BY <2>2, <1>a, <1>c DEF LinuxStream
  <2>4. CASE dropped > 0
    <3>1. got - dropped = IF got > Budget THEN Budget ELSE got - 1
      BY <2>4, <1>a, <1>c
    <3> QED BY <2>1, <2>2, <2>3, <2>4, <3>1 DEF LinuxStream
  <2>5. CASE dropped = 0
    <3>1. Mark(dropped > 0) = <<>>
      BY <2>5 DEF Mark
    <3>2. Numbered(got - dropped) \o <<>> = Numbered(got - dropped)
      BY <2>3, NumberedMark
    <3>3. Queue' = Numbered(got - dropped) \o <<>>
      BY <2>1, <2>3, <3>2
    <3>4. (Numbered(got - dropped) \o Mark(dropped > 0))' = Numbered(got - dropped) \o <<>>
      BY <2>2, <3>1
    <3>5. pump' = "done"
      BY <2>2, <2>5
    <3> QED BY <3>3, <3>4, <3>5 DEF LinuxStream
  <2> QED BY <2>4, <2>5, <1>c
<1>8. CASE LinuxSend
  <2>1. ~chanClosed /\ ~doneCh /\ pump \in {"holding", "blocked"}
    BY <1>8, <1>c DEF LinuxSend
  <2>2. /\ UNCHANGED <<got, dropped, sent, hand, writer, pend>>
        /\ \/ pump' = "blocked" /\ chan' = chan
           \/ chan' = Append(chan, Held) /\ pump' = AfterSend
    BY <1>8, <2>1 DEF LinuxSend
  <2>3. Queue = Numbered(IF got > Budget THEN Budget ELSE got - 1)
    BY <2>1 DEF LinuxStream
  <2>4. CASE pump' = "blocked" /\ chan' = chan
    <3>1. Queue' = Queue
      BY <2>2, <2>4, QueueStays
    <3> QED BY <2>2, <2>3, <2>4, <3>1 DEF LinuxStream
  <2>5. CASE chan' = Append(chan, Held) /\ pump' = AfterSend /\ got > Budget
    <3>1. Held = Marker /\ pump' = "done"
      BY <2>5 DEF Held, AfterSend
    <3>2. Queue' = Append(Queue, Marker)
      BY <1>c, <2>2, <2>5, <3>1, SendExtendsQueue, Items
    <3>3. Queue = Numbered(Budget) /\ got - dropped = Budget /\ dropped > 0
      BY <2>3, <2>5, <1>a, <1>c
    <3>4. Queue' = Numbered(Budget) \o <<Marker>>
      BY <3>2, <3>3, <1>a, NumberedMark
    <3>5. (Numbered(got - dropped) \o Mark(dropped > 0))' = Numbered(Budget) \o <<Marker>>
      BY <2>2, <3>3 DEF Mark
    <3> QED BY <3>1, <3>4, <3>5 DEF LinuxStream
  <2>6. CASE chan' = Append(chan, Held) /\ pump' = AfterSend /\ ~(got > Budget)
    <3>1. Held = got /\ Held \in Item /\ pump' = "reading"
      BY <2>6, <1>a, <1>c, Items DEF Held, AfterSend
    <3>2. Queue' = Append(Queue, got)
      BY <1>c, <2>2, <2>6, <3>1, SendExtendsQueue
    <3>3. Queue = Numbered(got - 1) /\ got - 1 \in Nat /\ (got - 1) + 1 = got /\ dropped = 0
      BY <2>1, <2>3, <2>6, <1>a, <1>c
    <3>4. Numbered((got - 1) + 1) = Append(Numbered(got - 1), (got - 1) + 1)
      BY <3>3, NumberedGrows
    <3>5. Queue' = Numbered(got) /\ got' - dropped' = got
      BY <2>2, <3>2, <3>3, <3>4, <1>c
    <3> QED BY <3>1, <3>5 DEF LinuxStream
  <2> QED BY <2>2, <2>4, <2>5, <2>6
<1>9. CASE Supervise
  BY <1>9, <1>q DEF Supervise
<1>10. CASE WindowsHost \/ HostBegins \/ Client
  BY <1>10, <1>c, EmptySeq DEF WindowsHost, HostPumps, HostPumpEnds, HostReaderKills, HostExits,
     HostBegins, Client, DialBegun, ClientReads, Teardown, DrainPend
<1>11. CASE Writer
  <2>1. Queue' = Queue
    BY <1>11, WriterKeepsQueue DEF Writer
  <2> QED BY <1>11, <1>s, <2>1 DEF Writer, WriterTakes, WriterWrites
<1>12. CASE TimerFires \/ HostTimerFires
  BY <1>12, <1>q DEF TimerFires, HostTimerFires
<1>13. CASE Environment
  BY <1>13, <1>q DEF Environment, SessionClose, LegFails, CoreFails, Escapes, Emits, MainExits,
     OthersExit, DialFails, HostSpawnFails
<1> QED BY <1>1, <1>2, <1>3, <1>4, <1>5, <1>6, <1>7, <1>8, <1>9, <1>10, <1>11, <1>12, <1>13
        DEF Next, Handler, LinuxHost

-----------------------------------------------------------------------------
(* The stream on Windows. *)

\* A chunk or the code is appended to the frames.
LEMMA ContinuesAppend ==
    ASSUME Typed, FramesInv, NEW n \in Nat, Continues(n), NEW x \in Nat \cup Code,
           shell = "serving", conn = "open", exitVal = None,
           wire' = Append(wire, x), UNCHANGED <<dropped, client, exitVal, conn>>,
           \/ x = got + 1 /\ got' = got + 1
           \/ x \in Code /\ got' = got /\ shell' = "gone"
    PROVE  Continues(n)'
<1>t. /\ wire \in Seq(Item) /\ got \in Nat /\ dropped \in Nat /\ Len(wire) \in Nat /\ x \in Item
      /\ Offset \in {0, 1} /\ Offset' = Offset
  BY Items, LenProperties DEF Typed, Offset
<1>1. /\ Len(wire') = Len(wire) + 1 /\ wire'[Len(wire) + 1] = x
      /\ \A i \in 1..Len(wire) : wire'[i] = wire[i]
  BY <1>t, AppendProperties
<1>2. n + dropped + Len(wire) - Offset = got
  BY DEF Continues
<1>3. \A i \in 1..Len(wire) : wire[i] \notin Code
  BY DEF FramesInv
<1>4. \A i \in 1..Len(wire') : i = Len(wire) + 1 \/ i \in 1..Len(wire)
  BY <1>t, <1>1
<1>5. ASSUME NEW i \in 1..Len(wire'), wire'[i] \in Nat PROVE wire'[i] = n + dropped' + i - Offset'
  <2>1. CASE i = Len(wire) + 1
    <3>1. x = got + 1
      BY <1>1, <1>5, <2>1, Distinct
    <3> QED BY <1>t, <1>1, <1>2, <2>1, <3>1
  <2>2. CASE i \in 1..Len(wire)
    <3>1. wire[i] \in Nat => wire[i] = n + dropped + i - Offset
      BY <2>2 DEF Continues
    <3> QED BY <1>t, <1>1, <1>5, <2>2, <3>1
  <2> QED BY <1>4, <2>1, <2>2
<1>6. shell' = "serving" => n + dropped' + Len(wire') - Offset' = got'
  BY <1>t, <1>1, <1>2, Distinct
<1>7. ASSUME NEW i \in 1..Len(wire'), wire'[i] = Ok
      PROVE  n + dropped' + Len(wire') - 1 - Offset' = got'
  <2>1. i = Len(wire) + 1
    BY <1>1, <1>3, <1>4, <1>7, Distinct
  <2>2. x = Ok /\ x # got + 1
    BY <1>1, <1>7, <1>t, <2>1, Distinct
  <2>3. got' = got /\ dropped' = dropped /\ Offset' = Offset /\ Len(wire') = Len(wire) + 1
    BY <1>t, <1>1, <2>2
  <2> DEFINE l == Len(wire)
             k == Len(wire')
  <2>4. k = l + 1 /\ l \in Nat /\ n + dropped + l - Offset = got
    BY <1>t, <1>2, <2>3
  <2> HIDE DEF l, k
  <2>5. n + dropped + k - 1 - Offset = got
    BY <1>t, <2>4
  <2> QED BY <2>3, <2>5 DEF k
<1>8. exitVal' # Ok
  BY Distinct
<1> QED BY <1>5, <1>6, <1>7, <1>8 DEF Continues

\* The first frame is taken: SHELL_BEGIN, or one that the count accounts for.
LEMMA ContinuesTail ==
    ASSUME Typed, NEW n \in Nat, NEW m \in Nat, Continues(n), wire # <<>>,
           wire' = Tail(wire), client' # "off", UNCHANGED <<shell, conn, exitVal, got>>,
           exitVal = None, dropped' \in Nat,
           m + dropped' = n + dropped + (IF client = "off" THEN 0 ELSE 1)
    PROVE  Continues(m)'
<1> DEFINE l == Len(wire)
           k == Len(wire')
           e == dropped'
           o == Offset
<1>t. /\ wire \in Seq(Item) /\ got \in Nat /\ dropped \in Nat /\ l \in Nat /\ l # 0
      /\ k = l - 1 /\ \A i \in 1..k : wire'[i] = wire[i + 1]
  BY LenProperties, HeadTailProperties, EmptySeq DEF Typed
<1>1. Offset' = 0
  BY DEF Offset
<1>2. o \in Nat /\ e \in Nat /\ m + e = n + dropped + 1 - o
  <2>1. CASE client = "off"
    <3>1. o = 1 /\ m + e = n + dropped + 0
      BY <2>1 DEF Offset
    <3> HIDE DEF e, o
    <3>2. m + e = n + dropped + 1 - o
      BY <1>t, <3>1
    <3> QED BY <3>1, <3>2 DEF e
  <2>2. CASE client # "off"
    <3>1. o = 0 /\ m + e = n + dropped + 1
      BY <2>2 DEF Offset
    <3> HIDE DEF e, o
    <3>2. m + e = n + dropped + 1 - o
      BY <1>t, <3>1
    <3> QED BY <3>1, <3>2 DEF e
  <2> QED BY <2>1, <2>2
<1>3. /\ \A i \in 1..l : wire[i] \in Nat => wire[i] = n + dropped + i - o
      /\ shell = "serving" /\ conn = "open" => n + dropped + l - o = got
      /\ \A i \in 1..l : wire[i] = Ok => n + dropped + l - 1 - o = got
  BY DEF Continues
<1> HIDE DEF l, k, e, o
<1>4. \A i \in 1..k : i + 1 \in 1..l /\ i \in Nat
  BY <1>t
<1>5. ASSUME NEW i \in 1..k, wire'[i] \in Nat PROVE wire'[i] = m + e + i - 0
  <2>1. i + 1 \in 1..l /\ wire'[i] = wire[i + 1] /\ i \in Nat
    BY <1>t, <1>4
  <2>2. wire[i + 1] = n + dropped + (i + 1) - o
    BY <1>3, <1>5, <2>1
  <2>3. n + dropped + (i + 1) - o = m + e + i - 0
    BY <1>t, <1>2, <2>1
  <2> QED BY <2>1, <2>2, <2>3
<1>6. shell' = "serving" /\ conn' = "open" => m + e + k - 0 = got'
  <2>1. n + dropped + l - o = m + e + k - 0
    BY <1>t, <1>2
  <2> QED BY <1>3, <2>1
<1>7. ASSUME NEW i \in 1..k, wire'[i] = Ok
      PROVE  m + e + k - 1 - 0 = got'
  <2>1. i + 1 \in 1..l /\ wire[i + 1] = Ok
    BY <1>t, <1>4, <1>7
  <2>2. n + dropped + l - 1 - o = got
    BY <1>3, <2>1
  <2>3. n + dropped + l - 1 - o = m + e + k - 1 - 0
    BY <1>t, <1>2
  <2> QED BY <2>2, <2>3
<1>8. exitVal' # Ok
  BY Distinct
<1> QED BY <1>1, <1>5, <1>6, <1>7, <1>8 DEF Continues, k, e

LEMMA NextWindowsStream ==
    ASSUME plat = "windows", Exec, Typed, HandlerInv, WindowsInv, NEW n \in Nat, WindowsStream(n),
           ws = "ok", ws' = "ok", ~early', [Next]_vars
    PROVE  \E m \in Nat : WindowsStream(m)'
<1>w. /\ FramesInv /\ PipeInv
  BY DEF WindowsInv
<1>t. /\ wire \in Seq(Item) /\ got \in Nat /\ dropped \in Nat /\ total \in Nat
      /\ Budget \in Nat /\ Depth \in Nat \ {0} /\ n + 1 \in Nat
      /\ pc \in {"new", "create", "piping", "budget"} => writer = "off"
      /\ writer = "done" => chan = <<>>
  BY ShellAssumption DEF Typed, HandlerInv
<1>p. /\ pc \in {"new", "create"} => conn = "off"
      /\ pc \in {"new", "create", "piping"} => client = "off"
      /\ conn = "off" => wire = <<>> /\ exitVal = None /\ got = 0 /\ shell # "serving"
      /\ shell = "serving" => exitVal = None
      /\ wire # <<>> => exitVal = None
      /\ client = "off" => dropped = 0
      /\ dropped > 0 => budgeted /\ total = Budget
      /\ shell = "serving" /\ conn = "open" /\ pump = "done" => Finished
      /\ tree \in {"left", "gone"} => code \in Code
  BY <1>w DEF PipeInv
<1>x. /\ Queue = Numbered(n) \o Mark(dropped > 0 /\ client \in {"draining", "done"})
      /\ client = "off" => n = 0
      /\ Continues(n)
  BY DEF WindowsStream
<1>i. ASSUME NEW m \in Nat,
             Queue' = Numbered(m) \o Mark(dropped' > 0 /\ client' \in {"draining", "done"}),
             client' = "off" => m = 0, Continues(m)'
      PROVE  \E k \in Nat : WindowsStream(k)'
  BY <1>i DEF WindowsStream
<1>s. ASSUME UNCHANGED <<wire, dropped, client, exitVal, got>>, Queue' = Queue,
             shell' = "serving" /\ conn' = "open" => shell = "serving" /\ conn = "open"
      PROVE  \E m \in Nat : WindowsStream(m)'
  <2>1. Continues(n)'
    BY <1>s, <1>x DEF Continues, Offset
  <2> QED BY <1>s, <1>x, <1>i, <2>1
<1>q. ASSUME UNCHANGED <<wire, dropped, client, exitVal, got, sent, hand, chan, pend>>,
             writer' = writer \/ (writer = "off" /\ writer' = "idle"),
             shell' = "serving" /\ conn' = "open" => shell = "serving" /\ conn = "open"
      PROVE  \E m \in Nat : WindowsStream(m)'
  <2>1. Queue' = Queue
    BY <1>q, QueueStays
  <2> QED BY <1>q, <1>s, <2>1
<1> USE DEF fixed, handler, command, output, linux, windows
<1>1. CASE UNCHANGED vars
  BY <1>1, <1>q DEF vars
<1>2. CASE SessionOpen \/ SeeCancel \/ SeeTimer \/ ShellEnds \/ AwaitOutput \/ TakeExit \/ AwaitExit
           \/ Kill \/ CoreKillShell \/ ClosePipe \/ LinuxCloseStreams \/ LinuxCloseDone
  BY <1>2, <1>q DEF SessionOpen, SeeCancel, SeeTimer, ShellEnds, AwaitOutput, TakeExit, AwaitExit,
     Kill, CoreKillShell, ClosePipe, LinuxCloseStreams, LinuxCloseDone
<1>3. CASE SetExecBudget
  BY <1>3, <1>q, <1>t DEF SetExecBudget
<1>4. CASE Create
  BY <1>4, <1>q DEF Create, LinuxCreate, CoreCreateShell, Refused
<1>5. CASE Finish \/ LinuxHost
  BY <1>5 DEF Finish, LinuxHost, LinuxRead, LinuxReadEnds, LinuxSend, Supervise
<1>6. CASE HostPumps
  <2>1. Queue' = Queue /\ UNCHANGED <<dropped, client, exitVal, conn, shell>> /\ shell = "serving"
        /\ got' = got + 1
    BY <1>6, QueueStays DEF HostPumps
  <2>2. Continues(n)'
    <3>1. CASE conn = "open"
      <4>1. wire' = Append(wire, got + 1) /\ got + 1 \in Nat \cup Code
        BY <1>6, <1>t, <3>1 DEF HostPumps
      <4> QED BY <1>w, <1>x, <1>p, <2>1, <3>1, <4>1, ContinuesAppend
    <3>2. CASE conn # "open"
      <4>1. UNCHANGED wire /\ \A i \in 1..Len(wire) : wire[i] # Ok
        BY <1>6, <1>w, <2>1, <3>2, Distinct DEF HostPumps, FramesInv
      <4> QED BY <1>x, <1>p, <2>1, <3>2, <4>1, Distinct DEF Continues, Offset
    <3> QED BY <3>1, <3>2
  <2> QED BY <1>i, <1>x, <2>1, <2>2
<1>7. CASE HostPumpEnds \/ HostReaderKills \/ HostTimerFires
  BY <1>7, <1>q DEF HostPumpEnds, HostReaderKills, HostTimerFires
<1>8. CASE HostExits
  <2>1. CASE conn = "open"
    <3>1. /\ wire' = Append(wire, code) /\ UNCHANGED <<client, exitVal, dropped, conn, got>>
          /\ shell = "serving" /\ tree \in {"left", "gone"} /\ shell' = "gone"
          /\ UNCHANGED <<sent, hand, chan, pend, writer>>
      BY <1>8, <2>1 DEF HostExits, Exec
    <3>2. code \in Code /\ code \in Nat \cup Code /\ exitVal = None
      BY <1>p, <3>1
    <3>3. Continues(n)'
      BY <1>w, <1>x, <2>1, <3>1, <3>2, ContinuesAppend
    <3>4. Queue' = Queue
      BY <3>1, QueueStays
    <3> QED BY <1>i, <1>x, <3>1, <3>3, <3>4
  <2>2. CASE conn # "open"
    BY <1>8, <2>2, <1>q DEF HostExits, Exec
  <2> QED BY <2>1, <2>2
<1>9. CASE HostBegins \/ HostSpawnFails
  <2>1. /\ client = "off" /\ n = 0 /\ dropped = 0 /\ got = 0 /\ exitVal = None
        /\ UNCHANGED <<sent, hand, chan, pend, writer, client, dropped, got, exitVal>>
        /\ wire' = <<Begin>> \/ (wire' = <<Begin, Lost>> /\ shell' = "gone")
    BY <1>9, <1>x, <1>p DEF HostBegins, HostSpawnFails
  <2>2. Queue' = Queue
    BY <2>1, QueueStays
  <2>3. Begin \notin Nat /\ Lost \notin Nat /\ Begin # Ok /\ Lost # Ok
    BY Distinct
  <2>4. Continues(n)'
    <3>1. CASE wire' = <<Begin>>
      <4>1. Len(wire') = 1 /\ wire'[1] = Begin /\ \A i \in 1..1 : i = 1
        BY <3>1
      <4> QED BY <2>1, <2>3, <4>1, Distinct DEF Continues, Offset
    <3>2. CASE wire' = <<Begin, Lost>> /\ shell' = "gone"
      <4>1. /\ Len(wire') = 2 /\ wire'[1] = Begin /\ wire'[2] = Lost
            /\ \A i \in 1..2 : i = 1 \/ i = 2
        BY <3>2
      <4> QED BY <2>1, <2>3, <3>2, <4>1, Distinct DEF Continues, Offset
    <3> QED BY <2>1, <3>1, <3>2
  <2> QED BY <1>i, <1>x, <2>1, <2>2, <2>4
<1>10. CASE DialBegun
  <2>1. /\ client = "off" /\ client' = "reading" /\ wire # <<>> /\ wire' = Tail(wire)
        /\ UNCHANGED <<shell, conn, exitVal, got, dropped, sent, hand, chan, pend, writer>>
    BY <1>10, <1>p DEF DialBegun, Exec
  <2>2. Queue' = Queue
    BY <2>1, QueueStays
  <2>3. Continues(n)'
    BY <1>t, <1>x, <1>p, <2>1, ContinuesTail
  <2> QED BY <1>i, <1>x, <2>1, <2>2, <2>3
<1>11. CASE ClientReads
  <2>1. /\ client = "reading" /\ client' = "reading" /\ wire # <<>> /\ wire' = Tail(wire)
        /\ UNCHANGED <<shell, conn, got, sent, hand, writer>> /\ exitVal = None
    BY <1>11, <1>p DEF ClientReads
  <2>2. Len(wire) \in Nat /\ Len(wire) > 0 /\ Head(wire) = wire[1] /\ 1 \in 1..Len(wire)
    BY <1>t, <2>1, EmptySeq, LenProperties
  <2>3. CASE Head(wire) \in Code
    <3>1. UNCHANGED <<chan, pend, dropped>> /\ exitVal' = Head(wire)
      BY <1>11, <2>3 DEF ClientReads
    <3>2. 1 = Len(wire) /\ shell = "gone"
      BY <1>w, <2>2, <2>3 DEF FramesInv
    <3>3. wire' = <<>> /\ Len(wire') = 0
      BY <1>t, <2>1, <3>2, HeadTailProperties, EmptySeq
    <3>4. exitVal' = Ok => n + dropped = got
      BY <1>x, <1>t, <2>1, <2>2, <3>1, <3>2 DEF Continues, Offset
    <3>5. Continues(n)'
      <4>1. \A i \in 1..Len(wire') : FALSE
        BY <3>3
      <4>2. shell' # "serving" /\ (exitVal' = Ok => n + dropped' = got')
        BY <2>1, <3>1, <3>2, <3>4
      <4> QED BY <4>1, <4>2 DEF Continues
    <3>6. Queue' = Queue
      BY <2>1, <3>1, QueueStays
    <3> QED BY <1>i, <1>x, <2>1, <3>1, <3>5, <3>6
  <2>4. CASE Head(wire) \notin Code
    <3>1. EnqueueData(Head(wire)) /\ UNCHANGED exitVal
      BY <1>11, <2>4 DEF ClientReads
    <3>2. Head(wire) \in Nat /\ Head(wire) \in Item
      BY <1>w, <2>1, <2>2, <2>4, Items DEF FramesInv
    <3>3. Head(wire) = n + dropped + 1
      BY <1>x, <1>t, <2>1, <2>2, <3>2 DEF Continues, Offset
    <3>4. CASE budgeted /\ total = Budget
      <4>1. dropped' = dropped + 1 /\ UNCHANGED <<chan, pend>>
        BY <3>1, <3>4 DEF EnqueueData
      <4>2. Queue' = Queue
        BY <2>1, <4>1, QueueStays
      <4>3. Continues(n)'
        BY <1>t, <1>x, <2>1, <3>1, <4>1, ContinuesTail
      <4>4. /\ (dropped > 0 /\ client \in {"draining", "done"}) = FALSE
            /\ (dropped' > 0 /\ client' \in {"draining", "done"}) = FALSE
        BY <2>1
      <4> QED BY <1>i, <1>x, <2>1, <4>2, <4>3, <4>4
    <3>5. CASE ~(budgeted /\ total = Budget)
      <4>1. dropped = 0 /\ dropped' = dropped /\ Deliver(Append(pend, Head(wire)))
        BY <1>t, <1>p, <3>1, <3>5 DEF EnqueueData
      <4>2. Queue' = Append(Queue, n + 1)
        BY <1>t, <2>1, <3>2, <3>3, <4>1, EnqueueExtendsQueue
      <4>3. Continues(n + 1)'
        BY <1>t, <1>x, <2>1, <3>1, <4>1, ContinuesTail
      <4>4. /\ Mark(dropped > 0 /\ client \in {"draining", "done"}) = <<>>
            /\ Mark(dropped > 0 /\ client \in {"draining", "done"})' = <<>>
        BY <2>1 DEF Mark
      <4>5. Queue = Numbered(n)
        BY <1>x, <4>4, NumberedMark
      <4>6. Queue' = Numbered(n + 1)
        BY <4>2, <4>5, NumberedGrows
      <4>7. Numbered(n + 1) = Numbered(n + 1) \o <<>>
        BY <1>t, NumberedMark
      <4>8. Queue' = Numbered(n + 1) \o Mark(dropped' > 0 /\ client' \in {"draining", "done"})
        BY <4>4, <4>6, <4>7
      <4> QED BY <1>i, <1>t, <2>1, <4>3, <4>8
    <3> QED BY <3>4, <3>5
  <2> QED BY <2>3, <2>4
<1>12. CASE Teardown
  <2>1. /\ client = "reading" /\ client' = "draining"
        /\ UNCHANGED <<sent, hand, writer, chan, wire, dropped, exitVal, got, shell, conn>>
        /\ pend' = IF dropped > 0 THEN Append(pend, Marker) ELSE pend
    BY <1>12, <1>p DEF Teardown
  <2>2. Continues(n)'
    BY <1>x, <2>1 DEF Continues, Offset
  <2>3. Queue = Numbered(n)
    <3>1. Mark(dropped > 0 /\ client \in {"draining", "done"}) = <<>>
      BY <2>1 DEF Mark
    <3> QED BY <1>x, <3>1, NumberedMark
  <2>4. Queue' = Numbered(n) \o Mark(dropped > 0)
    <3>1. CASE dropped > 0
      <4>1. Queue' = Append(Queue, Marker)
        BY <2>1, <3>1, MarkerExtendsQueue
      <4>2. Mark(dropped > 0) = <<Marker>>
        BY <3>1 DEF Mark
      <4> QED BY <2>3, <4>1, <4>2, NumberedMark
    <3>2. CASE ~(dropped > 0)
      <4>1. Queue' = Queue
        BY <2>1, <3>2, QueueStays
      <4>2. Mark(dropped > 0) = <<>>
        BY <3>2 DEF Mark
      <4> QED BY <2>3, <4>1, <4>2, NumberedMark
    <3> QED BY <3>1, <3>2
  <2>5. Mark(dropped' > 0 /\ client' \in {"draining", "done"}) = Mark(dropped > 0)
    BY <2>1 DEF Mark
  <2> QED BY <1>i, <2>1, <2>2, <2>4, <2>5
<1>13. CASE DrainPend
  <2>1. /\ client = "draining" /\ client' \in {"draining", "done"}
        /\ UNCHANGED <<sent, hand, writer, wire, dropped, exitVal, got, shell, conn>>
        /\ Deliver(pend) \/ (pend' = <<>> /\ chan' = chan)
    BY <1>13 DEF DrainPend
  <2>2. CASE Deliver(pend)
    <3>1. Queue' = Queue
      BY <2>1, <2>2, DrainKeepsQueue
    <3>2. Continues(n)'
      BY <1>x, <2>1 DEF Continues, Offset
    <3>3. Mark(dropped' > 0 /\ client' \in {"draining", "done"})
            = Mark(dropped > 0 /\ client \in {"draining", "done"})
      BY <2>1 DEF Mark
    <3> QED BY <1>i, <1>x, <2>1, <3>1, <3>2, <3>3
  <2>3. CASE pend' = <<>> /\ chan' = chan
    <3>1. pend = <<>> \/ pend # <<>>
      OBVIOUS
    <3>2. CASE pend = <<>>
      <4>1. Queue' = Queue
        BY <2>1, <2>3, <3>2, QueueStays
      <4>2. Continues(n)'
        BY <1>x, <2>1 DEF Continues, Offset
      <4>3. Mark(dropped' > 0 /\ client' \in {"draining", "done"})
              = Mark(dropped > 0 /\ client \in {"draining", "done"})
        BY <2>1 DEF Mark
      <4> QED BY <1>i, <1>x, <2>1, <4>1, <4>2, <4>3
    <3>3. CASE pend # <<>> /\ ~Deliver(pend)
      <4>1. Len(chan) = Depth /\ writer = "done"
        BY <1>13, <3>3 DEF DrainPend
      <4>2. chan = <<>> /\ Len(<<>>) = 0
        BY <1>t, <4>1, EmptySeq
      <4> QED BY <1>t, <4>1, <4>2
    <3> QED BY <2>2, <3>2, <3>3
  <2> QED BY <2>1, <2>2, <2>3
<1>14. CASE Writer
  <2>1. Queue' = Queue
    BY <1>14, WriterKeepsQueue DEF Writer
  <2> QED BY <1>14, <1>s, <2>1 DEF Writer, WriterTakes, WriterWrites
<1>15. CASE TimerFires
  BY <1>15, <1>q DEF TimerFires
<1>16. CASE Environment /\ ~HostSpawnFails
  BY <1>16, <1>q DEF Environment, SessionClose, LegFails, CoreFails, Escapes, Emits, MainExits,
     OthersExit, DialFails
<1> QED BY <1>1, <1>2, <1>3, <1>4, <1>5, <1>6, <1>7, <1>8, <1>9, <1>10, <1>11, <1>12, <1>13,
           <1>14, <1>15, <1>16
        DEF Next, Handler, WindowsHost, Client
LEMMA NextStream ==
    ASSUME plat \in {"linux", "windows"}, PanicInv, Typed, HandlerInv, LinuxInv, WindowsInv,
           StreamInv, [Next]_vars
    PROVE  StreamInv'
<1> SUFFICES ASSUME Exec', ws' = "ok", ~early'
             PROVE  /\ plat' = "linux" => LinuxStream'
                    /\ plat' = "windows" => \E n \in Nat : WindowsStream(n)'
  BY DEF StreamInv
<1>1. plat' = plat /\ Exec /\ ws = "ok" /\ ~early
  BY Fixed, UsableWas DEF Exec
<1>2. CASE plat = "linux"
  <2>1. LinuxStream
    BY <1>1, <1>2 DEF StreamInv
  <2> QED BY <1>1, <1>2, <2>1, NextLinuxStream
<1>3. CASE plat = "windows"
  <2>1. PICK n \in Nat : WindowsStream(n)
    BY <1>1, <1>3 DEF StreamInv
  <2> QED BY <1>1, <1>3, <2>1, NextWindowsStream
<1> QED BY <1>2, <1>3

-----------------------------------------------------------------------------
(* The result. *)

LEMMA NotYetSaid ==
    ASSUME NEW s \in Seq(Item)
    PROVE  ~Contains(s, Result)
<1>1. Result \notin Item
  BY ShellAssumption DEF Item, Code
<1>2. \A i \in 1..Len(s) : s[i] \in Item
  BY ElementOfSeq
<1> QED BY <1>1, <1>2 DEF Contains

\* Behind a handler that has ended with a code of its own nothing is written, and
\* nothing is left that the command or a pump could still do to the output.
LEMMA EndedStays ==
    ASSUME plat \in {"linux", "windows"}, PanicInv, Typed, HandlerInv, LinuxInv, WindowsInv,
           pc = "ended", exit = Ok, [Next]_vars
    PROVE  UNCHANGED <<sent, exit, made, dropped>>
<1>1. Ok # None
  BY Distinct
<1>2. /\ Exec /\ exits # None
      /\ writer \in {"idle", "writing"} => ws = "dead"
  BY <1>1 DEF HandlerInv
<1>3. plat = "linux" => pump = "done" /\ tree = "gone" /\ client = "off"
  BY <1>2 DEF PanicInv, PumpEndsFirst, LinuxInv, NoCoreOnLinux
<1>4. plat = "windows" => tree = "gone" /\ client \in {"draining", "done"}
  BY <1>2 DEF WindowsInv, PipeInv, Finished
<1>5. tree = "gone" /\ client # "reading" /\ (plat = "linux" => pump = "done")
  BY <1>3, <1>4
<1> USE <1>2, <1>5 DEF fixed, handler, command, output, linux, windows
<1>6. CASE UNCHANGED vars
  BY <1>6 DEF vars
<1>7. CASE Handler
  BY <1>7 DEF Handler, SessionOpen, TakeExit, SeeCancel, SeeTimer, ShellEnds, Kill, AwaitExit,
     AwaitOutput, Finish, CoreKillShell, SetExecBudget, ClosePipe, LinuxCloseDone,
     LinuxCloseStreams
<1>8. CASE LinuxHost \/ WindowsHost \/ HostBegins
  BY <1>8 DEF LinuxHost, LinuxRead, LinuxReadEnds, LinuxSend, Supervise, WindowsHost, HostPumps,
     HostPumpEnds, HostReaderKills, HostExits, HostBegins
<1>9. CASE Client \/ Writer \/ Create \/ TimerFires \/ HostTimerFires
  BY <1>9 DEF Client, DialBegun, ClientReads, Teardown, DrainPend, Writer, WriterTakes,
     WriterWrites, Create, LinuxCreate, CoreCreateShell, Refused, TimerFires, HostTimerFires
<1>10. CASE Environment
  BY <1>10 DEF Environment, SessionClose, LegFails, CoreFails, Escapes, Emits, MainExits,
     OthersExit, DialFails, HostSpawnFails
<1> QED BY <1>6, <1>7, <1>8, <1>9, <1>10 DEF Next

LEMMA EndedKeepsCode ==
    ASSUME pc = "ended", ~early', [Next]_vars
    PROVE  exit' = exit /\ ~early
<1> USE DEF fixed, handler, command, output, linux, windows
<1>1. CASE UNCHANGED vars
  BY <1>1 DEF vars
<1>2. CASE Handler
  BY <1>2 DEF Handler, SessionOpen, TakeExit, SeeCancel, SeeTimer, ShellEnds, Kill, AwaitExit,
     AwaitOutput, Finish, CoreKillShell, SetExecBudget, ClosePipe, LinuxCloseDone,
     LinuxCloseStreams
<1>3. CASE LinuxHost \/ WindowsHost \/ HostBegins
  BY <1>3 DEF LinuxHost, LinuxRead, LinuxReadEnds, LinuxSend, Supervise, WindowsHost, HostPumps,
     HostPumpEnds, HostReaderKills, HostExits, HostBegins
<1>4. CASE ClientReads
  BY <1>4 DEF ClientReads, EnqueueData
<1>5. CASE DialBegun \/ Teardown \/ DrainPend \/ Writer \/ Create \/ TimerFires \/ HostTimerFires
  BY <1>5 DEF DialBegun, Teardown, DrainPend, Writer, WriterTakes, WriterWrites, Create,
     LinuxCreate, CoreCreateShell, Refused, TimerFires, HostTimerFires
<1>6. CASE Environment
  BY <1>6 DEF Environment, SessionClose, LegFails, CoreFails, Escapes, Emits, MainExits,
     OthersExit, DialFails, HostSpawnFails
<1> QED BY <1>1, <1>2, <1>3, <1>4, <1>5, <1>6 DEF Next, Client

\* A handler ends where it finishes, or with the dial of its websocket.
LEMMA EndsAtFinish ==
    ASSUME [Next]_vars, pc # "ended", pc' = "ended"
    PROVE  Finish \/ (SessionOpen /\ UNCHANGED <<sent, exit>>)
<1> USE DEF fixed, handler, command, output, linux, windows
<1>1. CASE UNCHANGED vars
  BY <1>1 DEF vars
<1>2. CASE Handler
  BY <1>2 DEF Handler, SessionOpen, TakeExit, SeeCancel, SeeTimer, ShellEnds, Kill, AwaitExit,
     AwaitOutput, CoreKillShell, SetExecBudget, ClosePipe, LinuxCloseDone, LinuxCloseStreams
<1>3. CASE LinuxHost \/ WindowsHost \/ HostBegins
  BY <1>3 DEF LinuxHost, LinuxRead, LinuxReadEnds, LinuxSend, Supervise, WindowsHost, HostPumps,
     HostPumpEnds, HostReaderKills, HostExits, HostBegins
<1>4. CASE Client \/ Writer \/ Create \/ TimerFires \/ HostTimerFires
  BY <1>4 DEF Client, DialBegun, ClientReads, Teardown, DrainPend, Writer, WriterTakes,
     WriterWrites, Create, LinuxCreate, CoreCreateShell, Refused, TimerFires, HostTimerFires
<1>5. CASE Environment
  BY <1>5 DEF Environment, SessionClose, LegFails, CoreFails, Escapes, Emits, MainExits,
     OthersExit, DialFails, HostSpawnFails
<1> QED BY <1>1, <1>2, <1>3, <1>4, <1>5 DEF Next

\* When an exec with a code of its own finishes on a usable leg, all that was on
\* its way has been written.
LEMMA AllWritten ==
    ASSUME plat \in {"linux", "windows"}, PanicInv, Typed, HandlerInv, LinuxInv, WindowsInv,
           StreamInv, Exec, pc = "finish", ws = "ok", exit = Ok, ~early
    PROVE  sent = Numbered(made - dropped) \o Mark(dropped > 0)
<1>t. /\ made \in Nat /\ got \in Nat /\ dropped \in Nat /\ sent \in Seq(Item) /\ Ok # None
  BY Distinct DEF Typed
<1>1. writer = "done" /\ chan = <<>> /\ chanClosed /\ exits # None
  BY <1>t DEF HandlerInv
<1>2. plat = "linux" => pump = "done" /\ pend = <<>> /\ got = made
  BY <1>1 DEF PanicInv, PumpEndsFirst, LinuxInv
<1>3. plat = "windows" => client = "done" /\ pend = <<>> /\ got = made /\ exitVal = Ok
  BY <1>1 DEF WindowsInv, PipeInv, Finished
<1>4. Queue = sent
  <2>1. pend = <<>> /\ InHand = <<>>
    BY <1>1, <1>2, <1>3 DEF InHand
  <2>2. Queue = (sent \o <<>>) \o (<<>> \o <<>>)
    BY <1>1, <2>1 DEF Queue
  <2>3. <<>> \o <<>> = <<>> /\ sent \o <<>> = sent
    BY <1>t, ConcatEmptySeq, EmptySeq
  <2> QED BY <2>2, <2>3
<1>5. CASE plat = "linux"
  BY <1>2, <1>4, <1>5 DEF StreamInv, LinuxStream
<1>6. CASE plat = "windows"
  <2>1. PICK n \in Nat : WindowsStream(n)
    BY <1>6 DEF StreamInv
  <2>2. n + dropped = got
    BY <1>3, <1>6, <2>1 DEF WindowsStream, Continues
  <2>3. n = made - dropped
    BY <1>t, <1>3, <1>6, <2>2
  <2>4. (dropped > 0 /\ client \in {"draining", "done"}) = (dropped > 0)
    BY <1>3, <1>6
  <2>5. Queue = Numbered(n) \o Mark(dropped > 0 /\ client \in {"draining", "done"})
    BY <2>1 DEF WindowsStream
  <2> QED BY <1>4, <2>3, <2>4, <2>5
<1> QED BY <1>5, <1>6

LEMMA NextAccounted ==
    ASSUME OutputInv, Typed', [Next]_vars
    PROVE  OutputAccounted'
<1> SUFFICES ASSUME Contains(sent', Result), exit' = Ok, ~early'
             PROVE  sent' = (Numbered(made' - dropped') \o Mark(dropped' > 0)) \o <<Result>>
  BY DEF OutputAccounted
<1>i. /\ plat \in {"linux", "windows"} /\ PanicInv /\ Typed /\ HandlerInv /\ LinuxInv
      /\ WindowsInv /\ StreamInv /\ OutputAccounted
  BY DEF OutputInv
<1>1. pc' = "ended"
  BY NotYetSaid DEF Typed
<1>2. CASE pc = "ended"
  <2>1. exit = Ok /\ ~early
    BY <1>2, EndedKeepsCode
  <2>2. UNCHANGED <<sent, exit, made, dropped>>
    BY <1>i, <1>2, <2>1, EndedStays
  <2> QED BY <1>i, <2>1, <2>2 DEF OutputAccounted
<1>3. CASE pc # "ended"
  <2>1. sent \in Seq(Item) /\ ~Contains(sent, Result)
    BY <1>i, <1>3, NotYetSaid DEF Typed
  <2>2. CASE Finish
    <3>1. /\ Exec /\ ws = "ok" /\ pc = "finish" /\ exit = Ok /\ ~early
          /\ sent' = Append(sent, Result) /\ UNCHANGED <<made, dropped>>
      BY <2>1, <2>2 DEF Finish, command, output, windows
    <3>2. sent = Numbered(made - dropped) \o Mark(dropped > 0)
      BY <1>i, <3>1, AllWritten
    <3>3. sent \in Seq(Item \cup {Result}) /\ Result \in Item \cup {Result}
      BY <1>i DEF Typed
    <3>4. sent' = sent \o <<Result>>
      BY <3>1, <3>3, AppendIsConcat
    <3> QED BY <3>1, <3>2, <3>4
  <2>3. CASE SessionOpen /\ UNCHANGED <<sent, exit>>
    BY <2>1, <2>3
  <2> QED BY <1>1, <1>3, <2>2, <2>3, EndsAtFinish
<1> QED BY <1>2, <1>3

LEMMA InitOutput == Init => OutputInv
<1> SUFFICES ASSUME Init PROVE OutputInv
  OBVIOUS
<1>1. plat \in {"linux", "windows"} /\ PanicInv /\ Typed
  BY InitPanic, InitTyped, ShellAssumption DEF Init
<1>2. HandlerInv
  BY DEF Init, HandlerInv
<1>3. LinuxInv
  BY ShellAssumption DEF Init, LinuxInv
<1>4. Len(<<>>) = 0 /\ 1..0 = {}
  BY EmptySeq
<1>5. WindowsInv
  BY <1>4, Distinct DEF Init, WindowsInv, FramesInv, PipeInv
<1>6. StreamInv
  <2>1. Queue = <<>>
    <3>1. Queue = (<<>> \o <<>>) \o (<<>> \o <<>>)
      BY DEF Init, Queue, InHand
    <3>2. <<>> \o <<>> = <<>>
      BY ConcatEmptySeq, EmptySeq
    <3> QED BY <3>1, <3>2
  <2>2. Numbered(0) = <<>>
    BY <1>4 DEF Numbered
  <2>3. LinuxStream
    BY <2>1, <2>2 DEF Init, LinuxStream
  <2>4. Mark(dropped > 0 /\ client \in {"draining", "done"}) = <<>> /\ Numbered(0) \o <<>> = <<>>
    BY <2>2, ConcatEmptySeq, EmptySeq DEF Init, Mark
  <2>5. Continues(0)
    BY <1>4, Distinct DEF Init, Continues
  <2>6. WindowsStream(0)
    BY <2>1, <2>4, <2>5 DEF WindowsStream
  <2> QED BY <2>3, <2>6 DEF StreamInv
<1>7. OutputAccounted
  BY Distinct DEF Init, OutputAccounted
<1> QED BY <1>1, <1>2, <1>3, <1>5, <1>6, <1>7 DEF OutputInv

LEMMA NextOutput == OutputInv /\ [Next]_vars => OutputInv'
<1> SUFFICES ASSUME OutputInv, [Next]_vars PROVE OutputInv'
  OBVIOUS
<1>1. /\ plat \in {"linux", "windows"} /\ PanicInv /\ Typed /\ HandlerInv /\ LinuxInv
      /\ WindowsInv /\ StreamInv
  BY DEF OutputInv
<1>2. (plat \in {"linux", "windows"})' /\ PanicInv'
  BY <1>1, Fixed, NextPanic
<1>3. Typed' /\ HandlerInv' /\ LinuxInv' /\ WindowsInv' /\ StreamInv'
  BY <1>1, NextTyped, NextHandler, NextLinux, NextWindows, NextStream
<1>4. OutputAccounted'
  BY <1>3, NextAccounted
<1> QED BY <1>2, <1>3, <1>4 DEF OutputInv

\* When the client of an exec has the result of a command that ended by itself,
\* what came before it is the output from the first chunk in order, all of it or as
\* far as the budget went and then the marker: whatever the depth of the channel,
\* the budget, the length of the output and the faults, on either platform, if the
\* pipe client dropped nothing before it knew the budget.
THEOREM OutputIsAccounted == Spec => []OutputAccounted
<1>1. OutputInv => OutputAccounted
  BY DEF OutputInv
<1> QED BY InitOutput, NextOutput, <1>1, PTL DEF Spec
=============================================================================
