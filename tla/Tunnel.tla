-------------------------------- MODULE Tunnel -------------------------------
(***************************************************************************)
(* One tunnel of xnc rdp: cli/cmd_rdp.go listens on a local port, starts   *)
(* the RDP program and pumps its connection over the session;              *)
(* agent/session/tunnel.go dials the target and pumps on the other side.   *)
(* Each side has a main loop that writes to its socket, in the client, or  *)
(* reads from it, in the agent, and a goroutine for the other direction.   *)
(* Data is left out: a read or a write matters where it fails.             *)
(***************************************************************************)
EXTENDS Naturals

VARIABLES
    cli,       \* main loop of xnc rdp
    cliPump,   \* its goroutine, local socket to session
    localSock, \* local socket: the end of the program, and whether xnc has closed its own
    session,   \* the session, and an ERROR frame in it
    agentMain, \* handler of the agent
    agentPump, \* its goroutine, session to target
    target     \* socket to the target

tunnelVars == <<cli, cliPump, localSock, session, agentMain, agentPump, target>>

Pump == {"none", "running", "done"}

TunnelTypeOK ==
    /\ cli \in {"idle", "accept", "running", "drain", "exited"}
    /\ cliPump \in Pump
    /\ localSock \in [peer : {"none", "open", "gone"}, closed : BOOLEAN]
    /\ session \in [up : BOOLEAN, error : BOOLEAN]
    /\ agentMain \in {"none", "dial", "running", "drain", "returned"}
    /\ agentPump \in Pump
    /\ target \in [peer : {"none", "open", "gone"}, closed : BOOLEAN]
    \* A side that has returned has left no goroutine and no socket behind.
    /\ cli = "exited" => (cliPump = "running" => localSock.closed)
    /\ agentMain = "returned" => agentPump # "running" /\ (target.peer # "none" => target.closed)

TunnelInit ==
    /\ cli = "idle" /\ cliPump = "none"
    /\ localSock = [peer |-> "none", closed |-> FALSE]
    /\ session = [up |-> FALSE, error |-> FALSE]
    /\ agentMain = "none" /\ agentPump = "none"
    /\ target = [peer |-> "none", closed |-> FALSE]

-----------------------------------------------------------------------------
(* xnc rdp *)

runRdp ==
    /\ cli = "idle"
    /\ cli' = "accept" /\ agentMain' = "dial"
    /\ session' = [session EXCEPT !.up = TRUE]
    /\ UNCHANGED <<cliPump, localSock, agentPump, target>>

(* The RDP program connects to the port. *)
Accept ==
    /\ cli = "accept"
    /\ cli' = "running" /\ cliPump' = "running"
    /\ localSock' = [localSock EXCEPT !.peer = "open"]
    /\ UNCHANGED <<session, agentMain, agentPump, target>>

ProgramExits ==
    /\ localSock.peer = "open"
    /\ localSock' = [localSock EXCEPT !.peer = "gone"]
    /\ UNCHANGED <<cli, cliPump, session, agentMain, agentPump, target>>

LocalDead == localSock.peer = "gone" \/ localSock.closed

(* conn to ws: the read or the write fails. *)
CliPumpEnds ==
    /\ cliPump = "running"
    /\ LocalDead \/ ~session.up
    /\ cliPump' = "done"
    /\ UNCHANGED <<cli, localSock, session, agentMain, agentPump, target>>

CliDrainsOpen ==
    /\ cli = "running" /\ ~session.error
    /\ ~session.up \/ (LocalDead /\ agentMain = "running")
    /\ cli' = "drain"
    /\ UNCHANGED <<cliPump, localSock, session, agentMain, agentPump, target>>

(* ws to conn: the session ends; or a frame comes for a socket that is dead.
   The socket is closed, so that the goroutine ends too. *)
CliDrains ==
    /\ cli = "running" /\ ~session.error
    /\ ~session.up \/ (LocalDead /\ agentMain = "running")
    /\ cli' = "drain"
    /\ localSock' = [localSock EXCEPT !.closed = TRUE]
    /\ UNCHANGED <<cliPump, session, agentMain, agentPump, target>>

CliExits ==
    /\ cli = "drain" /\ cliPump = "done"
    /\ cli' = "exited"
    /\ session' = [session EXCEPT !.up = FALSE]
    /\ UNCHANGED <<cliPump, localSock, agentMain, agentPump, target>>

(* The ERROR frame: exit 250 with everything that was deferred. *)
CliFails ==
    /\ cli = "running" /\ session.error
    /\ cli' = "exited"
    /\ localSock' = [localSock EXCEPT !.closed = TRUE]
    /\ session' = [session EXCEPT !.up = FALSE]
    /\ UNCHANGED <<cliPump, agentMain, agentPump, target>>

-----------------------------------------------------------------------------
(* The agent *)

Dial ==
    /\ agentMain = "dial" /\ session.up
    /\ agentMain' = "running" /\ agentPump' = "running"
    /\ target' = [target EXCEPT !.peer = "open"]
    /\ UNCHANGED <<cli, cliPump, localSock, session>>

tunnelError ==
    /\ agentMain = "dial"
    /\ agentMain' = "returned"
    /\ session' = [up |-> FALSE, error |-> session.up]
    /\ UNCHANGED <<cli, cliPump, localSock, agentPump, target>>

TargetCloses ==
    /\ target.peer = "open"
    /\ target' = [target EXCEPT !.peer = "gone"]
    /\ UNCHANGED <<cli, cliPump, localSock, session, agentMain, agentPump>>

TargetDead == target.peer = "gone" \/ target.closed

(* ws to tcp: the session is gone, or a frame comes for a dead socket; the
   socket is closed, so that the main loop's read ends. *)
AgentPumpEnds ==
    /\ agentPump = "running"
    /\ ~session.up \/ (TargetDead /\ cliPump = "running")
    /\ agentPump' = "done"
    /\ target' = [target EXCEPT !.closed = TRUE]
    /\ UNCHANGED <<cli, cliPump, localSock, session, agentMain>>

(* tcp to ws: the socket ends, and the session is closed; or a frame cannot
   be sent. *)
AgentDrains ==
    /\ agentMain = "running"
    /\ \/ TargetDead /\ session' = [session EXCEPT !.up = FALSE]
       \/ ~session.up /\ ~TargetDead /\ UNCHANGED session
    /\ agentMain' = "drain"
    /\ UNCHANGED <<cli, cliPump, localSock, agentPump, target>>

AgentReturns ==
    /\ agentMain = "drain" /\ agentPump = "done"
    /\ agentMain' = "returned"
    /\ target' = [target EXCEPT !.closed = TRUE]
    /\ UNCHANGED <<cli, cliPump, localSock, session, agentPump>>

(* The relay, the network, Ctrl+C or SESSION_CLOSE. *)
SessionCut ==
    /\ session.up
    /\ session' = [session EXCEPT !.up = FALSE]
    /\ UNCHANGED <<cli, cliPump, localSock, agentMain, agentPump, target>>

-----------------------------------------------------------------------------
ClientSteps == CliPumpEnds \/ CliDrains \/ CliExits \/ CliFails
AgentSteps == Dial \/ tunnelError \/ AgentPumpEnds \/ AgentDrains \/ AgentReturns

TunnelNext ==
    \/ runRdp \/ Accept \/ ProgramExits \/ ClientSteps
    \/ AgentSteps \/ TargetCloses \/ SessionCut

(* Loops see what became of their socket and of the session.  Not so a write
   that fails on a dead socket: it takes a frame, and none may come. *)
TunnelFairness ==
    /\ WF_tunnelVars(CliPumpEnds /\ LocalDead) /\ WF_tunnelVars(CliDrains /\ ~session.up)
    /\ WF_tunnelVars(CliExits) /\ WF_tunnelVars(CliFails)
    /\ WF_tunnelVars(Dial \/ tunnelError) /\ WF_tunnelVars(AgentPumpEnds /\ ~session.up)
    /\ WF_tunnelVars(AgentDrains /\ TargetDead) /\ WF_tunnelVars(AgentReturns)

TunnelSpec == TunnelInit /\ [][TunnelNext]_tunnelVars /\ TunnelFairness

-----------------------------------------------------------------------------
AgentGone == agentMain = "returned" /\ agentPump # "running" /\ (target.peer # "none" => target.closed)

(* When the target closes, or the session is cut, the handler of the agent
   returns with its goroutine and its socket, and so does xnc if the program
   had connected: the two directions end each other, in any order. *)
TunnelTorndown ==
    [](TargetDead \/ (~session.up /\ cli # "idle")
         => <>(AgentGone /\ (cli \in {"accept", "exited"})))

(* As the comment of runRdp has it: the end of the RDP program tears
   everything down.  It does not. *)
ProgramExitTearsDown == localSock.peer = "gone" ~> cli = "exited"
=============================================================================
