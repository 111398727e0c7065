------------------------------- MODULE MCAgent -------------------------------
(***************************************************************************)
(* Two parts of the agent that have no state in common, its updater and    *)
(* its calls to the core; of the latter, desktop sessions and the secure   *)
(* attention sequence share no connection.  They are looked at one at a    *)
(* time: a behaviour is one of the part that its first state chooses, and  *)
(* the others stay where they begin, in a state in which they have no step *)
(* that they must take.                                                    *)
(***************************************************************************)
EXTENDS Updater, CoreRpc

VARIABLE moving

agentVars == <<moving, vars, coreVars>>

AgentInit ==
    /\ moving \in {"updater", "desktops", "attention"}
    /\ Init /\ CoreInit

AgentNext ==
    \/ moving = "updater" /\ Next /\ UNCHANGED <<moving, coreVars>>
    \/ moving = "desktops" /\ CoreNext /\ http' = http /\ UNCHANGED <<moving, vars>>
    \/ moving = "attention" /\ CoreNext /\ (\A d \in Desk : pc'[d] = "new") /\ UNCHANGED <<moving, vars>>

AgentSpec == AgentInit /\ [][AgentNext]_agentVars /\ Fairness /\ CoreFairness
=============================================================================
