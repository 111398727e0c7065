------------------------------- MODULE MCApart ------------------------------
(***************************************************************************)
(* Four parts of the system that have no state in common: the tables of    *)
(* accounts, clusters and nodes; the releases; file transfers; a tunnel.   *)
(* Nothing one of them does can be seen by another, so they are looked at  *)
(* one at a time: a behaviour is one of the part that its first state      *)
(* chooses, and the others stay where they begin, in a state in which they *)
(* have no step that they must take.                                       *)
(***************************************************************************)
EXTENDS Tenancy, Releases, FileTransfer, Tunnel

VARIABLE moving

apartVars == <<moving, tenancyVars, relVars, transferVars, tunnelVars>>

ApartInit ==
    /\ moving \in {"tenancy", "releases", "transfer", "tunnel"}
    /\ TenancyInit /\ ReleasesInit /\ TransferInit /\ TunnelInit
    /\ moving # "transfer" => system = "linux"

ApartNext ==
    \/ moving = "tenancy" /\ TenancyNext /\ UNCHANGED <<moving, relVars, transferVars, tunnelVars>>
    \/ moving = "releases" /\ ReleasesNext /\ UNCHANGED <<moving, tenancyVars, transferVars, tunnelVars>>
    \/ moving = "transfer" /\ TransferNext /\ UNCHANGED <<moving, tenancyVars, relVars, tunnelVars>>
    \/ moving = "tunnel" /\ TunnelNext /\ UNCHANGED <<moving, tenancyVars, relVars, transferVars>>

ApartSpec ==
    /\ ApartInit /\ [][ApartNext]_apartVars
    /\ ReleasesFairness /\ TransferFairness /\ TunnelFairness
=============================================================================
