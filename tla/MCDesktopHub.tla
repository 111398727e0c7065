---------------------------- MODULE MCDesktopHub ----------------------------
(* Instances of DesktopHub for TLC. *)
EXTENDS DesktopHub, TLC

CONSTANTS s1, s2, v1, v2, h2

\* A leg of each of two sessions: they contend for control.
Apart == (v1 :> s1) @@ (v2 :> s2)

\* One complication at a time: two viewers that contend, two hosts of which one
\* replaces the other, or a host ticket that grows old or is revoked.
Aged == ticket' \in {"rotate", "expired"} \/ banned'
OneTwist ==
    /\ Aged => desk'[s2] \in {"none", "open"} /\ leg'[v2] = "off" /\ hpc'[h2] = "off"
    /\ hpc'[h2] # "off" => desk'[s2] = "none"
=============================================================================
