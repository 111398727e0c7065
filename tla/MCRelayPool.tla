----------------------------- MODULE MCRelayPool ----------------------------
(* Instances of RelayPool for TLC. *)
EXTENDS RelayPool, TLC

CONSTANTS r1, r2, c1, c2, d1

Dials == (c1 :> r1) @@ (c2 :> r1) @@ (d1 :> r2)

\* The second relay only matters for the assignment: it takes part while the
\* first has neither a fault nor a rotation.
Aside == \/ r2 \notin up'
         \/ faults' = 0 /\ cert'[r1] = 0 /\ cert'[r2] = 0

\* From its challenge to the table a connection is faster than the relay is to
\* lose it, wait two seconds and dial again.
Prompt == \A c, d \in Conn :
    handler[c] \in {"registered", "proved"} /\ c # d /\ RelayOf[c] = RelayOf[d]
    => handler'[d] = handler[d] \/ handler'[d] = "off"

Quiet == Aside /\ Prompt
=============================================================================
