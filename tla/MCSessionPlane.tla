--------------------------- MODULE MCSessionPlane ---------------------------
(* Instances of SessionPlane for TLC. *)
EXTENDS SessionPlane

CONSTANTS n1, s1, e1

Kinds == [s \in Session |-> IF s = s1 THEN "shell" ELSE "exec"]
OneNode == [s \in Session |-> n1]
=============================================================================
