-------------------------- MODULE MCSessionManager --------------------------
(* Instances of SessionManager for TLC. *)
EXTENDS SessionManager, TLC

CONSTANTS n1, d1, d2, s1, s2, e1

\* One node: the requests race for its limits and its lease.
Kinds == [s \in Session |-> IF s \in {d1, d2} THEN "desktop"
                            ELSE IF s \in {s1, s2} THEN "shell" ELSE "exec"]
OneNode == [s \in Session |-> n1]

\* Sessions of the same kind are interchangeable.
Symmetry == Permutations({d1, d2}) \cup Permutations({s1, s2})

\* One request of any kind in the life of the table: what becomes of a session
\* in the end does not depend on another one.  (Create is under no fairness.)
OneRequest == Cardinality({s \in Session : phase'[s] # "unborn"}) <= 1

\* Desktops compete with desktops and shells with shells: a session of another
\* kind shares neither limit nor lease.
OneKind == \A s, t \in Session :
    phase'[s] # "unborn" /\ phase'[t] # "unborn" => KindOf[s] = KindOf[t]
=============================================================================
