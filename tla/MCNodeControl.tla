---------------------------- MODULE MCNodeControl ----------------------------
(* Instances of NodeControl for TLC; connections are interchangeable. *)
EXTENDS NodeControl, TLC

ConnSymmetry == Permutations(Conns)
=============================================================================
