-------------------------- MODULE MCDisplayHandoff --------------------------
(***************************************************************************)
(* Instances of DisplayHandoff: three PIDs for the session's processes and *)
(* for strangers.                                                          *)
(***************************************************************************)
EXTENDS DisplayHandoff, TLC

Symmetry == Permutations(Pid \ {Anchor})
=============================================================================
