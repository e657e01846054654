-------------------------- MODULE MCTerminalBridge --------------------------
(***************************************************************************)
(* Instances of TerminalBridge.                                            *)
(***************************************************************************)
EXTENDS TerminalBridge, TLC

Symmetry == Permutations(Pid \ {Anchor})
=============================================================================
