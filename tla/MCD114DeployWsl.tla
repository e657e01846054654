-------------------------- MODULE MCD114DeployWsl --------------------------
(* Instances of D114DeployWsl for TLC.                                     *)
EXTENDS D114DeployWsl, TLC

\* Every profile names the same ledgers.
SharedLedger == [f \in Profile |-> CHOOSE l \in Ledger : TRUE]

\* Runs, profiles and nonces are interchangeable.
Symmetry == Permutations(Proc) \cup Permutations(Profile) \cup Permutations(Nonce)
=============================================================================
