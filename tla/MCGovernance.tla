---------------------------- MODULE MCGovernance ----------------------------
(* Small instances of the governance engine for TLC. *)
EXTENDS Governance, FiniteSets, TLC

CONSTANTS e1, e2, e3, p1, p2, art, art2, rb, report, old, new, profile

\* Two texts of the one profile: they pin different artifacts.
OldText == [target |-> "boot", artifact |-> art, sha |-> old,
            rollback |-> rb, rollbackSha |-> new]
NewText == [OldText EXCEPT !.artifact = art2]

MCFiles == [f \in File |-> IF f = rb THEN new ELSE old]
MCReport == {report}
NoReport == {}
MCProfiles == profile :> OldText
TwoTexts == {OldText, NewText}
OneText == {OldText}

Authorized == [enabled |-> TRUE, scopes |-> {"ram_boot"},
               auth |-> profile :> [text |-> OldText, targets |-> {"boot"}]]
Unauthorized == [Authorized EXCEPT !.auth[profile] = None]

Records == ({active} \cup {rec[p] : p \in Proc}) \ {None}

\* The working tree changes, and the owner is asked, around the first
\* experiment.
FirstExperiment ==
    /\ Cardinality(guards \cup {r.id : r \in Records}) <= 1
    /\ \A r \in Records : r.obs = 0 /\ r.repeat = None
    /\ \A e \in Exp : archived[e] = None
    /\ \A p \in Proc : cmd[p] \in {"none", "authorize", "new", "claim"}
    /\ active # None /\ active.status = "ready" => active.id \notin guards
    /\ tail = None /\ files[report] = old /\ files[art2] = old

\* Everything else happens in the tree as it was committed, with the entry the
\* owner added to the policy.
AsCommitted ==
    /\ <<policy, profiles, files, head.commit>> = <<Authorized, MCProfiles, MCFiles, 0>>
    /\ late = {}
    /\ \A p \in Proc : cmd[p] # "authorize"

\* The owner's audit is followed up where it is of a claim that tore the ledger,
\* and nothing is observed any more.
Torn == tail # None \/ \E line \in ledger : line.id = Absent \/ Stopped(line.id)

AfterAudit ==
    (\E e \in guards : archived[e] = None /\ (active = None \/ active.id # e)) =>
        Torn /\ \A r \in Records : r.obs = 0

\* The second experiment follows a first one that was claimed and not observed.
AfterArchive ==
    \A e \in Exp : archived[e] # None => archived[e].action # None /\ archived[e].obs = 0

Stages == (FirstExperiment \/ AsCommitted) /\ AfterAudit /\ AfterArchive

ProcSymmetry == Permutations(Proc)
Symmetry == ProcSymmetry \cup Permutations(Exp)
=============================================================================
