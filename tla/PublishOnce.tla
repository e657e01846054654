---------------------------- MODULE PublishOnce ----------------------------
(***************************************************************************)
(* What a directory that is filled in private and published by one rename  *)
(* promises to whoever reads it: a slot shows nothing, then for a moment   *)
(* something its publisher has not vouched for yet, then one tree for      *)
(* good.  A publisher that cannot vouch takes the tree back, or leaves the *)
(* slot undecided; a tree that was vouched for is never replaced, changed  *)
(* or removed, not even by a power failure.                                *)
(***************************************************************************)

CONSTANTS
    Slot,       \* the published names
    Tree,       \* what a publisher may vouch for
    None

VARIABLE store  \* Slot -> its stage, and the tree vouched for

Absent == [stage |-> "absent", tree |-> None]
Pending == [stage |-> "pending", tree |-> None]
Settled(t) == [stage |-> "settled", tree |-> t]

Init == store = [s \in Slot |-> Absent]

\* A publisher's rename makes a tree visible.
Appear(s) ==
    /\ store[s] = Absent
    /\ store' = [store EXCEPT ![s] = Pending]

\* Its checks after the rename failed, or the rename was lost.
Retract(s) ==
    /\ store[s] = Pending
    /\ store' = [store EXCEPT ![s] = Absent]

\* Its checks after the rename passed.
Settle(s) ==
    /\ store[s] = Pending
    /\ \E t \in Tree : store' = [store EXCEPT ![s] = Settled(t)]

\* A power failure takes every undecided tree back, or some.
Lose ==
    \E lost \in SUBSET {s \in Slot : store[s] = Pending} :
        store' = [s \in Slot |-> IF s \in lost THEN Absent ELSE store[s]]

Next == (\E s \in Slot : Appear(s) \/ Retract(s) \/ Settle(s)) \/ Lose

Spec == Init /\ [][Next]_store
=============================================================================
