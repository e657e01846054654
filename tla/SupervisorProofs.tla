--------------------------- MODULE SupervisorProofs ---------------------------
(***************************************************************************)
(* Theorems about the child supervisor and the two programs that use it,   *)
(* the display handoff and the terminal bridge, for any set of PIDs and    *)
(* any number of attempts.                                                 *)
(*                                                                         *)
(* The first part is about the library and the process tree alone; it says *)
(* what each call promises a launcher that makes it.  The two programs are *)
(* then proved from these promises.  The handoff is an instance: its       *)
(* variables have the names of the bridge's where both have one, and a     *)
(* theorem is about the program whose Spec it names.                       *)
(***************************************************************************)
EXTENDS TerminalBridge, FiniteSetTheorems, WellFoundedInduction, TLAPS

VARIABLES
  exited,  \* of the display handoff
  broken

Handoff == INSTANCE DisplayHandoff

-----------------------------------------------------------------------------
(* What holds of the library and the tree, whoever the launcher is         *)

\* A call of lmi_child_drain is under way and has attempts left.
Draining == {"take", "read", "sleep", "recheck", "peek"}

AttemptsLeft == lib \in Draining => attempt < GracefulAttempts + ForceAttempts

\* The kernel gives orphans to a process that runs, so a parent in the tree
\* does; and following parents leads to the launcher.
ParentsRun ==
  \A p \in Ours : parent[p] = Sup \/ (parent[p] \in Ours /\ Running(parent[p]))

Acyclic ==
  \E rank \in [Pid -> Nat] :
    \A p \in Ours : parent[p] \in Pid => rank[parent[p]] < rank[p]

TreeInv == ParentsRun /\ Acyclic

\* Nothing but the dead anchor is left.
Settled == Ours = {Anchor} /\ life[Anchor] = "zombie"

\* What a drain has read of a child stays true: nobody else waits for it.
SnapshotInv ==
  lib = "read" => \A c \in DOMAIN seen :
                     c \in Children /\ (seen[c] = "exited" => life[c] = "zombie")

\* The anchor is not reaped before lmi_child_reap_anchor does it.
AnchorHeld == lib \notin {"idle", "reaped"} => Anchor \in Children

\* Each test of a drain settles a part of the question.
DrainInv ==
  /\ lib = "recheck" /\ whole => life[Anchor] = "zombie"
  /\ lib = "peek" => Settled
  /\ lib = "ok" /\ whole => Settled
  /\ lib = "reap" => Settled /\ DOMAIN seen = {Anchor}
  /\ lib = "reaped" => Ours = {}

LibInv ==
  /\ TreeType /\ CallType
  /\ AttemptsLeft /\ TreeInv /\ SnapshotInv /\ AnchorHeld /\ DrainInv

LEMMA Attempts ==
  /\ GracefulAttempts + ForceAttempts \in Nat
  /\ 0 < GracefulAttempts + ForceAttempts
  /\ 0 \in 0..(GracefulAttempts + ForceAttempts)
BY PidAssumption

-----------------------------------------------------------------------------
(* The process tree                                                        *)

LEMMA ForkTree ==
  ASSUME TreeType, TreeInv, NEW p \in Pid, NEW q \in Pid, Fork(p, q)
  PROVE  TreeInv'
<1> USE PidAssumption DEF TreeType
<1>1. /\ \A x \in Pid : life'[x] = IF x = q THEN "live" ELSE life[x]
      /\ \A x \in Pid : parent'[x] = IF x = q THEN p ELSE parent[x]
      /\ life[p] = "live" /\ life[q] = "free" /\ p \in Ours
  BY DEF Fork
<1>2. Ours' = Ours \cup {q}
  BY <1>1 DEF Ours
<1>3. ParentsRun'
  BY <1>1, <1>2 DEF TreeInv, ParentsRun, Running, Ours
<1>4. Acyclic'
  <2> PICK rank \in [Pid -> Nat] :
        \A x \in Ours : parent[x] \in Pid => rank[parent[x]] < rank[x]
    BY DEF TreeInv, Acyclic
  <2> DEFINE up == [rank EXCEPT ![q] = rank[p] + 1]
  <2>1. up \in [Pid -> Nat]
    OBVIOUS
  <2>2. \A x \in Ours : parent[x] # q
    BY <1>1 DEF TreeInv, ParentsRun, Ours
  <2>3. ASSUME NEW x \in Ours', parent'[x] \in Pid
        PROVE  up[parent'[x]] < up[x]
    <3>1. CASE x = q
      BY <1>1, <2>3, <3>1
    <3>2. CASE x # q
      BY <1>1, <1>2, <2>2, <2>3, <3>2 DEF Ours
    <3> QED BY <3>1, <3>2
  <2> QED BY <2>1, <2>3 DEF Acyclic
<1> QED BY <1>3, <1>4 DEF TreeInv

LEMMA ExitTree ==
  ASSUME TreeType, TreeInv, NEW p \in Pid, NEW heir \in {Sup, parent[p]}, Exit(p, heir)
  PROVE  TreeInv'
<1> USE PidAssumption DEF TreeType
<1>1. /\ \A x \in Pid : life'[x] = IF x = p THEN "zombie" ELSE life[x]
      /\ \A x \in Pid : parent'[x] = IF parent[x] = p THEN heir ELSE parent[x]
      /\ Running(p) /\ p \in Ours
  BY DEF Exit
<1>2. Ours' = Ours
  BY <1>1 DEF Ours, Running, TreeInv, ParentsRun
<1> PICK rank \in [Pid -> Nat] :
      \A x \in Ours : parent[x] \in Pid => rank[parent[x]] < rank[x]
  BY DEF TreeInv, Acyclic
<1>3. parent[p] # p
  BY <1>1 DEF Ours
<1>4. ParentsRun'
  BY <1>1, <1>2, <1>3 DEF TreeInv, ParentsRun, Running, Ours
<1>5. ASSUME NEW x \in Ours', parent'[x] \in Pid
      PROVE  rank[parent'[x]] < rank[x]
  <2>1. CASE parent[x] = p
    BY <1>1, <1>2, <1>5, <2>1 DEF Ours
  <2>2. CASE parent[x] # p
    BY <1>1, <1>2, <1>5, <2>2 DEF Ours
  <2> QED BY <2>1, <2>2
<1>6. Acyclic'
  BY <1>5 DEF Acyclic
<1> QED BY <1>4, <1>6 DEF TreeInv

\* Zombies have no children: waiting for some leaves a tree.
LEMMA ReapedTree ==
  ASSUME TreeType, TreeInv, NEW S \in SUBSET Ours,
         \A x \in S : life[x] = "zombie",
         \A x \in Pid : life'[x] = IF x \in S THEN "free" ELSE life[x],
         \A x \in Pid : parent'[x] = IF x \in S THEN None ELSE parent[x]
  PROVE  TreeInv' /\ Ours' = Ours \ S
<1> USE PidAssumption DEF TreeType
<1>1. Ours' = Ours \ S
  BY DEF Ours
<1>2. ParentsRun'
  BY <1>1 DEF TreeInv, ParentsRun, Running, Ours
<1>3. Acyclic'
  <2> PICK rank \in [Pid -> Nat] :
        \A x \in Ours : parent[x] \in Pid => rank[parent[x]] < rank[x]
    BY DEF TreeInv, Acyclic
  <2>1. \A x \in Ours' : parent'[x] \in Pid => rank[parent'[x]] < rank[x]
    BY <1>1 DEF Ours
  <2> QED BY <2>1 DEF Acyclic
<1> QED BY <1>1, <1>2, <1>3 DEF TreeInv

LEMMA ReuseTree ==
  ASSUME TreeType, TreeInv, NEW q \in Pid, Reuse(q)
  PROVE  TreeInv' /\ Ours' = Ours
<1> USE PidAssumption DEF TreeType
<1>1. /\ \A x \in Pid \ {q} : life'[x] = life[x] /\ parent'[x] = parent[x]
      /\ q \notin Ours /\ q \notin Ours'
  BY DEF Reuse, Ours
<1>2. Ours' = Ours
  BY <1>1 DEF Ours
<1>3. ParentsRun'
  BY <1>1, <1>2 DEF TreeInv, ParentsRun, Running, Ours
<1>4. Acyclic'
  <2> PICK rank \in [Pid -> Nat] :
        \A x \in Ours : parent[x] \in Pid => rank[parent[x]] < rank[x]
    BY DEF TreeInv, Acyclic
  <2>1. \A x \in Ours' : parent'[x] \in Pid => rank[parent'[x]] < rank[x]
    BY <1>1, <1>2 DEF Ours
  <2> QED BY <2>1 DEF Acyclic
<1> QED BY <1>2, <1>3, <1>4 DEF TreeInv

\* A launcher whose only child is its dead anchor has no other descendant: of
\* the others the one nearest to the launcher would have a parent nearer still.
LEMMA OnlyChildSettles ==
  ASSUME TreeType, TreeInv, Children = {Anchor}, life[Anchor] = "zombie"
  PROVE  Settled
<1> USE PidAssumption DEF TreeType
<1> PICK rank \in [Pid -> Nat] :
      \A x \in Ours : parent[x] \in Pid => rank[parent[x]] < rank[x]
  BY DEF TreeInv, Acyclic
<1> DEFINE rest == Ours \ {Anchor}
           ranks == {rank[x] : x \in rest}
<1>1. Anchor \in Ours
  BY DEF Children, Ours
<1>2. ASSUME NEW x \in rest
      PROVE  parent[x] \in rest /\ rank[parent[x]] < rank[x]
  <2>1. x \in Pid /\ parent[x] # Sup
    BY DEF Children, Ours
  <2>2. parent[x] \in Ours /\ parent[x] # Anchor
    BY <2>1 DEF TreeInv, ParentsRun, Running
  <2> QED BY <2>2 DEF Ours
<1>3. CASE rest # {}
  <2>0. \A x \in rest : rank[x] \in Nat
    BY DEF Ours
  <2>1. ranks \subseteq Nat /\ ranks # {}
    BY <1>3, <2>0
  <2>2. PICK m \in ranks : \A n \in ranks : ~ (<<n, m>> \in OpToRel(<, Nat))
    BY <2>1, NatLessThanWellFounded, WFMin, Zenon
  <2>3. PICK x \in rest : m = rank[x]
    OBVIOUS
  <2>4. rank[parent[x]] \in ranks /\ rank[parent[x]] < m /\ m \in Nat
    BY <1>2, <2>1, <2>3
  <2>5. <<rank[parent[x]], m>> \in OpToRel(<, Nat)
    BY <2>1, <2>4 DEF OpToRel
  <2> QED BY <2>2, <2>4, <2>5
<1> QED BY <1>1, <1>3 DEF Settled

-----------------------------------------------------------------------------
(* Drains that succeed                                                     *)

ChildrenKept ==
  \A c \in Children : c \in Children' /\ (life[c] = "zombie" => life'[c] = "zombie")

\* What the processes of the tree cannot do: take a child or a zombie from the
\* launcher, or start anything once the anchor is alone and dead.
LEMMA KernelKeeps ==
  ASSUME TreeType, TreeInv, KernelStep
  PROVE  /\ TreeInv'
         /\ ChildrenKept
         /\ Settled /\ Anchor \in Children => Settled'
         /\ Ours = {} => Ours' = {}
<1> USE PidAssumption DEF TreeType, Life
<1>1. ASSUME NEW p \in Pid, NEW q \in Pid, Fork(p, q)
      PROVE  /\ ChildrenKept
             /\ ~ Settled /\ Ours # {}
  BY <1>1 DEF ChildrenKept, Fork, Children, Settled, Ours
<1>2. ASSUME NEW p \in Pid, NEW heir \in {Sup, parent[p]}, Exit(p, heir)
      PROVE  /\ ChildrenKept
             /\ ~ Settled /\ Ours # {}
  BY <1>2 DEF ChildrenKept, Exit, Children, Settled, Ours, Running
<1>3. ASSUME NEW q \in Pid, Collect(q)
      PROVE  /\ TreeInv'
             /\ ChildrenKept
             /\ ~ (Settled /\ Anchor \in Children) /\ Ours # {}
  <2>1. /\ \A x \in Pid : life'[x] = IF x \in {q} THEN "free" ELSE life[x]
        /\ \A x \in Pid : parent'[x] = IF x \in {q} THEN None ELSE parent[x]
        /\ {q} \in SUBSET Ours /\ life[q] = "zombie" /\ parent[q] \in Pid
    BY <1>3 DEF Collect
  <2>2. TreeInv'
    BY <2>1, ReapedTree
  <2> QED BY <2>1, <2>2 DEF ChildrenKept, Children, Settled, Ours
<1>4. ASSUME NEW q \in Pid, Reuse(q)
      PROVE  /\ ChildrenKept
             /\ Settled => life'[Anchor] = "zombie"
  BY <1>4 DEF ChildrenKept, Reuse, Children, Settled, Ours
<1>5. CASE \E p, q \in Pid : Fork(p, q)
  BY <1>1, <1>5, ForkTree
<1>6. CASE \E p \in Pid : \E heir \in {Sup, parent[p]} : Exit(p, heir)
  BY <1>2, <1>6, ExitTree
<1>7. CASE \E q \in Pid : Collect(q)
  BY <1>3, <1>7
<1>8. CASE \E q \in Pid : Reuse(q)
  BY <1>4, <1>8, ReuseTree DEF Settled
<1> QED BY <1>5, <1>6, <1>7, <1>8 DEF KernelStep

-----------------------------------------------------------------------------
(* What each call, and each step of the tree, promises the launcher        *)

\* A step that leaves the kernel alone keeps the tree.
LEMMA SameTree ==
  ASSUME UNCHANGED kernel
  PROVE  /\ TreeInv => TreeInv'
         /\ TreeType => TreeType'
         /\ Ours' = Ours /\ Children' = Children /\ life' = life
         /\ Settled <=> Settled'
BY DEF kernel, TreeType, TreeInv, ParentsRun, Acyclic, Ours, Children, Running, Settled

LEMMA TreePromise ==
  ASSUME LibInv, KernelStep
  PROVE  /\ LibInv'
         /\ UNCHANGED call
         /\ ChildrenKept
         /\ Settled /\ Anchor \in Children => Settled'
         /\ Ours = {} => Ours' = {}
<1> TreeType /\ TreeInv /\ SnapshotInv /\ AnchorHeld /\ DrainInv
  BY DEF LibInv
<1>1. UNCHANGED call
  BY DEF KernelStep, Fork, Exit, Collect, Reuse
<1>2. /\ TreeInv'
      /\ ChildrenKept
      /\ Settled /\ Anchor \in Children => Settled'
      /\ Ours = {} => Ours' = {}
  BY KernelKeeps
<1>3. lib' = lib /\ whole' = whole /\ attempt' = attempt /\ seen' = seen
  BY <1>1 DEF call
<1>4. CallType' /\ AttemptsLeft'
  BY <1>3 DEF LibInv, CallType, AttemptsLeft
<1>5. TreeType'
  <2> USE DEF TreeType, Life
  <2>1. CASE \E p, q \in Pid : Fork(p, q)
    BY <2>1 DEF Fork
  <2>2. CASE \E p \in Pid : \E heir \in {Sup, parent[p]} : Exit(p, heir)
    <3> PICK p \in Pid : \E heir \in {Sup, parent[p]} : Exit(p, heir)
      BY <2>2
    <3> PICK heir \in {Sup, parent[p]} : Exit(p, heir)
      OBVIOUS
    <3>1. heir \in Pid \cup {Sup, Other, None}
      OBVIOUS
    <3> QED BY <3>1 DEF Exit
  <2>3. CASE \E q \in Pid : Collect(q) \/ Reuse(q)
    BY <2>3 DEF Collect, Reuse
  <2> QED BY <2>1, <2>2, <2>3 DEF KernelStep
<1>6. SnapshotInv' /\ AnchorHeld' /\ DrainInv'
  BY <1>2, <1>3 DEF SnapshotInv, AnchorHeld, DrainInv, ChildrenKept
<1> QED BY <1>1, <1>2, <1>4, <1>5, <1>6 DEF LibInv

\* The launcher does something else, and no call is under way.
LEMMA IdlePromise ==
  ASSUME LibInv, UNCHANGED kernel, UNCHANGED call
  PROVE  LibInv'
<1>1. CallType' /\ AttemptsLeft'
  BY DEF LibInv, call, CallType, AttemptsLeft
<1>2. SnapshotInv' /\ AnchorHeld' /\ DrainInv'
  BY SameTree DEF LibInv, call, SnapshotInv, AnchorHeld, DrainInv
<1> QED BY <1>1, <1>2, SameTree DEF LibInv

LEMMA StartDrainPromise ==
  ASSUME LibInv, UNCHANGED kernel, Anchor \in Children,
         NEW signal_anchor \in BOOLEAN, StartDrain(signal_anchor)
  PROVE  LibInv'
<1>1. CallType' /\ AttemptsLeft'
  BY Attempts DEF LibInv, StartDrain, CallType, AttemptsLeft
<1>2. SnapshotInv' /\ AnchorHeld' /\ DrainInv'
  BY SameTree DEF StartDrain, SnapshotInv, AnchorHeld, DrainInv
<1> QED BY <1>1, <1>2, SameTree DEF LibInv

\* The reaping of an anchor that is alone and dead will be accepted.
LEMMA StartReapPromise ==
  ASSUME LibInv, UNCHANGED kernel, Anchor \in Children, Settled, StartReap
  PROVE  LibInv'
<1> USE PidAssumption
<1>1. Children = {Anchor}
  BY DEF Settled, Children, Ours
<1>2. DOMAIN seen' = {Anchor} /\ lib' = "reap"
  BY <1>1 DEF StartReap
<1>3. CallType' /\ AttemptsLeft'
  BY <1>1 DEF LibInv, StartReap, CallType, Seen, AttemptsLeft, Draining
<1>4. SnapshotInv' /\ AnchorHeld' /\ DrainInv'
  BY <1>2, SameTree DEF SnapshotInv, AnchorHeld, DrainInv
<1> QED BY <1>3, <1>4, SameTree DEF LibInv

LEMMA ReturnPromise ==
  ASSUME LibInv, UNCHANGED kernel, Return
  PROVE  LibInv'
<1>1. CallType' /\ AttemptsLeft'
  BY Attempts DEF LibInv, Return, CallType, AttemptsLeft, Draining
<1>2. SnapshotInv' /\ AnchorHeld' /\ DrainInv'
  BY SameTree DEF Return, SnapshotInv, AnchorHeld, DrainInv
<1> QED BY <1>1, <1>2, SameTree DEF LibInv

\* The anchor is forked into an empty tree.
LEMMA ForkPromise ==
  ASSUME LibInv, UNCHANGED call, lib = "idle",
         \A p \in Pid : life[p] = "free",
         life' = [life EXCEPT ![Anchor] = "live"],
         parent' = [parent EXCEPT ![Anchor] = Sup]
  PROVE  LibInv' /\ Anchor \in Children' /\ lib' = "idle"
<1> USE PidAssumption DEF LibInv
<1>1. TreeType'
  BY DEF TreeType, Life
<1>2. /\ \A p \in Pid : p # Anchor => life'[p] = "free"
      /\ life'[Anchor] = "live" /\ parent'[Anchor] = Sup
  BY DEF TreeType
<1>3. Ours' = {Anchor} /\ Anchor \in Children'
  BY <1>2 DEF Ours, Children
<1>4. [p \in Pid |-> 0] \in [Pid -> Nat]
  OBVIOUS
<1>5. TreeInv'
  BY <1>2, <1>3, <1>4 DEF TreeInv, ParentsRun, Acyclic
<1>6. CallType' /\ AttemptsLeft' /\ lib' = "idle"
  BY DEF call, CallType, AttemptsLeft
<1>7. SnapshotInv' /\ AnchorHeld' /\ DrainInv'
  BY <1>6 DEF SnapshotInv, AnchorHeld, DrainInv
<1> QED BY <1>1, <1>3, <1>5, <1>6, <1>7

LEMMA InitPromise ==
  ASSUME TreeInit
  PROVE  LibInv /\ lib = "idle" /\ \A p \in Pid : life[p] = "free"
<1>1. TreeType
  BY DEF TreeInit, TreeType, Life
<1>2. CallType /\ AttemptsLeft
  BY Attempts DEF TreeInit, CallType, AttemptsLeft, Draining
<1>3. Ours = {}
  BY DEF TreeInit, Ours
<1>4. [p \in Pid |-> 0] \in [Pid -> Nat]
  OBVIOUS
<1>5. TreeInv
  BY <1>3, <1>4 DEF TreeInv, ParentsRun, Acyclic
<1>6. SnapshotInv /\ AnchorHeld /\ DrainInv
  BY DEF TreeInit, SnapshotInv, AnchorHeld, DrainInv
<1> QED BY <1>1, <1>2, <1>5, <1>6 DEF LibInv, TreeInit

\* A step of a call: it stays within the call, keeps what the launcher has
\* seen of its anchor, and a drain that ends well with a dead anchor is final.
LEMMA LibraryPromise ==
  ASSUME LibInv, LibraryStep \/ SnapshotFails
  PROVE  /\ LibInv'
         /\ whole' = whole
         /\ \/ lib \in Draining /\ lib' \in Draining \cup {"ok", "fail"}
            \/ lib = "reap" /\ lib' \in {"reaped", "fail"}
         /\ lib' # "reaped" /\ life[Anchor] = "zombie" => life'[Anchor] = "zombie"
         /\ lib' = "ok" /\ life[Anchor] = "zombie" => Settled'
<1> DEFINE Promise == LibInv' /\ whole' = whole
           Within == \/ lib \in Draining /\ lib' \in Draining \cup {"ok", "fail"}
                     \/ lib = "reap" /\ lib' \in {"reaped", "fail"}
           Dead == lib' # "reaped" /\ life[Anchor] = "zombie" => life'[Anchor] = "zombie"
           Final == lib' = "ok" /\ life[Anchor] = "zombie" => Settled'
<1> SUFFICES Promise /\ Within /\ Dead /\ Final
  OBVIOUS
<1> HIDE DEF Promise, Within, Dead, Final
<1> TreeType /\ CallType /\ AttemptsLeft /\ TreeInv /\ SnapshotInv /\ AnchorHeld /\ DrainInv
  BY DEF LibInv
<1> USE PidAssumption
<1>1. CASE TakeSnapshot
  <2>1. /\ lib = "take" /\ lib' = "read" /\ whole' = whole /\ attempt' = attempt
        /\ seen' = [c \in Children |-> "unread"] /\ UNCHANGED kernel
    BY <1>1 DEF TakeSnapshot
  <2>2. TreeType' /\ TreeInv' /\ Children' = Children /\ life' = life
    BY <2>1, SameTree
  <2>3. CallType' /\ AttemptsLeft'
    BY <2>1 DEF CallType, AttemptsLeft, Children, Seen, Draining
  <2>4. SnapshotInv' /\ AnchorHeld' /\ DrainInv'
    BY <2>1, <2>2 DEF SnapshotInv, AnchorHeld, DrainInv
  <2> QED BY <2>1, <2>2, <2>3, <2>4 DEF LibInv, Promise, Within, Dead, Final, Draining
<1>2. ASSUME NEW c \in Pid, ReadState(c) PROVE Promise /\ Within /\ Dead /\ Final
  <2>1. /\ lib = "read" /\ lib' = "read" /\ whole' = whole /\ attempt' = attempt
        /\ UNCHANGED kernel /\ DOMAIN seen' = DOMAIN seen
        /\ \A x \in DOMAIN seen : seen'[x] = "exited" => seen[x] = "exited" \/ life[x] = "zombie"
    BY <1>2 DEF ReadState
  <2>2. TreeType' /\ TreeInv' /\ Children' = Children /\ life' = life
    BY <2>1, SameTree
  <2>3. CallType'
    BY <1>2 DEF ReadState, CallType, Seen
  <2>4. SnapshotInv' /\ AnchorHeld' /\ DrainInv' /\ AttemptsLeft'
    BY <2>1, <2>2 DEF SnapshotInv, AnchorHeld, DrainInv, AttemptsLeft, Draining
  <2> QED BY <2>1, <2>2, <2>3, <2>4 DEF LibInv, Promise, Within, Dead, Final, Draining
<1>3. ASSUME NEW c \in Pid, SignalChild(c) PROVE Promise /\ Within /\ Dead /\ Final
  <2>1. /\ lib = "read" /\ lib' = "read" /\ whole' = whole /\ attempt' = attempt
        /\ parent' = parent /\ DOMAIN seen' = DOMAIN seen
        /\ \A x \in DOMAIN seen : seen'[x] = "exited" => seen[x] = "exited"
    BY <1>3 DEF SignalChild, SnapshotRead
  <2>2. \A x \in Pid : \/ life'[x] = life[x]
                       \/ life[x] = "live" /\ life'[x] = "dying"
    BY <1>3 DEF SignalChild, TreeType
  <2>3. /\ Ours' = Ours /\ Children' = Children
        /\ \A x \in Pid : (life'[x] = "zombie" <=> life[x] = "zombie") /\ Running(x) = Running(x)'
    BY <2>1, <2>2 DEF Ours, Children, Running
  <2>4. TreeInv'
    BY <2>1, <2>3 DEF TreeInv, ParentsRun, Acyclic, Ours
  <2>5. TreeType' /\ CallType'
    BY <1>3 DEF SignalChild, TreeType, Life, CallType, Seen
  <2>6. SnapshotInv'
    BY <2>1, <2>3 DEF SnapshotInv, Children
  <2>7. AnchorHeld' /\ DrainInv' /\ AttemptsLeft'
    BY <2>1, <2>3 DEF AnchorHeld, DrainInv, AttemptsLeft, Draining
  <2> QED BY <2>1, <2>3, <2>4, <2>5, <2>6, <2>7
          DEF LibInv, Promise, Within, Dead, Final, Draining
<1>4. CASE AwaitExit \/ SnapshotFails \/ Sleep
  <2>1. /\ whole' = whole /\ UNCHANGED kernel /\ lib' \in {"take", "sleep", "fail"}
        /\ lib \in Draining \/ (lib = "reap" /\ lib' = "fail")
    BY <1>4 DEF AwaitExit, AllSignalled, SnapshotRead, SnapshotFails, Sleep, To, Draining
  <2>2. CallType' /\ AttemptsLeft'
    <3>1. CASE AwaitExit \/ SnapshotFails
      BY <3>1 DEF AwaitExit, AllSignalled, SnapshotRead, SnapshotFails, To, CallType,
         AttemptsLeft, Draining
    <3>2. CASE Sleep
      BY <3>2, Attempts DEF Sleep, CallType, AttemptsLeft, Draining
    <3> QED BY <1>4, <3>1, <3>2
  <2>3. TreeType' /\ TreeInv' /\ Children' = Children /\ life' = life
    BY <2>1, SameTree
  <2>4. SnapshotInv' /\ AnchorHeld' /\ DrainInv'
    BY <2>1, <2>3 DEF SnapshotInv, AnchorHeld, DrainInv, Draining
  <2> QED BY <2>1, <2>2, <2>3, <2>4 DEF LibInv, Promise, Within, Dead, Final, Draining
<1>5. CASE ReapZombies
  <2> DEFINE S == DOMAIN seen \ {Anchor}
  <2>1. /\ lib = "read" /\ lib' = "recheck" /\ whole' = whole /\ UNCHANGED <<attempt, seen>>
        /\ Anchor \in DOMAIN seen
        /\ \A x \in DOMAIN seen : seen[x] \in {"running", "exited"}
        /\ \A x \in DOMAIN seen : (x = Anchor /\ ~whole) \/ seen[x] = "exited"
    BY <1>5 DEF ReapZombies, AllSignalled, SnapshotRead, Targets, RelevantLive, To,
                CallType, Seen
  <2>2. \A x \in DOMAIN seen : x \in Children
    BY <2>1 DEF SnapshotInv
  <2>3. /\ \A x \in S : life[x] = "zombie"
        /\ whole => life[Anchor] = "zombie"
    BY <2>1 DEF SnapshotInv
  <2>4. S \in SUBSET Ours
    BY <2>2 DEF Children, Ours
  <2>5. /\ \A x \in Pid : life'[x] = IF x \in S THEN "free" ELSE life[x]
        /\ \A x \in Pid : parent'[x] = IF x \in S THEN None ELSE parent[x]
    BY <1>5 DEF ReapZombies
  <2>6. TreeInv'
    BY <2>3, <2>4, <2>5, ReapedTree
  <2>7. TreeType'
    BY <1>5 DEF ReapZombies, TreeType, Life
  <2>8. life'[Anchor] = life[Anchor] /\ Anchor \in Children'
    BY <2>1, <2>2, <2>5 DEF Children
  <2>9. SnapshotInv' /\ AnchorHeld' /\ DrainInv'
    BY <2>1, <2>3, <2>8 DEF SnapshotInv, AnchorHeld, DrainInv
  <2>10. CallType' /\ AttemptsLeft'
    BY <2>1 DEF CallType, AttemptsLeft, Draining
  <2> QED BY <2>1, <2>6, <2>7, <2>8, <2>9, <2>10
          DEF LibInv, Promise, Within, Dead, Final, Draining
<1>6. CASE Recheck
  <2>1. /\ lib = "recheck" /\ whole' = whole /\ seen' = seen /\ attempt' = attempt
        /\ UNCHANGED kernel /\ lib' \in {"fail", "sleep", "ok", "peek"}
        /\ lib' = "ok" => Children = {Anchor} /\ ~whole
        /\ lib' = "peek" => Children = {Anchor} /\ whole
    BY <1>6 DEF Recheck, To, CallType
  <2>2. /\ TreeType' /\ TreeInv' /\ Children' = Children /\ life' = life
        /\ Settled <=> Settled'
    BY <2>1, SameTree
  <2>3. lib' = "peek" => Settled
    BY <2>1, OnlyChildSettles DEF DrainInv
  <2>4. lib' = "ok" /\ life[Anchor] = "zombie" => Settled
    BY <2>1, OnlyChildSettles
  <2>5. CallType' /\ AttemptsLeft'
    BY <2>1 DEF CallType, AttemptsLeft, Draining
  <2>6. SnapshotInv' /\ AnchorHeld' /\ DrainInv'
    BY <2>1, <2>2, <2>3 DEF SnapshotInv, AnchorHeld, DrainInv
  <2> QED BY <2>1, <2>2, <2>4, <2>5, <2>6
          DEF LibInv, Promise, Within, Dead, Final, Draining
<1>7. CASE PeekAnchor
  <2>1. /\ lib = "peek" /\ whole' = whole /\ seen' = seen /\ attempt' = attempt
        /\ UNCHANGED kernel /\ lib' \in {"sleep", "ok"}
    BY <1>7 DEF PeekAnchor, To
  <2>2. /\ TreeType' /\ TreeInv' /\ Children' = Children /\ life' = life
        /\ Settled <=> Settled'
    BY <2>1, SameTree
  <2>3. CallType' /\ AttemptsLeft'
    BY <2>1 DEF CallType, AttemptsLeft, Draining
  <2>4. SnapshotInv' /\ AnchorHeld' /\ DrainInv'
    BY <2>1, <2>2 DEF SnapshotInv, AnchorHeld, DrainInv
  <2> QED BY <2>1, <2>2, <2>3, <2>4
          DEF LibInv, Promise, Within, Dead, Final, Draining, DrainInv
<1>8. CASE ReapAnchor
  <2>1. lib = "reap" /\ Settled /\ DOMAIN seen = {Anchor}
    BY <1>8 DEF ReapAnchor, DrainInv
  <2>2. /\ lib' = "reaped" /\ UNCHANGED <<whole, attempt, seen>>
        /\ life' = [life EXCEPT ![Anchor] = "free"]
        /\ parent' = [parent EXCEPT ![Anchor] = None]
    BY <1>8, <2>1 DEF ReapAnchor, To, Settled
  <2>3. /\ \A x \in Pid : life'[x] = IF x \in {Anchor} THEN "free" ELSE life[x]
        /\ \A x \in Pid : parent'[x] = IF x \in {Anchor} THEN None ELSE parent[x]
    BY <2>2 DEF TreeType
  <2>4. TreeInv' /\ Ours' = Ours \ {Anchor}
    BY <2>1, <2>3, ReapedTree DEF Settled
  <2>5. Ours' = {}
    BY <2>1, <2>4 DEF Settled
  <2>6. TreeType' /\ CallType' /\ AttemptsLeft'
    BY <2>2 DEF TreeType, Life, CallType, AttemptsLeft, Draining
  <2>7. SnapshotInv' /\ AnchorHeld' /\ DrainInv'
    BY <2>2, <2>5 DEF SnapshotInv, AnchorHeld, DrainInv
  <2> QED BY <2>1, <2>2, <2>4, <2>6, <2>7 DEF LibInv, Promise, Within, Dead, Final
<1> QED BY <1>1, <1>2, <1>3, <1>4, <1>5, <1>6, <1>7, <1>8 DEF LibraryStep, DrainStep

-----------------------------------------------------------------------------
(* How long a call can take                                                *)

\* Steps that a call has left, counted as if every child that was listed were
\* alive: whatever the tree does, the launcher is back after that many.
MaxAttempts == GracefulAttempts + ForceAttempts

Unread == {c \in DOMAIN seen : seen[c] = "unread"}
Alive == {c \in DOMAIN seen : seen[c] = "running"}

AttemptCost == 3 * Cardinality(Pid) + 6
CallBound == MaxAttempts * AttemptCost + 1

\* Steps left in the attempt that is being made.
AttemptLeft ==
  CASE lib = "take" -> 3 * Cardinality(Pid) + 5
    [] lib = "read" -> 2 * Cardinality(Unread) + Cardinality(Alive) + 4
    [] lib = "recheck" -> 3
    [] lib = "peek" -> 2
    [] lib = "sleep" -> 1

CallLeft ==
  IF lib \in Draining THEN (MaxAttempts - attempt - 1) * AttemptCost + AttemptLeft
  ELSE IF lib = "reap" THEN 1 ELSE 0

LEMMA Product ==
  ASSUME NEW m \in Nat, NEW k \in Nat
  PROVE  m * k \in Nat /\ (m + 1) * k = m * k + k
OBVIOUS

LEMMA Monotone ==
  ASSUME NEW m \in Nat, NEW n \in Nat, NEW k \in Nat, m <= n
  PROVE  m * k <= n * k
OBVIOUS

LEMMA CostIsNat ==
  ASSUME IsFiniteSet(Pid)
  PROVE  /\ Cardinality(Pid) \in Nat /\ AttemptCost \in Nat /\ MaxAttempts \in Nat
         /\ 0 < MaxAttempts
         /\ MaxAttempts * AttemptCost \in Nat
<1>1. Cardinality(Pid) \in Nat
  BY FS_CardinalityType
<1>2. AttemptCost \in Nat /\ MaxAttempts \in Nat /\ 0 < MaxAttempts
  BY <1>1, Attempts DEF AttemptCost, MaxAttempts
<1> QED BY <1>1, <1>2, Product

LEMMA SnapshotCounts ==
  ASSUME IsFiniteSet(Pid), CallType
  PROVE  /\ IsFiniteSet(Unread) /\ Cardinality(Unread) \in 0..Cardinality(Pid)
         /\ IsFiniteSet(Alive) /\ Cardinality(Alive) \in 0..Cardinality(Pid)
<1>1. Unread \subseteq Pid /\ Alive \subseteq Pid
  BY DEF CallType, Unread, Alive
<1> QED BY <1>1, FS_Subset, FS_CardinalityType, CostIsNat

\* The attempts that are left keep their cost while this one is made.
LEMMA AttemptsBase ==
  ASSUME IsFiniteSet(Pid), LibInv, lib \in Draining
  PROVE  /\ (MaxAttempts - attempt - 1) * AttemptCost \in Nat
         /\ (MaxAttempts - attempt - 1) * AttemptCost + AttemptCost
              <= MaxAttempts * AttemptCost
         /\ AttemptLeft \in 1..(AttemptCost - 1)
<1>1. attempt \in Nat /\ attempt < MaxAttempts
  BY Attempts DEF LibInv, CallType, AttemptsLeft, MaxAttempts
<1> DEFINE m == MaxAttempts - attempt - 1
<1>2. m \in Nat /\ m + 1 \in Nat /\ m + 1 <= MaxAttempts
  BY <1>1, CostIsNat
<1> HIDE DEF m
<1>3. /\ m * AttemptCost \in Nat
      /\ m * AttemptCost + AttemptCost <= MaxAttempts * AttemptCost
  BY <1>2, CostIsNat, Product, Monotone
<1>4. AttemptLeft \in 1..(AttemptCost - 1)
  BY SnapshotCounts, CostIsNat DEF LibInv, AttemptLeft, AttemptCost, Draining
<1> QED BY <1>3, <1>4 DEF m

LEMMA CallIsBounded ==
  ASSUME IsFiniteSet(Pid), LibInv
  PROVE  /\ CallBound \in Nat
         /\ CallLeft \in Nat /\ CallLeft < CallBound
         /\ lib \in Draining \cup {"reap"} => 0 < CallLeft
         /\ lib \notin Draining \cup {"reap"} => CallLeft = 0
<1>1. CallBound \in Nat /\ 1 < CallBound
  <2>1. AttemptCost \in Nat /\ 1 < AttemptCost /\ 1 \in Nat
    BY CostIsNat DEF AttemptCost
  <2>2. 1 * AttemptCost <= MaxAttempts * AttemptCost
    BY <2>1, CostIsNat, Monotone
  <2> QED BY <2>1, <2>2, CostIsNat DEF CallBound
<1>2. CASE lib \in Draining
  BY <1>1, <1>2, AttemptsBase, CostIsNat DEF CallLeft, CallBound
<1>3. CASE lib \notin Draining
  BY <1>1, <1>3 DEF CallLeft, Draining
<1> QED BY <1>1, <1>2, <1>3

\* Within an attempt the count goes down by what is left of it.
LEMMA SameAttempt ==
  ASSUME IsFiniteSet(Pid), LibInv, lib \in Draining, attempt' = attempt,
         lib' \in Draining, AttemptLeft' \in Nat, AttemptLeft' < AttemptLeft
  PROVE  CallLeft' < CallLeft
<1> PICK base \in Nat : base = (MaxAttempts - attempt - 1) * AttemptCost
  BY AttemptsBase
<1>1. AttemptLeft \in Nat
  BY AttemptsBase, CostIsNat
<1>2. CallLeft = base + AttemptLeft
  BY DEF CallLeft
<1>3. CallLeft' = base + AttemptLeft'
  BY DEF CallLeft, AttemptCost, MaxAttempts
<1> QED BY <1>1, <1>2, <1>3

\* The steps of a call count it down, whatever is read of the tree.
LEMMA CallCountsDown ==
  ASSUME IsFiniteSet(Pid), LibInv, LibraryStep \/ SnapshotFails
  PROVE  CallLeft' < CallLeft
<1> TreeType /\ CallType /\ AttemptsLeft /\ SnapshotInv
  BY DEF LibInv
<1>p. /\ LibInv'
      /\ \/ lib \in Draining /\ lib' \in Draining \cup {"ok", "fail"}
         \/ lib = "reap" /\ lib' \in {"reaped", "fail"}
  BY LibraryPromise
<1>q. lib' \notin Draining => CallLeft' < CallLeft
  BY <1>p, CallIsBounded DEF CallLeft, Draining
<1>c. /\ IsFiniteSet(Unread) /\ Cardinality(Unread) \in Nat
      /\ IsFiniteSet(Alive) /\ Cardinality(Alive) \in Nat
  BY SnapshotCounts, CostIsNat
<1>1. CASE TakeSnapshot
  <2>1. /\ lib = "take" /\ lib' = "read" /\ attempt' = attempt
        /\ seen' = [c \in Children |-> "unread"]
    BY <1>1 DEF TakeSnapshot
  <2>2. Unread' = Children /\ Alive' = {} /\ Children \subseteq Pid
    BY <2>1 DEF Unread, Alive, Children
  <2>3. Cardinality(Unread') <= Cardinality(Pid) /\ Cardinality(Alive') = 0
    BY <2>2, FS_Subset, FS_EmptySet
  <2>4. Cardinality(Unread') \in Nat
    BY <2>2, FS_Subset, FS_CardinalityType
  <2>5. AttemptLeft' \in Nat /\ AttemptLeft' < AttemptLeft
    BY <2>1, <2>3, <2>4, CostIsNat DEF AttemptLeft
  <2> QED BY <1>p, <2>1, <2>5, SameAttempt DEF Draining
<1>2. ASSUME NEW c \in Pid, ReadState(c) PROVE CallLeft' < CallLeft
  <2>1. /\ lib = "read" /\ lib' = "read" /\ attempt' = attempt
        /\ c \in DOMAIN seen /\ seen[c] = "unread"
        /\ DOMAIN seen' = DOMAIN seen
        /\ \A x \in DOMAIN seen \ {c} : seen'[x] = seen[x]
        /\ seen'[c] \in {"exited", "running"}
    BY <1>2 DEF ReadState
  <2>2. Unread' = Unread \ {c} /\ c \in Unread
    BY <2>1 DEF Unread
  <2>3. Alive' = Alive \/ Alive' = Alive \cup {c}
    BY <2>1 DEF Alive
  <2>4. Cardinality(Unread') = Cardinality(Unread) - 1
    BY <1>c, <2>2, FS_RemoveElement
  <2>5. Cardinality(Alive') \in Nat /\ Cardinality(Alive') <= Cardinality(Alive) + 1
    <3>1. /\ IsFiniteSet(Alive \cup {c})
          /\ Cardinality(Alive \cup {c})
               = IF c \in Alive THEN Cardinality(Alive) ELSE Cardinality(Alive) + 1
      BY <1>c, FS_AddElement
    <3>2. CASE Alive' = Alive
      BY <1>c, <3>2
    <3>3. CASE Alive' = Alive \cup {c}
      BY <1>c, <3>1, <3>3
    <3> QED BY <2>3, <3>2, <3>3
  <2>6. AttemptLeft' \in Nat /\ AttemptLeft' < AttemptLeft
    BY <1>c, <2>1, <2>4, <2>5 DEF AttemptLeft
  <2> QED BY <1>p, <2>1, <2>6, SameAttempt DEF Draining
<1>3. ASSUME NEW c \in Pid, SignalChild(c) PROVE CallLeft' < CallLeft
  <2>1. /\ lib = "read" /\ lib' = "read" /\ attempt' = attempt
        /\ c \in DOMAIN seen /\ seen[c] = "running"
        /\ DOMAIN seen' = DOMAIN seen
        /\ \A x \in DOMAIN seen \ {c} : seen'[x] = seen[x]
        /\ seen'[c] = "signalled"
    BY <1>3 DEF SignalChild, SnapshotRead, Targets
  <2>2. Unread' = Unread
    BY <2>1 DEF Unread
  <2>3. Alive' = Alive \ {c} /\ c \in Alive
    BY <2>1 DEF Alive
  <2>4. Cardinality(Alive') = Cardinality(Alive) - 1
    BY <1>c, <2>3, FS_RemoveElement
  <2>5. AttemptLeft' \in Nat /\ AttemptLeft' < AttemptLeft
    BY <1>c, <2>1, <2>2, <2>4 DEF AttemptLeft
  <2> QED BY <1>p, <2>1, <2>5, SameAttempt DEF Draining
<1>4. CASE AwaitExit \/ ReapZombies
  <2>1. lib = "read" /\ lib' \in {"sleep", "recheck", "fail"} /\ attempt' = attempt
    BY <1>4 DEF AwaitExit, ReapZombies, AllSignalled, SnapshotRead, To
  <2>2. CASE lib' # "fail"
    <3>1. AttemptLeft' \in Nat /\ AttemptLeft' < AttemptLeft
      BY <1>c, <2>1, <2>2 DEF AttemptLeft
    <3> QED BY <1>p, <2>1, <2>2, <3>1, SameAttempt DEF Draining
  <2> QED BY <1>q, <2>1, <2>2 DEF Draining
<1>5. CASE Recheck \/ PeekAnchor
  <2>1. /\ \/ lib = "recheck" /\ lib' \in {"peek", "sleep", "ok", "fail"}
           \/ lib = "peek" /\ lib' \in {"sleep", "ok"}
        /\ attempt' = attempt
    BY <1>5 DEF Recheck, PeekAnchor, To
  <2>2. CASE lib' \in {"peek", "sleep"}
    <3>1. AttemptLeft' \in Nat /\ AttemptLeft' < AttemptLeft
      BY <2>1, <2>2 DEF AttemptLeft
    <3> QED BY <1>p, <2>1, <2>2, <3>1, SameAttempt DEF Draining
  <2> QED BY <1>q, <2>1, <2>2 DEF Draining
<1>6. CASE Sleep
  <2>1. lib = "sleep" /\ attempt' = attempt + 1
    BY <1>6 DEF Sleep
  <2>2. CASE lib' = "take"
    <3> DEFINE m == MaxAttempts - attempt' - 1
    <3>1. attempt \in Nat /\ attempt' \in Nat /\ attempt' < MaxAttempts
      BY <1>p, <2>1, <2>2, Attempts DEF LibInv, CallType, AttemptsLeft, MaxAttempts,
         Draining
    <3>2. m \in Nat /\ MaxAttempts - attempt - 1 = m + 1
      BY <2>1, <3>1, CostIsNat
    <3>3. CallLeft = (m + 1) * AttemptCost + 1
      BY <2>1, <3>2 DEF CallLeft, AttemptLeft, Draining
    <3>4. CallLeft' = m * AttemptCost + (AttemptCost - 1)
      BY <2>2, CostIsNat DEF CallLeft, AttemptLeft, Draining, AttemptCost, MaxAttempts
    <3> HIDE DEF m
    <3> QED BY <3>2, <3>3, <3>4, CostIsNat, Product
  <2>3. CASE lib' # "take"
    BY <1>6, <1>q, <2>3 DEF Sleep, Draining
  <2> QED BY <2>2, <2>3
<1>7. CASE ReapAnchor \/ SnapshotFails
  BY <1>7, <1>p, <1>q DEF ReapAnchor, SnapshotFails, To, Draining
<1> QED BY <1>1, <1>2, <1>3, <1>4, <1>5, <1>6, <1>7 DEF LibraryStep, DrainStep

\* Nothing else does.
LEMMA CallUntouched ==
  ASSUME UNCHANGED call
  PROVE  CallLeft' = CallLeft
BY DEF call, CallLeft, AttemptLeft, AttemptCost, MaxAttempts, Unread, Alive

InBounds == CallBound \in Nat /\ CallLeft \in Nat /\ CallLeft < CallBound

\* What the launcher's own steps make of the count.
LEMMA CallSteps ==
  ASSUME IsFiniteSet(Pid), LibInv
  PROVE  /\ lib \in {"idle", "ok", "fail", "reaped"} => CallLeft = 0
         /\ StartReap => CallLeft' = 1
         /\ Return => CallLeft' = 0
         /\ LibraryStep \/ SnapshotFails => CallLeft' < CallLeft
         /\ KernelStep \/ UNCHANGED call => CallLeft' = CallLeft
<1>1. KernelStep => UNCHANGED call
  BY TreePromise
<1> QED BY <1>1, CallIsBounded, CallCountsDown, CallUntouched
        DEF StartReap, Return, CallLeft, Draining

-----------------------------------------------------------------------------
(* The display handoff                                                     *)

\* The handoff uses the same library, and supervises the same kind of tree.
LEMMA SameState ==
  /\ Handoff!Ours = Ours /\ (Handoff!Ours)' = Ours'
  /\ Handoff!Children = Children
  /\ (Handoff!TreeType <=> TreeType) /\ (Handoff!CallType <=> CallType)
  /\ UNCHANGED Handoff!kernel <=> UNCHANGED kernel
  /\ UNCHANGED Handoff!call <=> UNCHANGED call
BY DEF Handoff!Ours, Ours, Handoff!Children, Children, Handoff!TreeType, TreeType,
       Handoff!CallType, CallType, Handoff!Life, Life, Handoff!Seen, Seen,
       Handoff!kernel, kernel, Handoff!call, call

LEMMA SameCalls ==
  /\ Handoff!TreeInit => TreeInit
  /\ \A b \in BOOLEAN : Handoff!StartDrain(b) => StartDrain(b)
  /\ Handoff!StartReap => StartReap
  /\ Handoff!Return => Return
BY DEF Handoff!TreeInit, TreeInit, Handoff!StartDrain, StartDrain, Handoff!StartReap,
       StartReap, Handoff!Return, Return, Handoff!Children, Children

LEMMA SameKernel == Handoff!KernelStep => KernelStep
<1> USE DEF Handoff!Ours, Ours, Handoff!Running, Running, Handoff!call, call
<1>1. \A p, q \in Pid : Handoff!Fork(p, q) => Fork(p, q)
  BY DEF Handoff!Fork, Fork
<1>2. ASSUME NEW p \in Pid, NEW heir \in {Sup, parent[p]}, Handoff!Exit(p, heir)
      PROVE  Exit(p, heir)
  BY <1>2 DEF Handoff!Exit, Exit
<1>3. \A q \in Pid : (Handoff!Collect(q) => Collect(q)) /\ (Handoff!Reuse(q) => Reuse(q))
  BY DEF Handoff!Collect, Collect, Handoff!Reuse, Reuse
<1> QED BY <1>1, <1>2, <1>3 DEF Handoff!KernelStep, KernelStep

LEMMA SameLibrary ==
  /\ Handoff!LibraryStep => LibraryStep
  /\ Handoff!SnapshotFails => SnapshotFails
<1> USE DEF Handoff!kernel, kernel, Handoff!Children, Children, Handoff!To, To,
            Handoff!SnapshotRead, SnapshotRead, Handoff!Targets, Targets,
            Handoff!AllSignalled, AllSignalled, Handoff!RelevantLive, RelevantLive
<1>1. (Handoff!TakeSnapshot => TakeSnapshot) /\ (Handoff!SnapshotFails => SnapshotFails)
  BY DEF Handoff!TakeSnapshot, TakeSnapshot, Handoff!SnapshotFails, SnapshotFails
<1>2. \A c \in Pid : /\ Handoff!ReadState(c) => ReadState(c)
                     /\ Handoff!SignalChild(c) => SignalChild(c)
  BY DEF Handoff!ReadState, ReadState, Handoff!SignalChild, SignalChild
<1>3. (Handoff!AwaitExit => AwaitExit) /\ (Handoff!ReapZombies => ReapZombies)
  BY DEF Handoff!AwaitExit, AwaitExit, Handoff!ReapZombies, ReapZombies
<1>4. /\ Handoff!Recheck => Recheck
      /\ Handoff!PeekAnchor => PeekAnchor
      /\ Handoff!Sleep => Sleep
  BY DEF Handoff!Recheck, Recheck, Handoff!PeekAnchor, PeekAnchor, Handoff!Sleep, Sleep
<1>5. Handoff!ReapAnchor => ReapAnchor
  BY DEF Handoff!ReapAnchor, ReapAnchor
<1> QED BY <1>1, <1>2, <1>3, <1>4, <1>5 DEF Handoff!LibraryStep, LibraryStep,
        Handoff!DrainStep, DrainStep

\* Where the library can be while the launcher is at each of its places.
PlaceInv ==
  /\ pc \in {"ready", "forking", "peek", "adopted", "decide", "exit"} => lib = "idle"
  /\ pc \in {"escaped", "final"} => lib \in Draining \cup {"ok", "fail"}
  /\ pc = "reap" => lib \in {"reap", "reaped", "fail"}
  /\ pc \in {"ready", "forking"} => \A p \in Pid : life[p] = "free"

\* The anchor is there until it is reaped, and dead once it was seen dead: the
\* last drain may spare it then.
AnchorInv ==
  /\ pc \in {"ready", "forking"} => ~exited
  /\ pc \notin {"ready", "forking", "exit"} /\ lib # "reaped" =>
       Anchor \in Children /\ (exited => life[Anchor] = "zombie")
  /\ pc = "final" => (whole <=> ~exited)
  /\ lib = "ok" /\ exited => Settled

HandoffInv ==
  /\ LibInv
  /\ pc \in Handoff!PC /\ exited \in BOOLEAN /\ broken \in BOOLEAN /\ stop \in BOOLEAN
  /\ ret \in Handoff!Ret
  /\ PlaceInv /\ AnchorInv /\ CleanExit

LEMMA HandoffInit == Handoff!Init => HandoffInv
<1> SUFFICES ASSUME Handoff!Init PROVE HandoffInv
  OBVIOUS
<1>1. LibInv /\ lib = "idle" /\ \A p \in Pid : life[p] = "free"
  BY SameCalls, InitPromise DEF Handoff!Init
<1> QED BY <1>1 DEF Handoff!Init, HandoffInv, PlaceInv, AnchorInv, CleanExit, Handoff!PC,
           Handoff!Ret

LEMMA HandoffLibrary ==
  ASSUME HandoffInv, LibraryStep \/ SnapshotFails, UNCHANGED Handoff!own
  PROVE  HandoffInv'
<1> PlaceInv /\ AnchorInv /\ CleanExit /\ LibInv
  BY DEF HandoffInv
<1>1. /\ LibInv'
      /\ whole' = whole
      /\ \/ lib \in Draining /\ lib' \in Draining \cup {"ok", "fail"}
         \/ lib = "reap" /\ lib' \in {"reaped", "fail"}
      /\ lib' # "reaped" /\ life[Anchor] = "zombie" => life'[Anchor] = "zombie"
      /\ lib' = "ok" /\ life[Anchor] = "zombie" => Settled'
  BY LibraryPromise
<1>2. pc' = pc /\ exited' = exited /\ broken' = broken /\ stop' = stop /\ ret' = ret
  BY DEF Handoff!own
<1>3. pc \in {"escaped", "final", "reap"}
  BY <1>1 DEF HandoffInv, Handoff!PC, PlaceInv, Draining
<1>4. PlaceInv'
  BY <1>1, <1>2, <1>3 DEF PlaceInv, Draining
<1>5. AnchorInv'
  <2>1. lib' # "reaped" => Anchor \in Children'
    BY <1>1 DEF LibInv, AnchorHeld, Draining
  <2>2. lib # "reaped"
    BY <1>1 DEF Draining
  <2> QED BY <1>1, <1>2, <1>3, <2>1, <2>2 DEF AnchorInv
<1>6. CleanExit'
  BY <1>2, <1>3 DEF CleanExit
<1> QED BY <1>1, <1>2, <1>4, <1>5, <1>6 DEF HandoffInv

LEMMA HandoffTree ==
  ASSUME HandoffInv, Handoff!Tree
  PROVE  HandoffInv'
<1> PlaceInv /\ AnchorInv /\ CleanExit /\ LibInv
  BY DEF HandoffInv
<1>1. /\ LibInv' /\ UNCHANGED call /\ ChildrenKept
      /\ Settled /\ Anchor \in Children => Settled'
      /\ Ours = {} => Ours' = {}
  BY SameKernel, TreePromise DEF Handoff!Tree
<1>2. /\ lib' = lib /\ whole' = whole
      /\ pc' = pc /\ exited' = exited /\ broken' = broken /\ stop' = stop /\ ret' = ret
      /\ pc \notin {"ready", "forking", "exit"}
  BY <1>1 DEF Handoff!Tree, call, Handoff!own
<1>3. PlaceInv' /\ CleanExit'
  BY <1>1, <1>2 DEF PlaceInv, CleanExit
<1>4. AnchorInv'
  BY <1>1, <1>2 DEF AnchorInv, ChildrenKept
<1> QED BY <1>1, <1>2, <1>3, <1>4 DEF HandoffInv

LEMMA HandoffFork ==
  ASSUME HandoffInv, Handoff!ForkAnchor
  PROVE  HandoffInv'
<1>1. LibInv' /\ Anchor \in Children' /\ lib' = "idle"
  <2>1. /\ LibInv /\ lib = "idle" /\ UNCHANGED call
        /\ \A p \in Pid : life[p] = "free"
        /\ life' = [life EXCEPT ![Anchor] = "live"]
        /\ parent' = [parent EXCEPT ![Anchor] = Sup]
    BY SameState DEF HandoffInv, PlaceInv, Handoff!ForkAnchor
  <2> QED BY <2>1, ForkPromise
<1> QED BY <1>1 DEF HandoffInv, Handoff!ForkAnchor, Handoff!Go, PlaceInv, AnchorInv,
           CleanExit, Handoff!PC

\* The launcher's own steps that make no call.
LEMMA HandoffIdle ==
  ASSUME HandoffInv,
         \/ Handoff!DevicesReady \/ Handoff!DevicesMissing \/ Handoff!ForkFails
         \/ Handoff!StopSignal \/ Handoff!Peek \/ Handoff!LookFails
         \/ UNCHANGED Handoff!vars
  PROVE  HandoffInv'
<1> USE DEF Handoff!Go, Handoff!Leave, Handoff!PC, Handoff!Ret
<1> PlaceInv /\ AnchorInv /\ CleanExit /\ LibInv
  BY DEF HandoffInv
<1>1. UNCHANGED kernel /\ UNCHANGED call
  BY SameState DEF Handoff!DevicesReady, Handoff!DevicesMissing, Handoff!ForkFails,
     Handoff!StopSignal, Handoff!Peek, Handoff!LookFails, Handoff!vars
<1>2. /\ LibInv' /\ Ours' = Ours /\ Children' = Children /\ life' = life
      /\ Settled <=> Settled'
      /\ lib' = lib /\ whole' = whole
  BY <1>1, IdlePromise, SameTree DEF call
<1>3. CASE Handoff!DevicesReady \/ Handoff!DevicesMissing \/ Handoff!ForkFails
  BY <1>2, <1>3 DEF HandoffInv, Handoff!DevicesReady, Handoff!DevicesMissing,
     Handoff!ForkFails, PlaceInv, AnchorInv, CleanExit
<1>4. CASE Handoff!StopSignal
  BY <1>2, <1>4 DEF HandoffInv, Handoff!StopSignal, PlaceInv, AnchorInv, CleanExit
<1>5. CASE Handoff!Peek
  BY <1>2, <1>5 DEF HandoffInv, Handoff!Peek, PlaceInv, AnchorInv, CleanExit
<1>6. CASE Handoff!LookFails
  BY <1>2, <1>6 DEF HandoffInv, Handoff!LookFails, PlaceInv, AnchorInv, CleanExit
<1>7. CASE UNCHANGED Handoff!vars
  <2>1. pc' = pc /\ exited' = exited /\ broken' = broken /\ stop' = stop /\ ret' = ret
    BY <1>7 DEF Handoff!vars, Handoff!own
  <2>2. PlaceInv' /\ AnchorInv' /\ CleanExit'
    BY <1>2, <2>1 DEF PlaceInv, AnchorInv, CleanExit
  <2> QED BY <1>2, <2>1, <2>2 DEF HandoffInv
<1> QED BY <1>3, <1>4, <1>5, <1>6, <1>7

\* Its steps that call the library or take an answer.
LEMMA HandoffCalls ==
  ASSUME HandoffInv,
         \/ Handoff!LookForAdopted \/ Handoff!EscapedDrained \/ Handoff!Decide
         \/ Handoff!TreeDrained \/ Handoff!AnchorReaped
  PROVE  HandoffInv'
<1> USE DEF Handoff!Go, Handoff!Leave, Handoff!PC, Handoff!Ret, HandoffInv
<1> PlaceInv /\ AnchorInv /\ CleanExit /\ LibInv
  OBVIOUS
<1>1. UNCHANGED kernel
  BY SameState DEF Handoff!LookForAdopted, Handoff!EscapedDrained, Handoff!Decide,
     Handoff!TreeDrained, Handoff!AnchorReaped
<1>2. /\ Ours' = Ours /\ Children' = Children /\ life' = life
      /\ Settled <=> Settled'
  BY <1>1, SameTree
<1>3. CASE Handoff!LookForAdopted
  <2>1. LibInv'
    BY <1>1, <1>3, SameCalls, SameState, IdlePromise, StartDrainPromise
    DEF Handoff!LookForAdopted, AnchorInv, PlaceInv
  <2>2. \/ pc' = "escaped" /\ lib' = "take"
        \/ pc' = "decide" /\ lib' = "idle"
    BY <1>3, SameCalls, SameState DEF Handoff!LookForAdopted, StartDrain, call, PlaceInv
  <2>3. PlaceInv' /\ AnchorInv' /\ CleanExit'
    BY <1>2, <1>3, <2>2 DEF Handoff!LookForAdopted, PlaceInv, AnchorInv, CleanExit, Draining
  <2> QED BY <1>3, <2>1, <2>2, <2>3 DEF Handoff!LookForAdopted
<1>4. CASE Handoff!EscapedDrained
  <2>1. LibInv'
    BY <1>1, <1>4, SameCalls, ReturnPromise DEF Handoff!EscapedDrained
  <2> QED BY <1>2, <1>4, <2>1, SameCalls
          DEF Handoff!EscapedDrained, Return, PlaceInv, AnchorInv, CleanExit
<1>5. CASE Handoff!Decide
  <2>1. LibInv'
    BY <1>1, <1>5, SameCalls, SameState, IdlePromise, StartDrainPromise
    DEF Handoff!Decide, AnchorInv, PlaceInv
  <2>2. \/ pc' = "final" /\ lib' = "take" /\ whole' = ~exited
        \/ pc' = "peek" /\ lib' = "idle"
    BY <1>5, SameCalls, SameState DEF Handoff!Decide, StartDrain, call, PlaceInv
  <2>3. PlaceInv' /\ AnchorInv' /\ CleanExit'
    BY <1>2, <1>5, <2>2 DEF Handoff!Decide, PlaceInv, AnchorInv, CleanExit, Draining
  <2> QED BY <1>5, <2>1, <2>2, <2>3 DEF Handoff!Decide
<1>6. CASE Handoff!TreeDrained
  <2>1. CASE lib = "fail"
    <3>1. LibInv'
      BY <1>1, <1>6, <2>1, SameCalls, ReturnPromise DEF Handoff!TreeDrained
    <3> QED BY <1>2, <1>6, <2>1, <3>1, SameCalls
            DEF Handoff!TreeDrained, Return, PlaceInv, AnchorInv, CleanExit
  <2>2. CASE lib = "ok"
    <3>1. pc = "final" /\ pc' = "reap" /\ lib' = "reap" /\ exited' = exited
      BY <1>6, <2>2, SameCalls DEF Handoff!TreeDrained, StartReap
    <3>2. Settled /\ Anchor \in Children
      BY <2>2, <3>1 DEF AnchorInv, LibInv, DrainInv
    <3>3. LibInv'
      BY <1>1, <1>6, <2>2, <3>2, SameCalls, StartReapPromise DEF Handoff!TreeDrained
    <3> QED BY <1>2, <1>6, <2>2, <3>1, <3>2, <3>3
            DEF Handoff!TreeDrained, PlaceInv, AnchorInv, CleanExit
  <2> QED BY <1>6, <2>1, <2>2 DEF Handoff!TreeDrained
<1>7. CASE Handoff!AnchorReaped
  <2>1. LibInv'
    BY <1>1, <1>7, SameCalls, ReturnPromise DEF Handoff!AnchorReaped
  <2>2. ret' \in {"stopped", "status"} => Ours = {}
    BY <1>7 DEF Handoff!AnchorReaped, LibInv, DrainInv
  <2> QED BY <1>2, <1>7, <2>1, <2>2, SameCalls
          DEF Handoff!AnchorReaped, Return, PlaceInv, AnchorInv, CleanExit
<1> QED BY <1>3, <1>4, <1>5, <1>6, <1>7

LEMMA HandoffNext == HandoffInv /\ [Handoff!Next]_(Handoff!vars) => HandoffInv'
<1> SUFFICES ASSUME HandoffInv, [Handoff!Next]_(Handoff!vars) PROVE HandoffInv'
  OBVIOUS
<1>1. CASE Handoff!Tree
  BY <1>1, HandoffTree
<1>2. CASE Handoff!Library \/ Handoff!SnapshotError
  BY <1>2, SameLibrary, HandoffLibrary DEF Handoff!Library, Handoff!SnapshotError
<1>3. CASE Handoff!ForkAnchor
  BY <1>3, HandoffFork
<1>4. CASE \/ Handoff!DevicesReady \/ Handoff!DevicesMissing \/ Handoff!ForkFails
           \/ Handoff!StopSignal \/ Handoff!Peek \/ Handoff!LookFails
           \/ UNCHANGED Handoff!vars
  BY <1>4, HandoffIdle
<1>5. CASE \/ Handoff!LookForAdopted \/ Handoff!EscapedDrained \/ Handoff!Decide
           \/ Handoff!TreeDrained \/ Handoff!AnchorReaped
  BY <1>5, HandoffCalls
<1> QED BY <1>1, <1>2, <1>3, <1>4, <1>5 DEF Handoff!Next, Handoff!Supervise

LEMMA HandoffSafe == Handoff!Spec => []HandoffInv
BY HandoffInit, HandoffNext, PTL DEF Handoff!Spec

\* Every step of the launcher and of its tree keeps the state well-typed; the
\* attempts of a drain never exceed its policy.
THEOREM TypeCorrect == Handoff!Spec => []Handoff!TypeOK
<1>1. HandoffInv => Handoff!TypeOK
  BY SameState DEF HandoffInv, LibInv, Handoff!TypeOK
<1> QED BY <1>1, HandoffSafe, PTL

\* No signal goes to a PID that has been given to a stranger: whatever a drain
\* is about to signal has not been waited for since it was listed.
THEOREM NoStrangerSignalled == Handoff!Spec => []OnlyOwnSignalled
<1>1. HandoffInv => OnlyOwnSignalled
  BY DEF HandoffInv, LibInv, SnapshotInv, OnlyOwnSignalled, Targets
<1> QED BY <1>1, HandoffSafe, PTL

\* lmi_child_drain of the whole tree succeeds only when the dead anchor is all
\* that is left, however the processes fork, exit and are adopted meanwhile.
THEOREM DrainIsComplete == Handoff!Spec => []DrainedMeansEmpty
<1>1. HandoffInv => DrainedMeansEmpty
  BY DEF HandoffInv, LibInv, DrainInv, Settled, DrainedMeansEmpty
<1> QED BY <1>1, HandoffSafe, PTL

\* The last drain of wait_for_session leaves just what lmi_child_reap_anchor
\* accepts, also when it spared an anchor that had been seen dead.
THEOREM ReapNeverRefused == Handoff!Spec => []Handoff!ReapIsReady
<1>1. HandoffInv => Handoff!ReapIsReady
  BY SameState DEF HandoffInv, LibInv, DrainInv, Settled, Handoff!ReapIsReady
<1> QED BY <1>1, HandoffSafe, PTL

\* main returns success or the session's status only when no process that
\* descends from the launcher is left.
THEOREM NothingLeftBehind == Handoff!Spec => []CleanExit
<1>1. HandoffInv => CleanExit
  BY DEF HandoffInv
<1> QED BY <1>1, HandoffSafe, PTL

\* Steps the launcher has left once something has told it to end.
HandoffLeft ==
  CASE pc = "ready" -> 2 * CallBound + 9
    [] pc = "forking" -> 2 * CallBound + 8
    [] pc = "peek" -> 2 * CallBound + 7
    [] pc = "adopted" -> 2 * CallBound + 6
    [] pc = "escaped" -> CallBound + 5 + CallLeft
    [] pc = "decide" -> CallBound + 4
    [] pc = "final" -> 3 + CallLeft
    [] pc = "reap" -> 1 + CallLeft
    [] pc = "exit" -> 0

\* The launcher's steps, and the one with which it looks once more.
HandoffStep ==
  \/ Handoff!Supervise \/ Handoff!DevicesMissing \/ Handoff!ForkFails
  \/ Handoff!LookFails \/ Handoff!SnapshotError
HandoffGoesOn == pc = "decide" /\ pc' = "peek" /\ ~stop

HandoffCount ==
  IF HandoffStep THEN HandoffLeft' < HandoffLeft \/ HandoffGoesOn
  ELSE HandoffLeft' = HandoffLeft

LEMMA HandoffCounts ==
  ASSUME IsFiniteSet(Pid), HandoffInv, InBounds, InBounds', [Handoff!Next]_(Handoff!vars)
  PROVE  HandoffCount
<1> USE DEF Handoff!Go, Handoff!Leave
<1> PlaceInv /\ LibInv /\ CallBound \in Nat /\ CallLeft \in Nat /\ CallLeft' \in Nat
    /\ CallLeft' < CallBound
  BY DEF HandoffInv, InBounds, CallBound, MaxAttempts, AttemptCost
<1>b. CallBound' = CallBound
  BY DEF CallBound, MaxAttempts, AttemptCost
<1>1. CASE Handoff!DevicesReady \/ Handoff!DevicesMissing \/ Handoff!ForkAnchor \/ Handoff!ForkFails
  <2>1. \/ pc = "ready" /\ pc' \in {"forking", "exit"}
        \/ pc = "forking" /\ pc' \in {"peek", "exit"}
    BY <1>1 DEF Handoff!DevicesReady, Handoff!DevicesMissing, Handoff!ForkAnchor, Handoff!ForkFails
  <2>2. HandoffLeft' < HandoffLeft
    BY <1>b, <2>1 DEF HandoffLeft
  <2> QED BY <1>1, <2>2 DEF HandoffCount, HandoffStep, Handoff!Supervise
<1>2. CASE Handoff!Peek \/ Handoff!LookForAdopted \/ Handoff!LookFails
  <2>1. \/ pc = "peek" /\ pc' = "adopted"
        \/ pc = "adopted" /\ pc' \in {"escaped", "decide"}
    BY <1>2 DEF Handoff!Peek, Handoff!LookForAdopted, Handoff!LookFails
  <2>2. HandoffLeft' < HandoffLeft
    BY <1>b, <2>1 DEF HandoffLeft
  <2> QED BY <1>2, <2>2 DEF HandoffCount, HandoffStep, Handoff!Supervise
<1>3. CASE Handoff!EscapedDrained \/ Handoff!Decide
  <2>1. \/ pc = "escaped" /\ pc' = "decide"
        \/ pc = "decide" /\ pc' = "final"
        \/ HandoffGoesOn
    BY <1>3 DEF Handoff!EscapedDrained, Handoff!Decide, HandoffGoesOn, HandoffInv
  <2>2. HandoffLeft' < HandoffLeft \/ HandoffGoesOn
    BY <1>b, <2>1 DEF HandoffLeft
  <2> QED BY <1>3, <2>2 DEF HandoffCount, HandoffStep, Handoff!Supervise
<1>4. CASE Handoff!TreeDrained \/ Handoff!AnchorReaped
  <2>1. \/ pc = "final" /\ pc' = "reap" /\ CallLeft' = 1
        \/ pc \in {"final", "reap"} /\ pc' = "exit"
    BY <1>4, CallSteps, SameCalls DEF Handoff!TreeDrained, Handoff!AnchorReaped
  <2>2. HandoffLeft' < HandoffLeft
    BY <2>1 DEF HandoffLeft
  <2> QED BY <1>4, <2>2 DEF HandoffCount, HandoffStep, Handoff!Supervise
<1>5. CASE Handoff!Library \/ Handoff!SnapshotError
  <2>1. CallLeft' < CallLeft /\ pc' = pc
    BY <1>5, CallSteps, SameLibrary DEF Handoff!Library, Handoff!SnapshotError, Handoff!own
  <2>2. lib \in Draining \/ lib = "reap"
    BY <1>5, LibraryPromise, SameLibrary DEF Handoff!Library, Handoff!SnapshotError
  <2>3. pc \in {"escaped", "final", "reap"}
    BY <2>2 DEF HandoffInv, Handoff!PC, PlaceInv, Draining
  <2>4. HandoffLeft' < HandoffLeft
    BY <1>b, <2>1, <2>3 DEF HandoffLeft
  <2> QED BY <1>5, <2>4 DEF HandoffCount, HandoffStep, Handoff!Supervise
<1>6. CASE Handoff!Tree \/ Handoff!StopSignal \/ UNCHANGED Handoff!vars
  <2>1. CallLeft' = CallLeft /\ pc' = pc
    BY <1>6, CallSteps, SameKernel, SameState
    DEF Handoff!Tree, Handoff!StopSignal, Handoff!vars, Handoff!own
  <2>2. HandoffLeft' = HandoffLeft
    BY <1>b, <2>1 DEF HandoffLeft
  <2>3. CASE HandoffStep
    BY <1>1, <1>2, <1>3, <1>4, <1>5, <2>3 DEF HandoffStep, Handoff!Supervise
  <2> QED BY <2>2, <2>3 DEF HandoffCount
<1> QED BY <1>1, <1>2, <1>3, <1>4, <1>5, <1>6 DEF Handoff!Next, Handoff!Supervise

\* Every step of the launcher brings the end nearer but the one with which it
\* goes on supervising because nothing has asked for the end; nothing the tree
\* does, and no further signal, puts the end off.  A launcher that is told to
\* stop is therefore done within HandoffLeft steps of its own.
THEOREM LauncherCountsDown ==
  ASSUME IsFiniteSet(Pid)
  PROVE  Handoff!Spec => [](HandoffLeft \in Nat) /\ [][HandoffCount]_(Handoff!vars)
<1>1. HandoffInv => InBounds /\ HandoffLeft \in Nat
  <2> SUFFICES ASSUME HandoffInv PROVE InBounds /\ HandoffLeft \in Nat
    OBVIOUS
  <2>1. InBounds
    BY CallIsBounded DEF HandoffInv, InBounds
  <2> QED BY <2>1 DEF HandoffInv, Handoff!PC, HandoffLeft, InBounds
<1>2. HandoffInv /\ InBounds /\ InBounds' /\ [Handoff!Next]_(Handoff!vars)
        => [HandoffCount]_(Handoff!vars)
  BY HandoffCounts
<1> QED BY <1>1, <1>2, HandoffSafe, PTL DEF Handoff!Spec

-----------------------------------------------------------------------------
(* The terminal bridge                                                     *)

\* Where the library can be while the bridge is at each of its places; the tree
\* does not exist before the fork.
BridgePlaces ==
  /\ pc \in {"fork", "ready", "setup", "peek", "adopted", "signals", "copysize", "poll",
             "cleanup", "exit"} => lib = "idle"
  /\ pc \in {"escaped", "abort", "drain"} => lib \in Draining \cup {"ok", "fail"}
  /\ pc \in {"abort", "drain"} => whole
  /\ pc \in {"abortreap", "reap"} => lib \in {"reap", "reaped", "fail"}
  /\ pc = "fork" => \A p \in Pid : life[p] = "free"
  /\ pc \notin {"fork", "cleanup", "exit"} /\ lib # "reaped" => Anchor \in Children

\* What is promised has been done: a result other than failure waits in
\* cleanup for an empty tree, and only a bridge that goes on, or has cleanup
\* before it, has changed the terminal.
BridgeEnd ==
  /\ pc = "cleanup" /\ plan \in {"stopped", "status"} => Ours = {}
  /\ pc = "exit" /\ ret \in {"stopped", "status"} => Ours = {}
  /\ pc \in {"fork", "ready", "abort", "abortreap", "exit"} => termios = "original"

BridgeInv ==
  /\ LibInv
  /\ pc \in PC /\ plan \in Ret /\ ret \in Ret
  /\ stop \in BOOLEAN /\ resize \in BOOLEAN
  /\ termios \in {"original", "raw"}
  /\ BridgePlaces /\ BridgeEnd

LEMMA BridgeInit == Init => BridgeInv
<1> SUFFICES ASSUME Init PROVE BridgeInv
  OBVIOUS
<1>1. LibInv /\ lib = "idle" /\ \A p \in Pid : life[p] = "free"
  BY InitPromise DEF Init
<1> QED BY <1>1 DEF Init, BridgeInv, BridgePlaces, BridgeEnd, PC, Ret

LEMMA BridgeLibraryKeeps ==
  ASSUME BridgeInv, Library \/ SnapshotError
  PROVE  BridgeInv'
<1> BridgePlaces /\ BridgeEnd /\ LibInv
  BY DEF BridgeInv
<1>1. LibraryStep \/ SnapshotFails
  BY DEF Library, SnapshotError
<1>2. /\ LibInv'
      /\ whole' = whole
      /\ \/ lib \in Draining /\ lib' \in Draining \cup {"ok", "fail"}
         \/ lib = "reap" /\ lib' \in {"reaped", "fail"}
  BY <1>1, LibraryPromise
<1>3. /\ pc' = pc /\ plan' = plan /\ stop' = stop /\ resize' = resize /\ ret' = ret
      /\ termios' = termios
  BY DEF Library, SnapshotError, own
<1>4. pc \in {"escaped", "abort", "drain", "abortreap", "reap"}
  BY <1>2 DEF BridgeInv, PC, BridgePlaces, Draining
<1>5. lib' # "reaped" => Anchor \in Children'
  BY <1>2 DEF LibInv, AnchorHeld, Draining
<1>6. BridgePlaces' /\ BridgeEnd'
  BY <1>2, <1>3, <1>4, <1>5 DEF BridgePlaces, BridgeEnd, Draining
<1> QED BY <1>2, <1>3, <1>6 DEF BridgeInv

LEMMA BridgeTreeKeeps ==
  ASSUME BridgeInv, Tree
  PROVE  BridgeInv'
<1> BridgePlaces /\ BridgeEnd /\ LibInv
  BY DEF BridgeInv
<1>1. KernelStep
  BY DEF Tree
<1>2. /\ LibInv' /\ UNCHANGED call /\ ChildrenKept
      /\ Ours = {} => Ours' = {}
  BY <1>1, TreePromise
<1>3. /\ lib' = lib /\ whole' = whole
      /\ pc' = pc /\ plan' = plan /\ stop' = stop /\ resize' = resize /\ ret' = ret
      /\ termios' = termios /\ pc \notin {"fork", "exit"}
  BY <1>2 DEF Tree, call, own
<1>4. BridgePlaces' /\ BridgeEnd'
  BY <1>2, <1>3 DEF BridgePlaces, BridgeEnd, ChildrenKept
<1> QED BY <1>2, <1>3, <1>4 DEF BridgeInv

LEMMA BridgeFork ==
  ASSUME BridgeInv, ForkShell
  PROVE  BridgeInv'
<1>1. LibInv' /\ Anchor \in Children' /\ lib' = "idle"
  <2>1. /\ LibInv /\ lib = "idle" /\ UNCHANGED call
        /\ \A p \in Pid : life[p] = "free"
        /\ life' = [life EXCEPT ![Anchor] = "live"]
        /\ parent' = [parent EXCEPT ![Anchor] = Sup]
    BY DEF BridgeInv, BridgePlaces, ForkShell
  <2> QED BY <2>1, ForkPromise
<1> QED BY <1>1 DEF BridgeInv, ForkShell, BridgePlaces, BridgeEnd, PC

\* The steps between the calls, and what goes on around the bridge.
LEMMA BridgeIdle ==
  ASSUME BridgeInv,
         \/ SpawnFails \/ ShellReady \/ EnterRawMode
         \/ CopyWindowSize \/ Poll \/ Cleanup
         \/ StopSignal \/ WindowChanges \/ ShellWrites
         \/ UNCHANGED vars
  PROVE  BridgeInv'
<1> USE DEF Go, PC, Ret
<1> BridgePlaces /\ BridgeEnd /\ LibInv
  BY DEF BridgeInv
<1>1. UNCHANGED kernel /\ UNCHANGED call
  BY DEF SpawnFails, ShellReady, EnterRawMode, CopyWindowSize, Poll, Cleanup, StopSignal,
     WindowChanges, ShellWrites, vars
<1>2. /\ LibInv' /\ Ours' = Ours /\ Children' = Children /\ life' = life
      /\ lib' = lib /\ whole' = whole
  BY <1>1, IdlePromise, SameTree DEF call
<1>3. CASE SpawnFails
  BY <1>2, <1>3 DEF SpawnFails, BridgeInv, BridgePlaces, BridgeEnd
<1>4. CASE ShellReady
  BY <1>2, <1>4 DEF ShellReady, BridgeInv, BridgePlaces, BridgeEnd
<1>5. CASE EnterRawMode
  BY <1>2, <1>5 DEF EnterRawMode, BridgeInv, BridgePlaces, BridgeEnd
<1>6. CASE CopyWindowSize \/ Poll
  BY <1>2, <1>6 DEF CopyWindowSize, Poll, BridgeInv, BridgePlaces, BridgeEnd
<1>7. CASE Cleanup
  BY <1>2, <1>7 DEF Cleanup, BridgeInv, BridgePlaces, BridgeEnd
<1>8. ASSUME pc' = pc, plan' = plan, ret' = ret, termios' = termios,
             stop' \in BOOLEAN, resize' \in BOOLEAN
      PROVE  BridgeInv'
  <2>1. BridgePlaces' /\ BridgeEnd'
    BY <1>2, <1>8 DEF BridgePlaces, BridgeEnd
  <2> QED BY <1>2, <1>8, <2>1 DEF BridgeInv
<1>9. CASE StopSignal \/ WindowChanges \/ ShellWrites
  BY <1>8, <1>9 DEF StopSignal, WindowChanges, ShellWrites, BridgeInv
<1>10. CASE UNCHANGED vars
  BY <1>8, <1>10 DEF vars, own, BridgeInv
<1> QED BY <1>3, <1>4, <1>5, <1>6, <1>7, <1>9, <1>10

\* Whatever makes the bridge end: the drain of the whole tree begins.
LEMMA BridgeEnds ==
  ASSUME BridgeInv, Anchor \in Children, UNCHANGED kernel, StartDrain(TRUE),
         pc' = "drain", plan' \in Ret, ret' = ret, stop' = stop, resize' = resize,
         termios' \in {"original", "raw"}
  PROVE  BridgeInv'
<1>1. LibInv' /\ lib' = "take" /\ whole'
  BY StartDrainPromise DEF BridgeInv, StartDrain
<1>2. Children' = Children
  BY SameTree
<1>3. BridgePlaces' /\ BridgeEnd'
  BY <1>1, <1>2 DEF BridgePlaces, BridgeEnd, Draining
<1> QED BY <1>1, <1>3 DEF BridgeInv, PC

\* The steps that call lmi_child_drain.
LEMMA BridgeDrains ==
  ASSUME BridgeInv,
         \/ ShellNotReady \/ SetupFails \/ Peek \/ LookForAdopted
         \/ LookFails \/ EscapedDrained \/ CheckSignals
         \/ InputEnds \/ OutputEnds
  PROVE  BridgeInv'
<1> USE DEF Go, PC, Ret
<1> BridgePlaces /\ BridgeEnd /\ LibInv
  BY DEF BridgeInv
<1>0. /\ pc \notin {"fork", "cleanup", "exit", "abortreap", "reap"}
      /\ UNCHANGED kernel
  <2>1. UNCHANGED kernel
    BY DEF ShellNotReady, SetupFails, Peek, LookForAdopted,
       LookFails, EscapedDrained, CheckSignals, InputEnds,
       OutputEnds, DrainShell
  <2>2. pc \notin {"fork", "cleanup", "exit", "abortreap", "reap"}
    BY DEF ShellNotReady, SetupFails, Peek, LookForAdopted,
       LookFails, EscapedDrained, CheckSignals, InputEnds,
       OutputEnds
  <2> QED BY <2>1, <2>2
<1>1. Anchor \in Children
  BY <1>0 DEF BridgeInv, BridgePlaces, Draining
<1>2. /\ Ours' = Ours /\ Children' = Children /\ life' = life
      /\ UNCHANGED call => LibInv' /\ lib' = lib /\ whole' = whole
  BY <1>0, IdlePromise, SameTree DEF call
<1>3. ASSUME NEW r \in Ret, DrainShell(r) PROVE BridgeInv'
  <2>1. StartDrain(TRUE)
    BY <1>3 DEF DrainShell
  <2> QED BY <1>0, <1>1, <1>3, <2>1, BridgeEnds DEF BridgeInv, DrainShell
<1>4. CASE InputEnds \/ OutputEnds \/ LookFails
  BY <1>3, <1>4 DEF InputEnds, OutputEnds, LookFails
<1>5. CASE SetupFails
  <2>1. StartDrain(TRUE)
    BY <1>5 DEF SetupFails
  <2> QED BY <1>0, <1>1, <1>5, <2>1, BridgeEnds DEF BridgeInv, SetupFails
<1>6. CASE ShellNotReady
  <2>1. StartDrain(TRUE)
    BY <1>6 DEF ShellNotReady
  <2>2. LibInv' /\ lib' = "take" /\ whole'
    BY <1>0, <1>1, <2>1, StartDrainPromise DEF StartDrain
  <2> QED BY <1>1, <1>2, <1>6, <2>2
          DEF ShellNotReady, BridgeInv, BridgePlaces, BridgeEnd, Draining
<1>7. CASE Peek
  <2>1. CASE life[Anchor] = "zombie"
    BY <1>3, <1>7, <2>1 DEF Peek
  <2>2. CASE life[Anchor] # "zombie"
    <3>1. LibInv' /\ lib' = lib /\ whole' = whole
      BY <1>2, <1>7, <2>2 DEF Peek
    <3> QED BY <1>1, <1>2, <1>7, <2>2, <3>1
            DEF Peek, BridgeInv, BridgePlaces, BridgeEnd
  <2> QED BY <2>1, <2>2
<1>8. CASE LookForAdopted
  <2>1. \/ LibInv' /\ lib' = "take" /\ pc' = "escaped"
        \/ LibInv' /\ lib' = lib /\ pc' = "signals"
    <3>1. CASE Children # {Anchor}
      <4>1. StartDrain(FALSE) /\ pc' = "escaped"
        BY <1>8, <3>1 DEF LookForAdopted
      <4> QED BY <1>0, <1>1, <4>1, StartDrainPromise DEF StartDrain
    <3>2. CASE Children = {Anchor}
      BY <1>2, <1>8, <3>2 DEF LookForAdopted
    <3> QED BY <3>1, <3>2
  <2> QED BY <1>1, <1>2, <1>8, <2>1
          DEF LookForAdopted, BridgeInv, BridgePlaces, BridgeEnd, Draining
<1>9. CASE EscapedDrained
  <2>1. CASE lib = "ok"
    <3>1. LibInv' /\ lib' = "idle"
      BY <1>0, <1>9, <2>1, ReturnPromise DEF EscapedDrained, Return
    <3> QED BY <1>1, <1>2, <1>9, <2>1, <3>1
            DEF EscapedDrained, BridgeInv, BridgePlaces, BridgeEnd
  <2>2. CASE lib = "fail"
    BY <1>3, <1>9, <2>2 DEF EscapedDrained
  <2> QED BY <1>9, <2>1, <2>2 DEF EscapedDrained
<1>10. CASE CheckSignals
  <2>1. CASE stop
    BY <1>3, <1>10, <2>1 DEF CheckSignals
  <2>2. CASE ~stop
    <3>1. LibInv' /\ lib' = lib /\ whole' = whole
      BY <1>2, <1>10, <2>2 DEF CheckSignals
    <3> QED BY <1>1, <1>2, <1>10, <2>2, <3>1
            DEF CheckSignals, BridgeInv, BridgePlaces, BridgeEnd
  <2> QED BY <2>1, <2>2
<1> QED BY <1>4, <1>5, <1>6, <1>7, <1>8, <1>9, <1>10

\* The steps that take an answer of the last drain, or of the reaping.
LEMMA BridgeAnswers ==
  ASSUME BridgeInv,
         \/ AbortDrained \/ AbortReaped \/ ShellDrained
         \/ ShellReaped
  PROVE  BridgeInv'
<1> USE DEF PC, Ret
<1> BridgePlaces /\ BridgeEnd /\ LibInv
  BY DEF BridgeInv
<1>1. UNCHANGED kernel
  BY DEF AbortDrained, AbortReaped, ShellDrained, ShellReaped
<1>2. Ours' = Ours /\ Children' = Children
  BY <1>1, SameTree
<1>3. CASE AbortDrained \/ ShellDrained
  <2>1. CASE lib = "ok"
    <3>1. Settled /\ Anchor \in Children
      BY <1>3, <2>1 DEF AbortDrained, ShellDrained, BridgePlaces, LibInv,
         DrainInv
    <3>2. StartReap
      BY <1>3, <2>1 DEF AbortDrained, ShellDrained
    <3>3. LibInv' /\ lib' = "reap"
      BY <1>1, <3>1, <3>2, StartReapPromise DEF StartReap
    <3> QED BY <1>2, <1>3, <2>1, <3>1, <3>3 DEF AbortDrained, ShellDrained,
            BridgeInv, BridgePlaces, BridgeEnd
  <2>2. CASE lib = "fail"
    <3>1. Return
      BY <1>3, <2>2 DEF AbortDrained, ShellDrained
    <3>2. LibInv' /\ lib' = "idle"
      BY <1>1, <3>1, ReturnPromise DEF Return
    <3> QED BY <1>2, <1>3, <2>2, <3>2 DEF AbortDrained, ShellDrained,
            BridgeInv, BridgePlaces, BridgeEnd
  <2> QED BY <1>3, <2>1, <2>2 DEF AbortDrained, ShellDrained
<1>4. CASE AbortReaped \/ ShellReaped
  <2>1. Return
    BY <1>4 DEF AbortReaped, ShellReaped
  <2>2. LibInv' /\ lib' = "idle"
    BY <1>1, <2>1, ReturnPromise DEF Return
  <2>3. lib = "reaped" => Ours = {}
    BY DEF LibInv, DrainInv
  <2> QED BY <1>2, <1>4, <2>2, <2>3 DEF AbortReaped, ShellReaped,
          BridgeInv, BridgePlaces, BridgeEnd
<1> QED BY <1>3, <1>4

LEMMA BridgeNext == BridgeInv /\ [Next]_vars => BridgeInv'
<1> SUFFICES ASSUME BridgeInv, [Next]_vars PROVE BridgeInv'
  OBVIOUS
<1>1. CASE Tree
  BY <1>1, BridgeTreeKeeps
<1>2. CASE Library \/ SnapshotError
  BY <1>2, BridgeLibraryKeeps
<1>3. CASE ForkShell
  BY <1>3, BridgeFork
<1>4. CASE \/ SpawnFails \/ ShellReady \/ EnterRawMode
           \/ CopyWindowSize \/ Poll \/ Cleanup
           \/ StopSignal \/ WindowChanges \/ ShellWrites
           \/ UNCHANGED vars
  BY <1>4, BridgeIdle
<1>5. CASE \/ ShellNotReady \/ SetupFails \/ Peek
           \/ LookForAdopted \/ LookFails \/ EscapedDrained
           \/ CheckSignals \/ InputEnds \/ OutputEnds
  BY <1>5, BridgeDrains
<1>6. CASE \/ AbortDrained \/ AbortReaped \/ ShellDrained
           \/ ShellReaped
  BY <1>6, BridgeAnswers
<1> QED BY <1>1, <1>2, <1>3, <1>4, <1>5, <1>6 DEF Next, Bridge, Mishap

LEMMA BridgeSafe == Spec => []BridgeInv
BY BridgeInit, BridgeNext, PTL DEF Spec

\* However the bridge ends, its terminal has its settings back; and when it
\* says that it was stopped, or passes on the shell's status, no process of the
\* terminal is left.
THEOREM TerminalLeftClean == Spec => []NothingLeft
<1>1. BridgeInv => NothingLeft
  BY DEF BridgeInv, BridgeEnd, NothingLeft, CleanExit, TermiosRestored
<1> QED BY <1>1, BridgeSafe, PTL

\* The counts that are bounded only to keep the model small.
BridgeCounts ==
  size \in 0..MaxResizes /\ ptysize \in 0..MaxResizes /\ pending \in 0..MaxPending

LEMMA BridgeCountsKept == Spec => []BridgeCounts
<1>0. MaxPending \in Nat /\ MaxResizes \in Nat
  BY BufferAssumption DEF BufferAssumption
<1>1. Init => BridgeCounts
  BY <1>0 DEF Init, BridgeCounts
<1>2. BridgeCounts /\ [Next]_vars => BridgeCounts'
  <2> SUFFICES ASSUME BridgeCounts, [Next]_vars PROVE BridgeCounts'
    OBVIOUS
  <2>1. /\ size' = size \/ (size < MaxResizes /\ size' = size + 1)
        /\ ptysize' = ptysize \/ ptysize' = size
        /\ \/ pending' = pending
           \/ pending < MaxPending /\ pending' = pending + 1
           \/ pending > 0 /\ pending' = pending - 1
           \/ pending' = 0
    BY DEF Next, Bridge, Mishap, ForkShell, ShellReady,
       AbortDrained, AbortReaped, EnterRawMode, Peek,
       LookForAdopted, EscapedDrained, CheckSignals,
       CopyWindowSize, Poll, ShellDrained, ShellReaped,
       Cleanup, Library, SpawnFails, ShellNotReady,
       SetupFails, LookFails, InputEnds, OutputEnds,
       SnapshotError, Tree, StopSignal, WindowChanges,
       ShellWrites, DrainShell, Go, own, vars
  <2> QED BY <1>0, <2>1 DEF BridgeCounts
<1> QED BY <1>1, <1>2, PTL DEF Spec

\* Every step of the bridge, its shell and its window keeps the state
\* well-typed; the attempts of a drain never exceed its policy.
THEOREM BridgeTypeCorrect == Spec => []TypeOK
<1>1. BridgeInv /\ BridgeCounts => TypeOK
  BY DEF BridgeInv, LibInv, BridgeCounts, TypeOK
<1> QED BY <1>1, BridgeSafe, BridgeCountsKept, PTL

\* Nor does the bridge signal a stranger, whichever of its three drains it is
\* in: the one of escaped processes may be repeated as long as the shell runs.
THEOREM BridgeSignalsItsOwn == Spec => []OnlyOwnSignalled
<1>1. BridgeInv => OnlyOwnSignalled
  BY DEF BridgeInv, LibInv, SnapshotInv, OnlyOwnSignalled, Targets
<1> QED BY <1>1, BridgeSafe, PTL

\* A drain of the shell's whole tree that succeeds has emptied it, and what is
\* left is what lmi_child_reap_anchor accepts.
THEOREM BridgeDrainIsComplete ==
  Spec => [](DrainedMeansEmpty /\ (lib = "reap" => Settled))
<1>1. BridgeInv => DrainedMeansEmpty /\ (lib = "reap" => Settled)
  BY DEF BridgeInv, LibInv, DrainInv, Settled, DrainedMeansEmpty
<1> QED BY <1>1, BridgeSafe, PTL

\* Steps the bridge has left once something has told it to end.
BridgeLeft ==
  CASE pc = "fork" -> 2 * CallBound + 12
    [] pc = "ready" -> 2 * CallBound + 11
    [] pc = "setup" -> 2 * CallBound + 10
    [] pc = "copysize" -> 2 * CallBound + 9
    [] pc = "poll" -> 2 * CallBound + 8
    [] pc = "peek" -> 2 * CallBound + 7
    [] pc = "adopted" -> 2 * CallBound + 6
    [] pc = "escaped" -> CallBound + 5 + CallLeft
    [] pc = "signals" -> CallBound + 4
    [] pc \in {"abort", "drain"} -> 4 + CallLeft
    [] pc \in {"abortreap", "reap"} -> 2 + CallLeft
    [] pc = "cleanup" -> 1
    [] pc = "exit" -> 0

\* The bridge's steps, and the ones with which it goes on copying.
BridgeStep == Bridge \/ Mishap
BridgeGoesOn == pc = "signals" /\ pc' \in {"copysize", "poll"} /\ ~stop

BridgeCount ==
  IF BridgeStep THEN BridgeLeft' < BridgeLeft \/ BridgeGoesOn
  ELSE BridgeLeft' = BridgeLeft

LEMMA BridgeCountSteps ==
  ASSUME IsFiniteSet(Pid), BridgeInv, InBounds, InBounds', [Next]_vars
  PROVE  BridgeCount
<1> USE DEF Go
<1> BridgePlaces /\ LibInv /\ CallBound \in Nat /\ CallLeft \in Nat /\ CallLeft' \in Nat
    /\ CallLeft' < CallBound
  BY DEF BridgeInv, InBounds, CallBound, MaxAttempts, AttemptCost
<1>b. CallBound' = CallBound
  BY DEF CallBound, MaxAttempts, AttemptCost
<1>1. CASE \/ ForkShell \/ SpawnFails \/ ShellReady
           \/ ShellNotReady \/ EnterRawMode \/ SetupFails
  <2>1. \/ pc = "fork" /\ pc' \in {"ready", "exit"}
        \/ pc = "ready" /\ pc' \in {"setup", "abort"}
        \/ pc = "setup" /\ pc' \in {"peek", "drain"}
    BY <1>1 DEF ForkShell, SpawnFails, ShellReady,
       ShellNotReady, EnterRawMode, SetupFails
  <2>2. BridgeLeft' < BridgeLeft
    BY <1>b, <2>1 DEF BridgeLeft
  <2> QED BY <1>1, <2>2 DEF BridgeCount, BridgeStep, Bridge, Mishap
<1>2. CASE \/ CopyWindowSize \/ Poll \/ InputEnds \/ OutputEnds
           \/ Peek \/ LookForAdopted \/ LookFails
  <2>1. \/ pc = "copysize" /\ pc' = "poll"
        \/ pc = "poll" /\ pc' \in {"peek", "drain"}
        \/ pc = "peek" /\ pc' \in {"adopted", "drain"}
        \/ pc = "adopted" /\ pc' \in {"escaped", "signals", "drain"}
    BY <1>2 DEF CopyWindowSize, Poll, InputEnds, OutputEnds,
       Peek, LookForAdopted, LookFails, DrainShell
  <2>2. BridgeLeft' < BridgeLeft
    BY <1>b, <2>1 DEF BridgeLeft
  <2> QED BY <1>2, <2>2 DEF BridgeCount, BridgeStep, Bridge, Mishap
<1>3. CASE EscapedDrained \/ CheckSignals
  <2>1. \/ pc = "escaped" /\ pc' \in {"signals", "drain"}
        \/ pc = "signals" /\ pc' = "drain"
        \/ BridgeGoesOn
    BY <1>3 DEF EscapedDrained, CheckSignals, DrainShell, BridgeGoesOn
  <2>2. BridgeLeft' < BridgeLeft \/ BridgeGoesOn
    BY <1>b, <2>1 DEF BridgeLeft
  <2> QED BY <1>3, <2>2 DEF BridgeCount, BridgeStep, Bridge, Mishap
<1>4. CASE \/ AbortDrained \/ ShellDrained \/ AbortReaped
           \/ ShellReaped \/ Cleanup
  <2>1. \/ /\ pc \in {"abort", "drain"} /\ pc' \in {"abortreap", "reap"}
           /\ CallLeft' = 1
        \/ pc \in {"abort", "drain", "abortreap", "reap"} /\ pc' \in {"cleanup", "exit"}
        \/ pc = "cleanup" /\ pc' = "exit"
    BY <1>4, CallSteps DEF AbortDrained, ShellDrained,
       AbortReaped, ShellReaped, Cleanup
  <2>2. BridgeLeft' < BridgeLeft
    BY <2>1 DEF BridgeLeft
  <2> QED BY <1>4, <2>2 DEF BridgeCount, BridgeStep, Bridge, Mishap
<1>5. CASE Library \/ SnapshotError
  <2>1. CallLeft' < CallLeft /\ pc' = pc
    BY <1>5, CallSteps DEF Library, SnapshotError, own
  <2>2. lib \in Draining \/ lib = "reap"
    BY <1>5, LibraryPromise DEF Library, SnapshotError
  <2>3. pc \in {"escaped", "abort", "drain", "abortreap", "reap"}
    BY <2>2 DEF BridgeInv, PC, BridgePlaces, Draining
  <2>4. BridgeLeft' < BridgeLeft
    BY <1>b, <2>1, <2>3 DEF BridgeLeft
  <2> QED BY <1>5, <2>4 DEF BridgeCount, BridgeStep, Bridge, Mishap
<1>6. CASE \/ Tree \/ StopSignal \/ WindowChanges
           \/ ShellWrites \/ UNCHANGED vars
  <2>1. CallLeft' = CallLeft /\ pc' = pc
    BY <1>6, CallSteps DEF Tree, StopSignal,
       WindowChanges, ShellWrites, vars, own
  <2>2. BridgeLeft' = BridgeLeft
    BY <1>b, <2>1 DEF BridgeLeft
  <2>3. CASE BridgeStep
    BY <1>1, <1>2, <1>3, <1>4, <1>5, <2>3 DEF BridgeStep, Bridge, Mishap
  <2> QED BY <2>2, <2>3 DEF BridgeCount
<1> QED BY <1>1, <1>2, <1>3, <1>4, <1>5, <1>6 DEF Next, Bridge, Mishap

\* Every step of the bridge brings its end nearer but the one with which it
\* goes on copying because no stop is requested; neither the shell's processes
\* nor its output, the window or further signals put the end off.
THEOREM BridgeCountsDown ==
  ASSUME IsFiniteSet(Pid)
  PROVE  Spec => [](BridgeLeft \in Nat) /\ [][BridgeCount]_vars
<1>1. BridgeInv => InBounds /\ BridgeLeft \in Nat
  <2> SUFFICES ASSUME BridgeInv PROVE InBounds /\ BridgeLeft \in Nat
    OBVIOUS
  <2>1. InBounds
    BY CallIsBounded DEF BridgeInv, InBounds
  <2> QED BY <2>1 DEF BridgeInv, PC, BridgeLeft, InBounds
<1>2. /\ BridgeInv /\ InBounds /\ InBounds' /\ [Next]_vars
      => [BridgeCount]_vars
  BY BridgeCountSteps
<1> QED BY <1>1, <1>2, BridgeSafe, PTL DEF Spec

\* A change of the window that the PTY has not been told is still flagged, or
\* is about to be copied: the flag is cleared before the size is read.
NoResizeLost == size # ptysize => resize \/ pc = "copysize"

\* However a change falls between the test of the flag, its clearing and the
\* copying, it is not forgotten.
THEOREM ResizeRemembered == Spec => []NoResizeLost
<1>1. Init => NoResizeLost
  BY DEF Init, NoResizeLost
<1>2. BridgeInv /\ NoResizeLost /\ [Next]_vars => NoResizeLost'
  <2> SUFFICES ASSUME BridgeInv, NoResizeLost, [Next]_vars
               PROVE  NoResizeLost'
    OBVIOUS
  <2> resize \in BOOLEAN
    BY DEF BridgeInv
  <2>1. CASE \/ ForkShell \/ WindowChanges \/ CopyWindowSize
             \/ CheckSignals
    <3>1. CASE ForkShell \/ CopyWindowSize
      BY <3>1 DEF ForkShell, CopyWindowSize, NoResizeLost
    <3>2. CASE WindowChanges
      BY <3>2 DEF WindowChanges, NoResizeLost
    <3>3. CASE CheckSignals
      <4>1. size' = size /\ ptysize' = ptysize
        BY <3>3 DEF CheckSignals, DrainShell
      <4>2. (resize' <=> resize) \/ (resize => pc' = "copysize")
        BY <3>3 DEF CheckSignals, DrainShell
      <4> QED BY <3>3, <4>1, <4>2 DEF NoResizeLost, CheckSignals
    <3> QED BY <2>1, <3>1, <3>2, <3>3
  <2>2. CASE ~ (\/ ForkShell \/ WindowChanges \/ CopyWindowSize
                \/ CheckSignals)
    <3>1. size' = size /\ ptysize' = ptysize /\ resize' = resize
      BY <2>2 DEF Next, Bridge, Mishap, ShellReady,
         AbortDrained, AbortReaped, EnterRawMode, Peek,
         LookForAdopted, EscapedDrained, Poll, ShellDrained,
         ShellReaped, Cleanup, Library, SpawnFails,
         ShellNotReady, SetupFails, LookFails, InputEnds,
         OutputEnds, SnapshotError, Tree, StopSignal,
         ShellWrites, DrainShell, Go, own, vars
    <3>2. pc # "copysize" \/ pc' = pc
      BY <2>2 DEF Next, Bridge, Mishap, ShellReady,
         AbortDrained, AbortReaped, EnterRawMode, Peek,
         LookForAdopted, EscapedDrained, Poll, ShellDrained,
         ShellReaped, Cleanup, Library, SpawnFails,
         ShellNotReady, SetupFails, LookFails, InputEnds,
         OutputEnds, SnapshotError, Tree, StopSignal,
         ShellWrites, DrainShell, Go, own, vars
    <3> QED BY <3>1, <3>2 DEF NoResizeLost
  <2> QED BY <2>1, <2>2
<1> QED BY <1>1, <1>2, BridgeSafe, PTL DEF Spec
=============================================================================
