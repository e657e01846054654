--------------------------- MODULE ChildSupervisor ---------------------------
(***************************************************************************)
(* files/lmi-p2/lmi-child-supervisor.c: how a launcher owns the processes  *)
(* it has started on a kernel without pidfds.  The launcher is a child     *)
(* subreaper: a process whose parent dies becomes its child.  Exited       *)
(* children stay zombies, which pins their PIDs, until the launcher waits  *)
(* for them; the anchor, the child it has forked itself, comes last.       *)
(*                                                                         *)
(* The module has the process tree as the kernel keeps it and the library  *)
(* calls; DisplayHandoff and TerminalBridge are the programs that make     *)
(* them.  Processes fork, exit and collect their own children at any time, *)
(* also between the steps of a call, and a PID that has become free may be *)
(* given to a process that has nothing to do with the launcher.            *)
(*                                                                         *)
(* /proc/self/task/<pid>/children is read in one step: new children are    *)
(* added at its end and only the launcher removes one, so the list is the  *)
(* one that holds when its end is reached.  The states of the children are *)
(* read one by one after that.                                             *)
(***************************************************************************)
EXTENDS Naturals, FiniteSets

CONSTANTS
  Pid,               \* PIDs that the processes of interest may have
  Anchor,            \* the PID of the child the launcher forks
  Sup,               \* the launcher
  Other,             \* any process outside the launcher's tree
  None,
  GracefulAttempts,  \* policy->graceful_attempts
  ForceAttempts      \* policy->force_attempts

ASSUME PidAssumption ==
  /\ Anchor \in Pid
  /\ {Sup, Other, None} \cap Pid = {}
  /\ Sup # Other /\ Sup # None /\ Other # None
  /\ {GracefulAttempts, ForceAttempts} \subseteq Nat \ {0}

VARIABLES
  life,     \* what each PID stands for
  parent,   \* the parent of the process that has the PID
  lib,      \* where the call of lmi_child_drain is
  whole,    \* its policy->signal_anchor
  attempt,  \* attempts it has made, graceful ones first
  seen,     \* its snapshot: each child listed, and the state read of it
  pc,       \* where main of the program is that uses the library
  ret       \* what it returns

kernel == <<life, parent>>
call == <<lib, whole, attempt, seen>>

Life == {"free", "live", "dying", "zombie"}
Seen == {"unread", "running", "exited", "signalled"}

Running(p) == life[p] \in {"live", "dying"}
Ours == {p \in Pid : life[p] # "free" /\ parent[p] # Other}
Children == {p \in Pid : life[p] # "free" /\ parent[p] = Sup}

TreeInit ==
  /\ life = [p \in Pid |-> "free"]
  /\ parent = [p \in Pid |-> None]
  /\ lib = "idle"
  /\ whole = FALSE
  /\ attempt = 0
  /\ seen = [p \in {} |-> "unread"]

-----------------------------------------------------------------------------
(* The kernel and the processes of the tree.                               *)

Fork(p, q) ==
  /\ p \in Ours /\ life[p] = "live"
  /\ life[q] = "free"
  /\ life' = [life EXCEPT ![q] = "live"]
  /\ parent' = [parent EXCEPT ![q] = p]
  /\ UNCHANGED call

\* A process exits.  Its children go to the launcher, or to its own parent if
\* that is a subreaper too, as the terminal bridge is in the display's tree.
Exit(p, heir) ==
  /\ p \in Ours /\ Running(p)
  /\ heir \in {Sup, parent[p]}
  /\ life' = [life EXCEPT ![p] = "zombie"]
  /\ parent' = [q \in Pid |-> IF parent[q] = p THEN heir ELSE parent[q]]
  /\ UNCHANGED call

\* A process other than the launcher waits for its child.
Collect(q) ==
  /\ q \in Ours /\ life[q] = "zombie"
  /\ parent[q] \in Pid /\ life[parent[q]] = "live"
  /\ life' = [life EXCEPT ![q] = "free"]
  /\ parent' = [parent EXCEPT ![q] = None]
  /\ UNCHANGED call

\* A free PID is given to an unrelated process, which may end again.
Reuse(q) ==
  /\ \/ /\ life[q] = "free"
        /\ life' = [life EXCEPT ![q] = "live"]
        /\ parent' = [parent EXCEPT ![q] = Other]
     \/ /\ parent[q] = Other
        /\ life' = [life EXCEPT ![q] = "free"]
        /\ parent' = [parent EXCEPT ![q] = None]
  /\ UNCHANGED call

KernelStep ==
  \/ \E p, q \in Pid : Fork(p, q)
  \/ \E p \in Pid : \E heir \in {Sup, parent[p]} : Exit(p, heir)
  \/ \E q \in Pid : Collect(q) \/ Reuse(q)

-----------------------------------------------------------------------------
(* lmi_child_drain                                                         *)

StartDrain(signal_anchor) ==
  /\ lib' = "take"
  /\ whole' = signal_anchor
  /\ attempt' = 0
  /\ UNCHANGED seen

To(next) == lib' = next /\ UNCHANGED <<whole, attempt, seen>>

\* snapshot_take: the list.
TakeSnapshot ==
  /\ lib = "take"
  /\ lib' = "read"
  /\ seen' = [c \in Children |-> "unread"]
  /\ UNCHANGED <<kernel, whole, attempt>>

\* snapshot_take: read_child_state.
ReadState(c) ==
  /\ lib = "read"
  /\ c \in DOMAIN seen /\ seen[c] = "unread"
  /\ seen' = [seen EXCEPT ![c] = IF life[c] = "zombie" THEN "exited" ELSE "running"]
  /\ UNCHANGED <<kernel, lib, whole, attempt>>

\* snapshot_take: /proc cannot be read, or there is no memory.
SnapshotFails ==
  /\ \/ lib \in {"take", "recheck", "reap"}
     \/ lib = "read" /\ \E c \in DOMAIN seen : seen[c] = "unread"
  /\ To("fail")
  /\ UNCHANGED kernel

SnapshotRead == lib = "read" /\ \A c \in DOMAIN seen : seen[c] # "unread"

Targets == {c \in DOMAIN seen : seen[c] = "running" /\ (c # Anchor \/ whole)}

\* A graceful signal is heeded, late, or not at all: the process may exit at
\* any time.  A process that has been killed does nothing but exit.
SignalChild(c) ==
  /\ SnapshotRead
  /\ c \in Targets
  /\ seen' = [seen EXCEPT ![c] = "signalled"]
  /\ life' = IF attempt >= GracefulAttempts /\ life[c] = "live"
             THEN [life EXCEPT ![c] = "dying"] ELSE life
  /\ UNCHANGED <<parent, lib, whole, attempt>>

AllSignalled == SnapshotRead /\ Targets = {}
RelevantLive == \E c \in DOMAIN seen : seen[c] = "signalled"

\* Something was alive: wait and look again.  A launcher without its anchor
\* gives up.
AwaitExit ==
  /\ AllSignalled
  /\ Anchor \in DOMAIN seen => RelevantLive
  /\ To(IF Anchor \in DOMAIN seen THEN "sleep" ELSE "fail")
  /\ UNCHANGED kernel

\* reap_non_anchor_zombies: only zombies are left.
ReapZombies ==
  /\ AllSignalled
  /\ Anchor \in DOMAIN seen
  /\ ~RelevantLive
  /\ LET reaped == DOMAIN seen \ {Anchor} IN
       /\ life' = [p \in Pid |-> IF p \in reaped THEN "free" ELSE life[p]]
       /\ parent' = [p \in Pid |-> IF p \in reaped THEN None ELSE parent[p]]
  /\ To("recheck")

\* Mutant: the first snapshot is believed.
BelieveSnapshot ==
  /\ lib = "recheck"
  /\ To(IF ~whole THEN "ok" ELSE "peek")
  /\ UNCHANGED kernel

\* lmi_child_has_adopted: a process that was adopted meanwhile is seen here.
Recheck ==
  /\ lib = "recheck"
  /\ To(IF Anchor \notin Children THEN "fail"
        ELSE IF Children # {Anchor} THEN "sleep"
        ELSE IF whole THEN "peek" ELSE "ok")
  /\ UNCHANGED kernel

\* lmi_child_peek_exit_code: the anchor has to be dead too.
PeekAnchor ==
  /\ lib = "peek"
  /\ To(IF life[Anchor] = "zombie" THEN "ok" ELSE "sleep")
  /\ UNCHANGED kernel

\* Mutant: the children are listed once, before the first attempt.
SleepOnSnapshot ==
  /\ lib = "sleep"
  /\ attempt' = attempt + 1
  /\ lib' = IF attempt' = GracefulAttempts + ForceAttempts THEN "fail" ELSE "read"
  /\ seen' = [c \in DOMAIN seen |-> "running"]
  /\ UNCHANGED <<kernel, whole>>

\* Mutant: the attempts are not counted.
SleepUncounted ==
  /\ lib = "sleep"
  /\ To("take")
  /\ UNCHANGED kernel

\* sleep_interval and the two loops: graceful attempts, then forced ones.
Sleep ==
  /\ lib = "sleep"
  /\ attempt' = attempt + 1
  /\ lib' = IF attempt' = GracefulAttempts + ForceAttempts THEN "fail" ELSE "take"
  /\ UNCHANGED <<kernel, whole, seen>>

DrainStep ==
  \/ TakeSnapshot \/ (\E c \in Pid : ReadState(c) \/ SignalChild(c))
  \/ AwaitExit \/ ReapZombies \/ Recheck \/ PeekAnchor \/ Sleep

-----------------------------------------------------------------------------
(* lmi_child_reap_anchor                                                   *)

\* snapshot_take: the list.
StartReap ==
  /\ lib' = "reap"
  /\ seen' = [c \in Children |-> "unread"]
  /\ UNCHANGED <<whole, attempt>>

\* The anchor has to be alone and dead; then waitpid does not block.
ReapAnchor ==
  LET alone == DOMAIN seen = {Anchor} /\ life[Anchor] = "zombie" IN
    /\ lib = "reap"
    /\ To(IF alone THEN "reaped" ELSE "fail")
    /\ life' = IF alone THEN [life EXCEPT ![Anchor] = "free"] ELSE life
    /\ parent' = IF alone THEN [parent EXCEPT ![Anchor] = None] ELSE parent

\* The caller has the answer.
Return ==
  /\ lib' = "idle"
  /\ whole' = FALSE
  /\ attempt' = 0
  /\ seen' = [p \in {} |-> "unread"]

LibraryStep == DrainStep \/ ReapAnchor

-----------------------------------------------------------------------------
TreeType ==
  /\ life \in [Pid -> Life]
  /\ parent \in [Pid -> Pid \cup {Sup, Other, None}]

CallType ==
  /\ lib \in {"idle", "take", "read", "sleep", "recheck", "peek", "ok", "reap", "reaped",
             "fail"}
  /\ whole \in BOOLEAN
  /\ attempt \in 0..(GracefulAttempts + ForceAttempts)
  /\ DOMAIN seen \subseteq Pid
  /\ \A c \in DOMAIN seen : seen[c] \in Seen

\* lmi_child_drain signals no PID that a stranger has been given: every target
\* of the snapshot is still an unreaped child, however long ago it was listed.
OnlyOwnSignalled == lib = "read" => Targets \subseteq Children

\* A drain of the whole tree that succeeds has emptied it: no process is left
\* that was forked, orphaned or moved to a new session meanwhile.
DrainedMeansEmpty ==
  lib = "ok" /\ whole => Ours = {Anchor} /\ life[Anchor] = "zombie"

\* What both programs promise, in the same words: a return value other than
\* failure means that nothing the launcher started is left, in whatever session
\* or process group.
CleanExit == pc = "exit" /\ ret \in {"stopped", "status"} => Ours = {}
=============================================================================
