--------------------------- MODULE TerminalBridge ---------------------------
(***************************************************************************)
(* files/lmi-p2/lmi-terminal-bridge.c: weston-terminal's "shell".  It      *)
(* forks the real shell onto a PTY of its own as the anchor of a process   *)
(* tree, puts its terminal into raw mode and copies in both directions     *)
(* until the shell, the terminal or a signal ends it; then the whole tree  *)
(* is drained, the anchor reaped and the terminal's settings restored.     *)
(*                                                                         *)
(* What is typed and shown is left out but for the number of chunks the    *)
(* shell has written to the PTY and the bridge has not read.               *)
(***************************************************************************)
EXTENDS ChildSupervisor

CONSTANTS
  MaxPending,  \* bound: chunks in the PTY's buffer
  MaxResizes   \* bound: how often the outer window changes its size

ASSUME BufferAssumption == {MaxPending, MaxResizes} \subseteq Nat

\* pc stands for the places of main, spawn_shell and bridge_loop.
VARIABLES
  plan,     \* what drain_shell is to return
  stop,     \* stop_requested
  resize,   \* resize_requested
  termios,  \* the settings of the bridge's terminal
  size,     \* the outer window's size, as a count of its changes
  ptysize,  \* the size the PTY was told
  pending   \* chunks in the PTY's buffer

own == <<pc, plan, stop, resize, ret, termios, size, ptysize, pending>>
vars == <<kernel, call, own>>

PC == {"fork", "ready", "setup", "peek", "adopted", "escaped", "signals",
       "copysize", "poll", "abort", "abortreap", "drain", "reap", "cleanup", "exit"}
Ret == {"none", "failed", "stopped", "status"}

Init ==
  /\ TreeInit
  /\ pc = "fork"
  /\ plan = "none"
  /\ stop = FALSE
  /\ resize = FALSE
  /\ ret = "none"
  /\ termios = "original"
  /\ size = 0
  /\ ptysize = 0
  /\ pending = 0

Go(next) ==
  pc' = next /\ UNCHANGED <<plan, stop, resize, ret, termios, size, ptysize, pending>>

\* terminate_shell and finish_shell: drain_shell with the result to return.
DrainShell(r) ==
  /\ StartDrain(TRUE)
  /\ pc' = "drain"
  /\ plan' = r
  /\ UNCHANGED <<kernel, stop, resize, ret, termios, size, ptysize>>

-----------------------------------------------------------------------------
(* Signals, the outer window and the shell's output.                       *)

StopSignal ==
  /\ pc # "exit"
  /\ stop' = TRUE
  /\ UNCHANGED <<kernel, call, pc, plan, resize, ret, termios, size, ptysize, pending>>

\* The window changes and SIGWINCH is delivered.
WindowChanges ==
  /\ pc # "exit"
  /\ size < MaxResizes
  /\ size' = size + 1
  /\ resize' = TRUE
  /\ UNCHANGED <<kernel, call, pc, plan, stop, ret, termios, ptysize, pending>>

ShellWrites ==
  /\ \E p \in Ours : life[p] = "live"
  /\ pc # "exit"
  /\ pending < MaxPending
  /\ pending' = pending + 1
  /\ UNCHANGED <<kernel, call, pc, plan, stop, resize, ret, termios, size, ptysize>>

-----------------------------------------------------------------------------
(* spawn_shell and main                                                    *)

\* The PTY gets the window's size, then the shell is forked.
ForkShell ==
  /\ pc = "fork"
  /\ life' = [life EXCEPT ![Anchor] = "live"]
  /\ parent' = [parent EXCEPT ![Anchor] = Sup]
  /\ pc' = "ready"
  /\ ptysize' = size
  /\ UNCHANGED <<call, plan, stop, resize, ret, termios, size, pending>>

SpawnFails ==
  /\ pc = "fork"
  /\ pc' = "exit"
  /\ ret' = "failed"
  /\ UNCHANGED <<kernel, call, plan, stop, resize, termios, size, ptysize, pending>>

\* The child's byte arrives before it executes the shell.
ShellReady ==
  /\ pc = "ready"
  /\ Go("setup")
  /\ UNCHANGED <<kernel, call>>

\* It does not arrive in time, or a signal interrupts the wait for it.
ShellNotReady ==
  /\ pc = "ready"
  /\ StartDrain(TRUE)
  /\ Go("abort")
  /\ UNCHANGED kernel

\* terminate_shell of spawn_shell, whose answer is not looked at.
AbortDrained ==
  /\ pc = "abort"
  /\ lib \in {"ok", "fail"}
  /\ pc' = IF lib = "ok" THEN "abortreap" ELSE "exit"
  /\ ret' = IF lib = "ok" THEN ret ELSE "failed"
  /\ IF lib = "ok" THEN StartReap ELSE Return
  /\ UNCHANGED <<kernel, plan, stop, resize, termios, size, ptysize, pending>>

AbortReaped ==
  /\ pc = "abortreap"
  /\ lib \in {"reaped", "fail"}
  /\ Return
  /\ pc' = "exit"
  /\ ret' = "failed"
  /\ UNCHANGED <<kernel, plan, stop, resize, termios, size, ptysize, pending>>

\* tcsetattr and set_nonblocking.
EnterRawMode ==
  /\ pc = "setup"
  /\ pc' = "peek"
  /\ termios' = "raw"
  /\ UNCHANGED <<kernel, call, plan, stop, resize, ret, size, ptysize, pending>>

\* Mutant: main returns where it finds that it cannot go on.
SetupReturns ==
  /\ pc = "setup"
  /\ pc' = "exit"
  /\ ret' = "failed"
  /\ termios' \in {"original", "raw"}
  /\ UNCHANGED <<kernel, call, plan, stop, resize, size, ptysize, pending>>

\* One of them fails, maybe after the settings have been changed.
SetupFails ==
  /\ pc = "setup"
  /\ StartDrain(TRUE)
  /\ pc' = "drain"
  /\ plan' = "failed"
  /\ termios' \in {"original", "raw"}
  /\ UNCHANGED <<kernel, stop, resize, ret, size, ptysize, pending>>

-----------------------------------------------------------------------------
(* bridge_loop                                                             *)

\* lmi_child_peek_exit_code.
Peek ==
  /\ pc = "peek"
  /\ IF life[Anchor] = "zombie"
     THEN DrainShell("status") /\ UNCHANGED pending
     ELSE Go("adopted") /\ UNCHANGED <<kernel, call>>

\* lmi_child_has_adopted, and drain_adopted_shell_children.
LookForAdopted ==
  /\ pc = "adopted"
  /\ IF Children # {Anchor}
     THEN StartDrain(FALSE) /\ Go("escaped")
     ELSE Go("signals") /\ UNCHANGED call
  /\ UNCHANGED kernel

LookFails ==
  /\ pc = "adopted"
  /\ DrainShell("failed")
  /\ UNCHANGED pending

EscapedDrained ==
  /\ pc = "escaped"
  /\ \/ lib = "ok" /\ Return /\ Go("signals") /\ UNCHANGED kernel
     \/ lib = "fail" /\ DrainShell("failed") /\ UNCHANGED pending

\* The stop flag, and the resize flag, which is cleared first.
CheckSignals ==
  /\ pc = "signals"
  /\ IF stop THEN DrainShell("stopped") /\ UNCHANGED pending
     ELSE /\ pc' = IF resize THEN "copysize" ELSE "poll"
          /\ resize' = FALSE
          /\ UNCHANGED <<kernel, call, plan, stop, ret, termios, size, ptysize, pending>>

\* copy_window_size.
CopyWindowSize ==
  /\ pc = "copysize"
  /\ pc' = "poll"
  /\ ptysize' = size
  /\ UNCHANGED <<kernel, call, plan, stop, resize, ret, termios, size, pending>>

\* Mutant: poll has no timeout.
PollForever ==
  /\ pc = "poll"
  /\ pending > 0
  /\ pc' = "peek"
  /\ pending' = pending - 1
  /\ UNCHANGED <<kernel, call, plan, stop, resize, ret, termios, size, ptysize>>

\* poll reports output, which is copied, or has waited BRIDGE_POLL_MS.  What
\* comes from the keyboard is copied too.
Poll ==
  /\ pc = "poll"
  /\ pc' = "peek"
  /\ pending' = IF pending > 0 THEN pending - 1 ELSE 0
  /\ UNCHANGED <<kernel, call, plan, stop, resize, ret, termios, size, ptysize>>

\* poll or the copying to the shell fails, or the keyboard is gone.
InputEnds ==
  /\ pc = "poll"
  /\ DrainShell("failed")
  /\ UNCHANGED pending

\* The PTY is closed and empty, or weston-terminal does not take the output
\* within IO_DEADLINE_MS, and what is left of it cannot be shown at all.
OutputEnds ==
  /\ pc = "poll"
  /\ DrainShell("status")
  /\ pending' = 0

-----------------------------------------------------------------------------
(* drain_shell and cleanup                                                 *)

\* lmi_child_drain has returned.
ShellDrained ==
  /\ pc = "drain"
  /\ lib \in {"ok", "fail"}
  /\ pc' = IF lib = "ok" THEN "reap" ELSE "cleanup"
  /\ plan' = IF lib = "ok" THEN plan ELSE "failed"
  /\ IF lib = "ok" THEN StartReap ELSE Return
  /\ UNCHANGED <<kernel, stop, resize, ret, termios, size, ptysize, pending>>

\* lmi_child_reap_anchor has returned.
ShellReaped ==
  /\ pc = "reap"
  /\ lib \in {"reaped", "fail"}
  /\ Return
  /\ pc' = "cleanup"
  /\ plan' = IF lib = "fail" THEN "failed" ELSE plan
  /\ UNCHANGED <<kernel, stop, resize, ret, termios, size, ptysize, pending>>

Cleanup ==
  /\ pc = "cleanup"
  /\ pc' = "exit"
  /\ ret' = plan
  /\ termios' = "original"
  /\ UNCHANGED <<kernel, call, plan, stop, resize, size, ptysize, pending>>

-----------------------------------------------------------------------------
Library == LibraryStep /\ UNCHANGED own
SnapshotError == SnapshotFails /\ UNCHANGED own
Tree == KernelStep /\ pc \notin {"fork", "exit"} /\ UNCHANGED own

Bridge ==
  \/ ForkShell \/ ShellReady \/ AbortDrained \/ AbortReaped \/ EnterRawMode
  \/ Peek \/ LookForAdopted \/ EscapedDrained \/ CheckSignals \/ CopyWindowSize
  \/ Poll \/ ShellDrained \/ ShellReaped \/ Cleanup \/ Library

Mishap ==
  \/ SpawnFails \/ ShellNotReady \/ SetupFails \/ LookFails \/ InputEnds
  \/ OutputEnds \/ SnapshotError

Next == Bridge \/ Mishap \/ Tree \/ StopSignal \/ WindowChanges \/ ShellWrites

Spec == Init /\ [][Next]_vars

\* The bridge runs; every wait it makes has a timeout.
FairSpec == Spec /\ WF_vars(Bridge)

-----------------------------------------------------------------------------
TypeOK ==
  /\ TreeType /\ CallType
  /\ pc \in PC /\ plan \in Ret /\ ret \in Ret
  /\ stop \in BOOLEAN /\ resize \in BOOLEAN
  /\ termios \in {"original", "raw"}
  /\ size \in 0..MaxResizes /\ ptysize \in 0..MaxResizes
  /\ pending \in 0..MaxPending

\* However the bridge ends, weston-terminal gets its terminal back as it was.
TermiosRestored == pc = "exit" => termios = "original"

\* Whatever failed or stopped it, the bridge that has ended has left no raw
\* terminal behind, and says that it was stopped, or passes on the shell's
\* status, only when no process of the terminal is left.
NothingLeft == CleanExit /\ TermiosRestored

\* The PTY learns every change of the window, also one that is signalled just
\* before the bridge waits for input.
WindowFollows == size # ptysize ~> size = ptysize \/ pc \in {"drain", "exit", "abort"}

\* A stop request ends the bridge, whatever the shell does with signals.
StopEndsBridge == stop ~> pc = "exit"

\* No signal is lost: a stop request ends the bridge and a change of the window
\* reaches the PTY, whenever they come.
SignalsServed == StopEndsBridge /\ WindowFollows

\* What the shell wrote before it exited is copied to weston-terminal while
\* that takes it, as when a command and `exit` are typed in one line.
OutputDelivered == pc = "exit" /\ ret = "status" => pending = 0
=============================================================================
