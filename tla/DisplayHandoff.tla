--------------------------- MODULE DisplayHandoff ---------------------------
(***************************************************************************)
(* files/lmi-p2/lmi-display-handoff.c: waits for the display devices,      *)
(* forks the VT session (openvt, the session launcher, Weston and all they *)
(* start) as its anchor, and supervises it: a process that escapes from    *)
(* the session is drained while the session goes on, and when the session  *)
(* has ended or a stop is requested the whole tree is drained and the      *)
(* anchor reaped.                                                          *)
(***************************************************************************)
EXTENDS ChildSupervisor

\* pc stands for the places of main and wait_for_session.
VARIABLES
  exited,  \* child_exited
  broken,  \* supervision_failed
  stop     \* stop_requested

own == <<pc, exited, broken, stop, ret>>
vars == <<kernel, call, own>>

PC == {"ready", "forking", "peek", "adopted", "escaped", "decide", "final",
       "reap", "exit"}
Ret == {"none", "no session", "failed", "stopped", "status"}

Init ==
  /\ TreeInit
  /\ pc = "ready"
  /\ exited = FALSE
  /\ broken = FALSE
  /\ stop = FALSE
  /\ ret = "none"

Go(next) == pc' = next /\ UNCHANGED <<exited, broken, stop, ret>>
Leave(r) == pc' = "exit" /\ ret' = r /\ UNCHANGED <<exited, broken, stop>>

\* handle_stop: SIGHUP, SIGINT or SIGTERM, at any time.
StopSignal ==
  /\ pc # "exit"
  /\ stop' = TRUE
  /\ UNCHANGED <<kernel, call, pc, exited, broken, ret>>

\* main: VT, seatd and DRM are there; stop_requested is looked at once more.
DevicesReady ==
  /\ pc = "ready"
  /\ IF stop THEN Leave("no session") ELSE Go("forking")
  /\ UNCHANGED <<kernel, call>>

\* main: READY_WAIT_ATTEMPTS are used up.
DevicesMissing ==
  /\ pc = "ready"
  /\ Leave("no session")
  /\ UNCHANGED <<kernel, call>>

\* start_vt_session.
ForkAnchor ==
  /\ pc = "forking"
  /\ life' = [life EXCEPT ![Anchor] = "live"]
  /\ parent' = [parent EXCEPT ![Anchor] = Sup]
  /\ Go("peek")
  /\ UNCHANGED call

ForkFails ==
  /\ pc = "forking"
  /\ Leave("no session")
  /\ UNCHANGED <<kernel, call>>

\* wait_for_session: lmi_child_peek_exit_code.
Peek ==
  /\ pc = "peek"
  /\ pc' = "adopted"
  /\ exited' = (life[Anchor] = "zombie")
  /\ UNCHANGED <<kernel, call, broken, stop, ret>>

\* wait_for_session: lmi_child_has_adopted, and a drain of what it found.
LookForAdopted ==
  /\ pc = "adopted"
  /\ IF Children # {Anchor}
     THEN StartDrain(FALSE) /\ Go("escaped")
     ELSE Go("decide") /\ UNCHANGED call
  /\ UNCHANGED kernel

\* The tree cannot be looked at, or the anchor is not in it.
LookFails ==
  /\ pc = "adopted"
  /\ pc' = "decide"
  /\ broken' = TRUE
  /\ UNCHANGED <<kernel, call, exited, stop, ret>>

EscapedDrained ==
  /\ pc = "escaped"
  /\ lib \in {"ok", "fail"}
  /\ Return
  /\ pc' = "decide"
  /\ broken' = (lib = "fail")
  /\ UNCHANGED <<kernel, exited, stop, ret>>

\* wait_for_session: the loop ends, or goes on after an interval.
Decide ==
  /\ pc = "decide"
  /\ IF exited \/ stop \/ broken
     THEN StartDrain(~exited) /\ Go("final")
     ELSE Go("peek") /\ UNCHANGED call
  /\ UNCHANGED kernel

\* Mutant: a stop that was requested is always reported as success.
DrainedOrStopped ==
  /\ pc = "final"
  /\ lib \in {"ok", "fail"}
  /\ IF lib = "ok" THEN StartReap /\ Go("reap")
     ELSE Return /\ Leave(IF stop THEN "stopped" ELSE "failed")
  /\ UNCHANGED kernel

\* wait_for_session: the last drain has returned.
TreeDrained ==
  /\ pc = "final"
  /\ lib \in {"ok", "fail"}
  /\ IF lib = "ok" THEN StartReap /\ Go("reap") ELSE Return /\ Leave("failed")
  /\ UNCHANGED kernel

\* wait_for_session: lmi_child_reap_anchor has returned.
AnchorReaped ==
  /\ pc = "reap"
  /\ lib \in {"reaped", "fail"}
  /\ Return
  /\ Leave(IF lib = "fail" \/ broken THEN "failed"
           ELSE IF stop THEN "stopped" ELSE "status")
  /\ UNCHANGED kernel

\* The calls of the library.
Library == LibraryStep /\ UNCHANGED own
SnapshotError == SnapshotFails /\ UNCHANGED own

Supervise ==
  \/ DevicesReady \/ ForkAnchor \/ Peek \/ LookForAdopted \/ EscapedDrained
  \/ Decide \/ TreeDrained \/ AnchorReaped \/ Library

\* What the session does; what goes on before its fork does not matter.
Tree == KernelStep /\ pc \notin {"ready", "forking", "exit"} /\ UNCHANGED own

Next ==
  \/ Supervise \/ Tree \/ StopSignal
  \/ DevicesMissing \/ ForkFails \/ LookFails \/ SnapshotError

Spec == Init /\ [][Next]_vars

\* The launcher runs.  Nothing is assumed of the processes it supervises.
FairSpec == Spec /\ WF_vars(Supervise)

-----------------------------------------------------------------------------
TypeOK ==
  /\ TreeType /\ CallType
  /\ pc \in PC /\ exited \in BOOLEAN /\ broken \in BOOLEAN /\ stop \in BOOLEAN
  /\ ret \in Ret

\* lmi_child_reap_anchor is called only when the anchor is alone and dead: it
\* neither gives up with EBUSY nor blocks in waitpid.
ReapIsReady ==
  pc = "reap" /\ lib = "reap" => Ours = {Anchor} /\ life[Anchor] = "zombie"

\* A stop request ends the launcher, whatever the session does with signals.
StopsInTime == stop ~> pc = "exit"
=============================================================================
