----------------------------- MODULE D114Deploy -----------------------------
(***************************************************************************)
(* The D114 userdata deployment from Windows:                              *)
(* scripts/lmi_p2_d114/deploy_userdata.py, which keeps the approvals, the  *)
(* journals and the reports, and deploy_userdata_helper.ps1, the Windows   *)
(* process it launches, which owns the handset and runs `fastboot flash`.  *)
(*                                                                         *)
(* A passed preflight report is approved for two minutes by a claim file.  *)
(* An execute run consumes the claim, publishes an intent journal and      *)
(* starts the helper, which takes the device lock, opens the journal as    *)
(* its lease, checks the handset twice and crosses the flash boundary:     *)
(* fastboot is created suspended, the journal gets its transition record,  *)
(* and only then fastboot is let run.  A helper that stops before the      *)
(* boundary closes the journal with a terminal record.  The execute run,   *)
(* or later recover-intent, derives a verdict from the helper's result and *)
(* the journal.  Either process may die at any step, and the helper may    *)
(* outlive the run that started it.                                        *)
(*                                                                         *)
(* Left out: the contents of profiles, policies and artifacts; every check *)
(* of them passes or ends the run.  The Linux and the Windows side read    *)
(* one clock, so the five seconds of skew they tolerate never matter.      *)
(* local-audit changes no state.                                           *)
(***************************************************************************)
EXTENDS Integers

CONSTANTS
  Proc,          \* invocations of deploy_userdata.py
  Claim,         \* paths of approval claims
  None,          \* no claim, no route, no holder
  TTL,           \* APPROVAL_TTL_SECONDS
  WriteTimeout,  \* $WriteTimeoutMs
  OuterTimeout,  \* OUTER_TIMEOUT_SECONDS
  MaxTime,       \* bound: last second of the clock
  LastPreflight  \* bound: last second at which a preflight is published

\* The outer timeout leaves room for an approval and a write: 1800 > 120 + 300.
ASSUME TimesAssumption ==
  /\ {TTL, WriteTimeout, OuterTimeout, MaxTime, LastPreflight} \subseteq Nat
  /\ OuterTimeout > TTL + WriteTimeout

Refused == "REFUSED_NO_STATE_CHANGE"
Revalidated == "USERDATA_TRANSPORT_COMPLETED_DEVICE_REVALIDATED"
Pending == "USERDATA_TRANSPORT_COMPLETED_DEVICE_REVALIDATION_PENDING"
Unknown == "WRITE_ATTEMPTED_RESULT_UNKNOWN"
Passed == "PASSED_NO_STATE_CHANGE"  \* of the two read-only modes
Route == {Refused, Revalidated, Pending, Unknown, Passed}
Completed == {Revalidated, Pending}

VARIABLES
  now,        \* UTC seconds, one clock for both sides
  preflights, \* created_at_unix of the passed preflight reports
  claim,      \* the approval claim at each path: issue time, preflight time
  marker,     \* claims with a .consumed.json marker
  intent,     \* the window the journal's initial record carries
  journal,    \* what follows the initial record
  reports,    \* execute, recover-intent and postwrite reports
  pc,         \* where each invocation is
  mode,       \* its mode
  job,        \* the claim it works for
  held,       \* the claim as an execute run read it
  launched,   \* when its helper was launched
  outcome,    \* the helper verdict it goes on with
  hpc,        \* where the helper of each invocation is
  hroute,     \* the helper's route, its result once it has exited
  lock,       \* the helper that has lmi-p2-d114-userdata-device.lock open
  since,      \* when the helper's fastboot flash was resumed
  orphan,     \* claims whose fastboot may have outlived its termination
  flashes,    \* history: how often fastboot flash ran under each claim
  written,    \* history: claims whose fastboot flash ran to its end
  timedout    \* history: claims whose execute run hit the outer timeout

python == <<pc, mode, job, held, launched, outcome>>
helper == <<hpc, hroute, lock, since, orphan>>
files == <<preflights, claim, marker, intent, journal, reports>>
history == <<flashes, written, timedout>>
vars == <<now, files, python, helper, history>>

Window == [issued : Nat, preflight : Nat]
ReadOnly == {"Preflight", "Postwrite"}
Mode == ReadOnly \cup {"Execute", "Recover"}
Outcome == {"initial", "transition", "terminal", "malformed"}
JournalState == Outcome \cup {None}
PostRoute == {"POSTWRITE_REVALIDATED", "POSTWRITE_REVALIDATION_FAILED"}

PythonPC == {"idle", "checked", "marked", "unlinked", "intended", "waiting",
             "returned", "judged"}
HelperPC == {"off", "audit", "locked", "leased", "seen", "boundary",
             "suspended", "durable", "flashing", "written", "terminal",
             "result", "exited"}

ASSUME NoneAssumption ==
  None \notin Proc \cup Claim \cup Route \cup Mode \cup Outcome

\* _load_fresh_preflight and _consume_approval, and the helper's
\* Test-ApprovalWindowFresh: neither the claim nor its preflight is too old.
WindowFresh(w) == now <= w.issued + TTL /\ now <= w.preflight + TTL

-----------------------------------------------------------------------------
(* What the journal is read as.                                            *)

\* _recover_helper_from_intent: only a terminal record certifies that nothing
\* was attempted.  An initial record alone is an outstanding authorisation.
Recovered(j) == IF j = "terminal" THEN Refused ELSE Unknown

\* Mutant: the helper's word is enough for a refusal.
JudgedTrusting(j, r) ==
  CASE j = "terminal" -> Refused
    [] j = "malformed" -> Unknown
    [] j \notin {"terminal", "malformed"} /\ r = Refused -> r
    [] r \in Completed /\ j = "transition" -> r
    [] OTHER -> Unknown

\* _execute_journal_result: the helper's route r stands only if the journal
\* agrees with it.  The journal is final once the helper has exited, so the
\* second reading that a mismatch causes sees the same records.
Judged(j, r) ==
  CASE j = "terminal" -> Refused
    [] j = "malformed" -> Unknown
    [] r \in Completed /\ j = "transition" -> r
    [] OTHER -> Unknown

\* Mutant: inputs that no longer match are always reported as a refusal.
RefusedOnDrift(r) == IF r \in Completed THEN Refused ELSE Unknown

\* operate: the inputs no longer match at the end of an execute run.
Downgraded(r) == IF r \in Completed THEN Pending ELSE Unknown

-----------------------------------------------------------------------------
Init ==
  /\ now = 0
  /\ preflights = {}
  /\ claim = [c \in Claim |-> None]
  /\ marker = {}
  /\ intent = [c \in Claim |-> None]
  /\ journal = [c \in Claim |-> None]
  /\ reports = {}
  /\ pc = [p \in Proc |-> "idle"]
  /\ mode = [p \in Proc |-> None]
  /\ job = [p \in Proc |-> None]
  /\ held = [p \in Proc |-> None]
  /\ launched = [p \in Proc |-> 0]
  /\ outcome = [p \in Proc |-> None]
  /\ hpc = [p \in Proc |-> "off"]
  /\ hroute = [p \in Proc |-> None]
  /\ lock = None
  /\ since = [p \in Proc |-> 0]
  /\ orphan = {}
  /\ flashes = [c \in Claim |-> 0]
  /\ written = {}
  /\ timedout = {}

\* A second passes.  WaitForSingleObject ends a flash that has used up its
\* time, so the clock does not run past that moment while fastboot runs.
Tick ==
  /\ now < MaxTime
  /\ \A p \in Proc : hpc[p] = "flashing" => now < since[p] + WriteTimeout
  /\ now' = now + 1
  /\ UNCHANGED <<files, python, helper, history>>

-----------------------------------------------------------------------------
(* deploy_userdata.py                                                      *)

\* create_approval: a fresh preflight report is bound to a new claim.
Approve(c, t) ==
  /\ t \in preflights
  /\ now <= t + TTL
  /\ claim[c] = None
  /\ claim' = [claim EXCEPT ![c] = [issued |-> now, preflight |-> t]]
  /\ UNCHANGED <<now, preflights, marker, intent, journal, reports,
                 python, helper, history>>

\* A new invocation, which knows nothing of an earlier one.
Begin(p, m, c, next) ==
  /\ pc[p] = "idle"
  /\ hpc[p] = "off"
  /\ pc' = [pc EXCEPT ![p] = next]
  /\ mode' = [mode EXCEPT ![p] = m]
  /\ job' = [job EXCEPT ![p] = c]

\* The helper's exit has been seen, or nobody waits for it any more.
Reap(p) ==
  LET gone == hpc[p] = "exited" IN
    /\ hpc' = [hpc EXCEPT ![p] = IF gone THEN "off" ELSE @]
    /\ hroute' = [hroute EXCEPT ![p] = IF gone THEN None ELSE @]
    /\ UNCHANGED <<lock, since, orphan>>

\* An invocation ends.  Its helper, if it runs, goes on for the same claim.
End(p) ==
  /\ pc' = [pc EXCEPT ![p] = "idle"]
  /\ held' = [held EXCEPT ![p] = None]
  /\ launched' = [launched EXCEPT ![p] = 0]
  /\ outcome' = [outcome EXCEPT ![p] = None]
  /\ UNCHANGED <<mode, job>>

\* operate, execute: the preflight report is fresh, and _consume_approval
\* finds no marker, reads the claim and finds it valid.
CheckClaim(p, c) ==
  /\ Begin(p, "Execute", c, "checked")
  /\ c \notin marker
  /\ claim[c] # None
  /\ WindowFresh(claim[c])
  /\ held' = [held EXCEPT ![p] = claim[c]]
  /\ UNCHANGED <<now, files, launched, outcome, helper, history>>

To(p, next) ==
  /\ pc' = [pc EXCEPT ![p] = next]
  /\ UNCHANGED <<mode, job, held, launched, outcome>>

\* _consume_approval: the marker is linked into place and replaces nothing;
\* the run that finds it taken is refused.
PublishMarker(p) ==
  /\ pc[p] = "checked"
  /\ IF job[p] \in marker
     THEN End(p) /\ UNCHANGED marker
     ELSE To(p, "marked") /\ marker' = marker \cup {job[p]}
  /\ UNCHANGED <<now, preflights, claim, intent, journal, reports,
                 helper, history>>

\* _consume_approval: the claim itself is unlinked.
UnlinkClaim(p) ==
  /\ pc[p] = "marked"
  /\ To(p, "unlinked")
  /\ claim' = [claim EXCEPT ![job[p]] = None]
  /\ UNCHANGED <<now, preflights, marker, intent, journal, reports,
                 helper, history>>

\* _publish_intent: the journal, named after the claim, replaces nothing.
PublishIntent(p) ==
  /\ pc[p] = "unlinked"
  /\ journal[job[p]] = None
  /\ To(p, "intended")
  /\ journal' = [journal EXCEPT ![job[p]] = "initial"]
  /\ intent' = [intent EXCEPT ![job[p]] = held[p]]
  /\ UNCHANGED <<now, preflights, claim, marker, reports, helper, history>>

\* run_powershell: the helper is staged and started.
Launch(p) ==
  /\ pc[p] = "intended"
  /\ pc' = [pc EXCEPT ![p] = "waiting"]
  /\ launched' = [launched EXCEPT ![p] = now]
  /\ hpc' = [hpc EXCEPT ![p] = "audit"]
  /\ UNCHANGED <<now, files, mode, job, held, outcome, hroute, lock, since,
                 orphan, history>>

\* operate, preflight and postwrite: no journal; postwrite follows up a report
\* of a completed or unknown write.
Inspect(p, m, c) ==
  /\ Begin(p, m, c, "intended")
  /\ m = "Preflight" => c = None
  /\ m = "Postwrite" =>
       \E r \in {Pending, Unknown} : [claim |-> c, route |-> r] \in reports
  /\ UNCHANGED <<now, files, held, launched, outcome, helper, history>>

Accept(p, r) ==
  /\ pc' = [pc EXCEPT ![p] = "returned"]
  /\ outcome' = [outcome EXCEPT ![p] = r]
  /\ Reap(p)
  /\ UNCHANGED <<mode, job, held, launched>>

\* The helper has exited and both copies of its result are valid.
TakeResult(p) ==
  /\ pc[p] = "waiting"
  /\ hpc[p] = "exited"
  /\ hroute[p] # None
  /\ Accept(p, hroute[p])
  /\ UNCHANGED <<now, files, history>>

\* run_powershell and _safe_execute_recovery_helper: the helper could not be
\* staged, or it has exited and its result is missing or invalid; an execute
\* run goes on with what the journal says.
RecoverResult(p) ==
  /\ <<pc[p], hpc[p]>> \in {<<"intended", "off">>, <<"waiting", "exited">>}
  /\ mode[p] = "Execute"
  /\ Accept(p, Recovered(journal[job[p]]))
  /\ UNCHANGED <<now, files, history>>

\* subprocess.run gives up on the helper, which may go on.
HitOuterTimeout(p) ==
  /\ pc[p] = "waiting"
  /\ mode[p] = "Execute"
  /\ now >= launched[p] + OuterTimeout
  /\ Accept(p, Recovered(journal[job[p]]))
  /\ timedout' = timedout \cup {job[p]}
  /\ UNCHANGED <<now, files, flashes, written>>

\* _execute_journal_result.
JudgeResult(p) ==
  /\ pc[p] = "returned"
  /\ mode[p] = "Execute"
  /\ pc' = [pc EXCEPT ![p] = "judged"]
  /\ outcome' = [outcome EXCEPT ![p] = Judged(journal[job[p]], outcome[p])]
  /\ UNCHANGED <<now, files, mode, job, held, launched, helper, history>>

\* _recheck and _publish_report of an execute run.  A refusal whose inputs no
\* longer match is not reported at all.
ReportExecute(p, intact) ==
  /\ pc[p] = "judged"
  /\ mode[p] = "Execute"
  /\ intact \/ outcome[p] # Refused
  /\ End(p)
  /\ reports' = reports \cup
       {[claim |-> job[p],
         route |-> IF intact THEN outcome[p] ELSE Downgraded(outcome[p])]}
  /\ UNCHANGED <<now, preflights, claim, marker, intent, journal,
                 helper, history>>

\* operate, preflight: a passed report is stamped when it is published.
ReportPreflight(p) ==
  /\ pc[p] = "returned"
  /\ mode[p] = "Preflight"
  /\ End(p)
  /\ preflights' = IF outcome[p] = Passed /\ now <= LastPreflight
                   THEN preflights \cup {now} ELSE preflights
  /\ UNCHANGED <<now, claim, marker, intent, journal, reports,
                 helper, history>>

\* operate, postwrite.
ReportPostwrite(p) ==
  /\ pc[p] = "returned"
  /\ mode[p] = "Postwrite"
  /\ End(p)
  /\ reports' = reports \cup
       {[claim |-> job[p],
         route |-> IF outcome[p] = Passed THEN "POSTWRITE_REVALIDATED"
                   ELSE "POSTWRITE_REVALIDATION_FAILED"]}
  /\ UNCHANGED <<now, preflights, claim, marker, intent, journal,
                 helper, history>>

\* recover_intent: the journal is read, and read again before a refusal.
RecoverIntent(p, c) ==
  /\ Begin(p, "Recover", c, "judged")
  /\ journal[c] # None
  /\ outcome' = [outcome EXCEPT ![p] = Recovered(journal[c])]
  /\ UNCHANGED <<now, files, held, launched, helper, history>>

ReportRecovery(p) ==
  /\ pc[p] = "judged"
  /\ mode[p] = "Recover"
  /\ outcome[p] = Refused => journal[job[p]] = "terminal"
  /\ End(p)
  /\ reports' = reports \cup {[claim |-> job[p], route |-> outcome[p]]}
  /\ UNCHANGED <<now, preflights, claim, marker, intent, journal,
                 helper, history>>

\* An invocation is killed, or a check, a write or a link fails and ends it.
Stop(p) ==
  /\ pc[p] # "idle"
  /\ End(p)
  /\ Reap(p)
  /\ UNCHANGED <<now, files, history>>

-----------------------------------------------------------------------------
(* deploy_userdata_helper.ps1                                              *)

Move(p, next) ==
  /\ hpc' = [hpc EXCEPT ![p] = next]
  /\ UNCHANGED <<hroute, lock, since, orphan>>

Finish(p, next, r) ==
  /\ hpc' = [hpc EXCEPT ![p] = next]
  /\ hroute' = [hroute EXCEPT ![p] = r]
  /\ UNCHANGED <<lock, since, orphan>>

\* The finally block: a helper that holds the lease and has not entered the
\* flash boundary certifies that nothing was attempted.
Refuse(p) ==
  Finish(p, IF mode[p] = "Execute" /\ hpc[p] \in {"leased", "seen"}
            THEN "terminal" ELSE "result", Refused)

\* A check of the helper fails: a locked input, the device lock, the lease,
\* the prepared candidate, a device query, or the creation of fastboot.
HelperFails(p) ==
  /\ hpc[p] \in {"audit", "locked", "leased", "seen", "boundary"}
  /\ Refuse(p)
  /\ UNCHANGED <<now, files, python, history>>

\* The device lock is opened with FileShare.None.
TakeLock(p) ==
  /\ hpc[p] = "audit"
  /\ lock = None
  /\ lock' = p
  /\ hpc' = [hpc EXCEPT ![p] = "locked"]
  /\ UNCHANGED <<now, files, python, hroute, since, orphan, history>>

\* Open-And-ValidateIntent: no outcome has been appended yet.
OpenIntent(p) ==
  /\ hpc[p] = "locked"
  /\ mode[p] = "Execute"
  /\ journal[job[p]] = "initial"
  /\ Move(p, "leased")
  /\ UNCHANGED <<now, files, python, history>>

\* Check-Device in the read-only modes.
InspectDevice(p) ==
  /\ hpc[p] = "locked"
  /\ mode[p] \in ReadOnly
  /\ Finish(p, "result", Passed)
  /\ UNCHANGED <<now, files, python, history>>

\* Open-And-ValidatePreparedCandidate and the first Check-Device.
SeeDevice(p) ==
  /\ hpc[p] = "leased"
  /\ Move(p, "seen")
  /\ UNCHANGED <<now, files, python, history>>

\* The second Check-Device and Assert-ApprovalWindowFresh.
EnterBoundary(p) ==
  /\ hpc[p] = "seen"
  /\ WindowFresh(intent[job[p]])
  /\ Move(p, "boundary")
  /\ UNCHANGED <<now, files, python, history>>

\* LmiNativeRunner.Run: fastboot is created suspended in a kill-on-close job.
CreateSuspended(p) ==
  /\ hpc[p] = "boundary"
  /\ Move(p, "suspended")
  /\ UNCHANGED <<now, files, python, history>>

Record(p, state) ==
  /\ journal' = [journal EXCEPT ![job[p]] = state]
  /\ UNCHANGED <<preflights, claim, marker, intent, reports>>

\* Run: the window is checked, then the transition is written and flushed.
\* When a step of it fails, fastboot is terminated before it ran; the record may
\* then be missing, cut off, or complete with only its flush failed.
AppendTransition(p) ==
  /\ hpc[p] = "suspended"
  /\ WindowFresh(intent[job[p]])
  /\ Move(p, "durable")
  /\ Record(p, "transition")
  /\ UNCHANGED <<now, python, history>>

TransitionFails(p) ==
  /\ hpc[p] = "suspended"
  /\ Finish(p, "result", Refused)
  /\ (\E state \in {"malformed", "transition"} : Record(p, state)) \/ UNCHANGED files
  /\ UNCHANGED <<now, python, history>>

\* Mutant: the window is not checked after the record has been flushed.
ResumeUnchecked(p) ==
  /\ hpc[p] = "durable"
  /\ hpc' = [hpc EXCEPT ![p] = "flashing"]
  /\ since' = [since EXCEPT ![p] = now]
  /\ flashes' = [flashes EXCEPT ![job[p]] = @ + 1]
  /\ UNCHANGED <<now, files, python, hroute, lock, orphan, written, timedout>>

\* Run: the window is checked again and the thread resumed.
Resume(p) ==
  /\ hpc[p] = "durable"
  /\ WindowFresh(intent[job[p]])
  /\ hpc' = [hpc EXCEPT ![p] = "flashing"]
  /\ since' = [since EXCEPT ![p] = now]
  /\ flashes' = [flashes EXCEPT ![job[p]] = @ + 1]
  /\ UNCHANGED <<now, files, python, hroute, lock, orphan, written, timedout>>

ResumeFails(p) ==
  /\ hpc[p] = "durable"
  /\ Finish(p, "result", Unknown)
  /\ UNCHANGED <<now, files, python, history>>

\* fastboot exits with a complete transcript and its process tree is gone.
FlashCompletes(p) ==
  /\ hpc[p] = "flashing"
  /\ hpc' = [hpc EXCEPT ![p] = "written"]
  /\ since' = [since EXCEPT ![p] = 0]
  /\ written' = written \cup {job[p]}
  /\ UNCHANGED <<now, files, python, hroute, lock, orphan, flashes, timedout>>

\* fastboot fails, or its transcript is incomplete, or its tree lives on.  The
\* job is terminated, which may take longer than the helper waits for it.
FlashFails(p, quiescent) ==
  /\ hpc[p] = "flashing"
  /\ hpc' = [hpc EXCEPT ![p] = "result"]
  /\ hroute' = [hroute EXCEPT ![p] = Unknown]
  /\ since' = [since EXCEPT ![p] = 0]
  /\ orphan' = IF quiescent THEN orphan ELSE orphan \cup {job[p]}
  /\ UNCHANGED <<now, files, python, lock, history>>

\* Mutant: the helper waits for fastboot for ever.
WaitForever(p) == FALSE /\ FlashFails(p, TRUE)

\* WaitForSingleObject: the time for the write is up.
FlashTimesOut(p) ==
  /\ now >= since[p] + WriteTimeout
  /\ \E quiescent \in BOOLEAN : FlashFails(p, quiescent)

\* Check-Device after the write.
Revalidate(p, ok) ==
  /\ hpc[p] = "written"
  /\ Finish(p, "result", IF ok THEN Revalidated ELSE Pending)
  /\ UNCHANGED <<now, files, python, history>>

\* Write-TerminalNoAttempt.
WriteTerminal(p) ==
  /\ hpc[p] = "terminal"
  /\ journal[job[p]] = "initial"
  /\ Move(p, "result")
  /\ Record(p, "terminal")
  /\ UNCHANGED <<now, python, history>>

\* The helper is gone, and with it its handles.
Exit(p, r) ==
  LET awaited == pc[p] = "waiting" IN
    /\ hpc' = [hpc EXCEPT ![p] = IF awaited THEN "exited" ELSE "off"]
    /\ hroute' = [hroute EXCEPT ![p] = IF awaited THEN r ELSE None]
    /\ lock' = IF lock = p THEN None ELSE lock
    /\ since' = [since EXCEPT ![p] = 0]
    /\ UNCHANGED orphan

\* The finally block: a locked input no longer has its identity.
Drifted(r) ==
  CASE r = Revalidated -> Pending
    [] r = Passed -> Refused
    [] OTHER -> r

\* Write-Result, the locked inputs rechecked, and every handle closed.
WriteResult(p, intact) ==
  /\ hpc[p] = "result"
  /\ Exit(p, IF intact THEN hroute[p] ELSE Drifted(hroute[p]))
  /\ UNCHANGED <<now, files, python, history>>

\* The helper dies: its handles are closed, which ends its fastboot too, and a
\* record it was appending may be torn.
HelperDies(p) ==
  /\ hpc[p] \notin {"off", "exited"}
  /\ Exit(p, None)
  /\ \/ hpc[p] \in {"suspended", "terminal"} /\ Record(p, "malformed")
     \/ UNCHANGED files
  /\ UNCHANGED <<now, python, history>>

-----------------------------------------------------------------------------
PythonStep(p) ==
  \/ PublishMarker(p) \/ UnlinkClaim(p) \/ PublishIntent(p) \/ Launch(p)
  \/ TakeResult(p) \/ RecoverResult(p) \/ HitOuterTimeout(p) \/ JudgeResult(p)
  \/ \E intact \in BOOLEAN : ReportExecute(p, intact)
  \/ ReportPreflight(p) \/ ReportPostwrite(p) \/ ReportRecovery(p)

\* What the helper does by itself.
HelperStep(p) ==
  \/ HelperFails(p) \/ TakeLock(p) \/ OpenIntent(p) \/ InspectDevice(p)
  \/ SeeDevice(p) \/ EnterBoundary(p) \/ CreateSuspended(p)
  \/ AppendTransition(p) \/ TransitionFails(p) \/ Resume(p) \/ ResumeFails(p)
  \/ FlashTimesOut(p) \/ \E ok \in BOOLEAN : Revalidate(p, ok)
  \/ WriteTerminal(p) \/ \E intact \in BOOLEAN : WriteResult(p, intact)

\* What happens to it, or to its fastboot.
HelperEvent(p) ==
  \/ FlashCompletes(p)
  \/ \E quiescent \in BOOLEAN : FlashFails(p, quiescent)
  \/ HelperDies(p)

Next ==
  \/ Tick
  \/ \E c \in Claim, t \in preflights : Approve(c, t)
  \/ \E p \in Proc :
       \/ \E c \in Claim : CheckClaim(p, c) \/ RecoverIntent(p, c)
       \/ \E m \in ReadOnly, c \in Claim \cup {None} : Inspect(p, m, c)
       \/ PythonStep(p) \/ Stop(p) \/ HelperStep(p) \/ HelperEvent(p)

Spec == Init /\ [][Next]_vars

\* Time passes and the helper goes on with its own steps; every query and
\* wait it makes has a timeout.  Nothing is assumed of fastboot's success.
FairSpec ==
  Spec /\ WF_vars(Tick) /\ \A p \in Proc : WF_vars(HelperStep(p))

-----------------------------------------------------------------------------
FilesType ==
  /\ preflights \subseteq 0..MaxTime
  /\ claim \in [Claim -> Window \cup {None}]
  /\ marker \subseteq Claim
  /\ intent \in [Claim -> Window \cup {None}]
  /\ journal \in [Claim -> JournalState]
  /\ reports \subseteq [claim : Claim, route : Route \cup PostRoute]

PythonType ==
  /\ pc \in [Proc -> PythonPC]
  /\ mode \in [Proc -> Mode \cup {None}]
  /\ job \in [Proc -> Claim \cup {None}]
  /\ held \in [Proc -> Window \cup {None}]
  /\ launched \in [Proc -> 0..MaxTime]
  /\ outcome \in [Proc -> Route \cup {None}]

HelperType ==
  /\ hpc \in [Proc -> HelperPC]
  /\ hroute \in [Proc -> Route \cup {None}]
  /\ lock \in Proc \cup {None}
  /\ since \in [Proc -> 0..MaxTime]
  /\ orphan \subseteq Claim

HistoryType ==
  /\ flashes \in [Claim -> Nat]
  /\ written \subseteq Claim
  /\ timedout \subseteq Claim

TypeOK ==
  now \in 0..MaxTime /\ FilesType /\ PythonType /\ HelperType /\ HistoryType

\* The promise the claim makes: it is spent before fastboot runs, at most one
\* flash runs under it, and a report of a refusal or of a completed transport
\* is never wrong, whatever died and whoever reported it.
Verdict(r) ==
  CASE r = Refused -> "refused"
    [] r \in Completed -> "completed"
    [] OTHER -> "unknown"

Closed == {c \in Claim : journal[c] = "terminal"}
Answers == {r \in reports : r.route \in Route}
Verdicts == {<<r.claim, Verdict(r.route)>> : r \in Answers}

Ticket == INSTANCE WriteTicket WITH
  Ticket <- Claim, spent <- marker, closed <- Closed,
  started <- flashes, finished <- written, verdicts <- Verdicts

TicketSpec == Ticket!Spec

\* A report that says REFUSED_NO_STATE_CHANGE is true for ever: no helper, not
\* even one that outlived its run, flashes under that claim.
RefusedMeansUntouched ==
  \A r \in reports : r.route = Refused => flashes[r.claim] = 0

\* Whenever fastboot has run, the claim is consumed and the journal says so on
\* disk: no later reader can take the claim for unused.
FlashIsJournalled ==
  \A c \in Claim : flashes[c] > 0 => c \in marker /\ journal[c] = "transition"

\* At most one helper talks to the handset, abandoned ones included; only a
\* fastboot that outlived its termination can get in the way.
OneDeviceUser ==
  \A p, q \in Proc :
    {hpc[p], hpc[q]} \cap {"off", "audit", "result", "exited"} = {} => p = q

\* fastboot starts to write only while claim and preflight are in force.
FlashInWindow ==
  \A p \in Proc : hpc[p] = "flashing" =>
    LET w == intent[job[p]] IN
      since[p] <= w.issued + TTL /\ since[p] <= w.preflight + TTL

\* After the outer timeout nothing writes under the claim, then or later.
QuietAfterTimeout ==
  \A p \in Proc : job[p] \in timedout => hpc[p] # "flashing"

\* Whatever hangs, dies or is slow, writing keeps to its time: it starts in the
\* approved window and is over when the run gives up on it.
WriteInTime == FlashInWindow /\ QuietAfterTimeout

\* The device lock comes free although runs are killed and fastboot hangs.
DeviceComesFree == \A p \in Proc : lock = p ~> lock # p
=============================================================================
