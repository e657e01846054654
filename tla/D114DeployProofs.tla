-------------------------- MODULE D114DeployProofs --------------------------
(***************************************************************************)
(* Theorems about the D114 userdata deployment, for any number of          *)
(* invocations, helpers and claims and any timeouts.                       *)
(***************************************************************************)
EXTENDS D114Deploy, TLAPS

\* The helper has its lease of the intent journal.
Leased == {"leased", "seen", "boundary", "suspended", "durable", "flashing",
           "written", "terminal"}

ModeInv ==
  \A p \in Proc :
    /\ mode[p] \in {"Execute", "Recover", "Postwrite"} => job[p] \in Claim
    /\ pc[p] \in {"checked", "marked", "unlinked"} => mode[p] = "Execute"
    /\ hpc[p] \in Leased => mode[p] = "Execute"
    /\ pc[p] \in {"returned", "judged"} => outcome[p] \in Route

TypeInv == TypeOK /\ ModeInv

-----------------------------------------------------------------------------
(* Types                                                                   *)

LEMMA TypeInit == Init => TypeInv
<1> SUFFICES ASSUME Init PROVE TypeInv
  OBVIOUS
<1>1. 0 \in 0 .. MaxTime
  BY TimesAssumption
<1>2. TypeOK
  BY <1>1 DEF Init, TypeOK, FilesType, PythonType, HelperType, HistoryType,
              JournalState, Outcome, PythonPC, HelperPC
<1>3. ModeInv
  BY NoneAssumption DEF Init, ModeInv, Leased, Mode, ReadOnly
<1> QED BY <1>2, <1>3 DEF TypeInv

\* The parts of the state a step leaves alone keep their types.
LEMMA Untouched ==
  ASSUME TypeInv
  PROVE  /\ UNCHANGED files => FilesType'
         /\ UNCHANGED python => PythonType'
         /\ UNCHANGED helper => HelperType'
         /\ UNCHANGED history => HistoryType'
BY DEF TypeInv, TypeOK, FilesType, PythonType, HelperType, HistoryType,
       files, python, helper, history

USE DEF TypeInv, TypeOK

\* Invocations.
LEMMA CheckClaimTypes ==
  ASSUME TypeInv, NEW p \in Proc, NEW c \in Claim, CheckClaim(p, c)
  PROVE  TypeInv'
<1>1. PythonType'
  BY DEF PythonType, FilesType, CheckClaim, Begin, Mode, PythonPC
<1>2. ModeInv'
  BY DEF ModeInv, PythonType, CheckClaim, Begin, helper, Leased
<1> QED BY <1>1, <1>2, Untouched DEF CheckClaim

LEMMA RecoverIntentTypes ==
  ASSUME TypeInv, NEW p \in Proc, NEW c \in Claim, RecoverIntent(p, c)
  PROVE  TypeInv'
<1>1. PythonType'
  BY DEF PythonType, RecoverIntent, Begin, Mode, PythonPC, Recovered, Route
<1>2. ModeInv'
  BY DEF ModeInv, PythonType, RecoverIntent, Begin, helper, Leased, Recovered, Route
<1> QED BY <1>1, <1>2, Untouched DEF RecoverIntent

LEMMA InspectTypes ==
  ASSUME TypeInv, NEW p \in Proc, NEW m \in ReadOnly, NEW c \in Claim \cup {None},
         Inspect(p, m, c)
  PROVE  TypeInv'
<1>1. m = "Postwrite" => c \in Claim
  BY DEF Inspect, FilesType
<1>2. PythonType'
  BY DEF PythonType, Inspect, Begin, Mode, PythonPC
<1>3. ModeInv'
  BY <1>1 DEF ModeInv, PythonType, Inspect, Begin, helper, Leased, ReadOnly
<1> QED BY <1>2, <1>3, Untouched DEF Inspect

\* Where an invocation goes from one step to the next.
LEMMA GoOnTypes ==
  ASSUME TypeInv, NEW p \in Proc,
         NEW at \in PythonPC \ {"checked", "marked", "unlinked", "returned", "judged"},
         To(p, at) \/ End(p)
  PROVE  PythonType' /\ (UNCHANGED hpc => ModeInv')
<1>1. PythonType'
  BY TimesAssumption DEF PythonType, To, End, PythonPC
<1>2. UNCHANGED hpc => ModeInv'
  BY DEF ModeInv, PythonType, To, End
<1> QED BY <1>1, <1>2

LEMMA ConsumeTypes ==
  ASSUME TypeInv, NEW p \in Proc, PublishMarker(p) \/ UnlinkClaim(p) \/ PublishIntent(p)
  PROVE  TypeInv'
<1>1. job[p] \in Claim /\ mode[p] = "Execute"
  BY DEF PublishMarker, UnlinkClaim, PublishIntent, ModeInv
<1>2. FilesType'
  BY <1>1 DEF FilesType, PythonType, PublishMarker, UnlinkClaim, PublishIntent,
              JournalState, Outcome
<1>3. PythonType'
  BY TimesAssumption
     DEF PythonType, PublishMarker, UnlinkClaim, PublishIntent, To, End, PythonPC
<1>4. ModeInv'
  BY <1>1 DEF ModeInv, PythonType, PublishMarker, UnlinkClaim, PublishIntent, To, End,
              helper
<1> QED BY <1>2, <1>3, <1>4, Untouched DEF PublishMarker, UnlinkClaim, PublishIntent

LEMMA LaunchTypes ==
  ASSUME TypeInv, NEW p \in Proc, Launch(p)
  PROVE  TypeInv'
<1>1. PythonType' /\ HelperType'
  BY DEF PythonType, HelperType, Launch, PythonPC, HelperPC
<1>2. ModeInv'
  BY DEF ModeInv, PythonType, HelperType, Launch, Leased
<1> QED BY <1>1, <1>2, Untouched DEF Launch

\* A result is taken from the helper or from the journal.
LEMMA AcceptTypes ==
  ASSUME TypeInv, NEW p \in Proc, NEW r \in Route, Accept(p, r)
  PROVE  PythonType' /\ HelperType' /\ ModeInv'
<1>1. PythonType'
  BY DEF PythonType, Accept, PythonPC
<1>2. HelperType'
  BY DEF HelperType, Accept, Reap, HelperPC
<1>3. ModeInv'
  BY DEF ModeInv, PythonType, HelperType, Accept, Reap, Leased
<1> QED BY <1>1, <1>2, <1>3

LEMMA ResultTypes ==
  ASSUME TypeInv, NEW p \in Proc,
         TakeResult(p) \/ RecoverResult(p) \/ HitOuterTimeout(p)
  PROVE  TypeInv'
<1>1. PICK r \in Route : Accept(p, r)
  BY DEF TakeResult, RecoverResult, HitOuterTimeout, HelperType, Recovered, Route
<1>2. HistoryType'
  BY DEF HistoryType, TakeResult, RecoverResult, HitOuterTimeout, history, ModeInv
<1> QED BY <1>1, <1>2, AcceptTypes, Untouched
        DEF TakeResult, RecoverResult, HitOuterTimeout

LEMMA JudgeTypes ==
  ASSUME TypeInv, NEW p \in Proc, JudgeResult(p)
  PROVE  TypeInv'
<1>1. PythonType'
  BY DEF PythonType, JudgeResult, PythonPC, Judged, Route, Completed
<1>2. ModeInv'
  BY DEF ModeInv, PythonType, JudgeResult, helper, Judged, Route, Completed
<1> QED BY <1>1, <1>2, Untouched DEF JudgeResult

LEMMA ReportTypes ==
  ASSUME TypeInv, NEW p \in Proc,
         \/ \E intact \in BOOLEAN : ReportExecute(p, intact)
         \/ ReportPreflight(p) \/ ReportPostwrite(p) \/ ReportRecovery(p)
  PROVE  TypeInv'
<1>1. FilesType'
  <2>1. CASE ReportPreflight(p)
    BY <2>1 DEF FilesType, ReportPreflight
  <2>2. CASE ReportPostwrite(p)
    BY <2>2 DEF FilesType, ReportPostwrite, ModeInv, PostRoute
  <2>3. CASE ReportRecovery(p)
    BY <2>3 DEF FilesType, ReportRecovery, ModeInv
  <2>4. ASSUME NEW intact \in BOOLEAN, ReportExecute(p, intact) PROVE FilesType'
    <3>1. Downgraded(outcome[p]) \in Route
      BY DEF Downgraded, Route
    <3> QED BY <2>4, <3>1 DEF FilesType, ReportExecute, ModeInv
  <2> QED BY <2>1, <2>2, <2>3, <2>4
<1>2. End(p) /\ UNCHANGED <<now, helper, history>>
  BY DEF ReportExecute, ReportPreflight, ReportPostwrite, ReportRecovery
<1>3. PythonType' /\ ModeInv'
  BY <1>2, GoOnTypes DEF helper, PythonPC
<1> QED BY <1>1, <1>2, <1>3, Untouched

LEMMA StopTypes ==
  ASSUME TypeInv, NEW p \in Proc, Stop(p)
  PROVE  TypeInv'
<1>1. PythonType'
  BY GoOnTypes DEF Stop, PythonPC
<1>2. HelperType'
  BY DEF HelperType, Stop, Reap, HelperPC
<1>3. ModeInv'
  BY DEF ModeInv, PythonType, HelperType, Stop, End, Reap, Leased
<1> QED BY <1>1, <1>2, <1>3, Untouched DEF Stop

\* Helpers.
LEMMA MoveTypes ==
  ASSUME TypeInv, NEW p \in Proc, NEW at \in HelperPC, UNCHANGED python,
         at \in Leased => mode[p] = "Execute",
         \/ Move(p, at)
         \/ \E r \in Route : Finish(p, at, r)
  PROVE  HelperType' /\ ModeInv'
BY DEF HelperType, ModeInv, Move, Finish, python

LEMMA ApproachTypes ==
  ASSUME TypeInv, NEW p \in Proc,
         \/ HelperFails(p) \/ OpenIntent(p) \/ InspectDevice(p) \/ SeeDevice(p)
         \/ EnterBoundary(p) \/ CreateSuspended(p) \/ ResumeFails(p)
         \/ \E ok \in BOOLEAN : Revalidate(p, ok)
  PROVE  TypeInv'
<1>1. UNCHANGED <<now, files, python, history>>
  BY DEF HelperFails, OpenIntent, InspectDevice, SeeDevice, EnterBoundary,
         CreateSuspended, ResumeFails, Revalidate
<1>2. PICK at \in HelperPC :
        /\ at \in Leased => mode[p] = "Execute"
        /\ Move(p, at) \/ \E r \in Route : Finish(p, at, r)
  BY DEF HelperFails, OpenIntent, InspectDevice, SeeDevice, EnterBoundary,
         CreateSuspended, ResumeFails, Revalidate, Refuse, HelperPC, Leased, ModeInv, Route
<1>3. HelperType' /\ ModeInv'
  BY <1>1, <1>2, MoveTypes
<1> QED BY <1>1, <1>3, Untouched

LEMMA TakeLockTypes ==
  ASSUME TypeInv, NEW p \in Proc, TakeLock(p)
  PROVE  TypeInv'
<1>1. HelperType'
  BY DEF HelperType, TakeLock, HelperPC
<1>2. ModeInv'
  BY DEF ModeInv, HelperType, TakeLock, python, Leased
<1> QED BY <1>1, <1>2, Untouched DEF TakeLock

LEMMA RecordTypes ==
  ASSUME TypeInv, NEW p \in Proc, NEW state \in Outcome, Record(p, state)
  PROVE  FilesType'
BY DEF FilesType, Record, JournalState

LEMMA JournalTypes ==
  ASSUME TypeInv, NEW p \in Proc,
         AppendTransition(p) \/ TransitionFails(p) \/ WriteTerminal(p)
  PROVE  TypeInv'
<1>1. UNCHANGED <<now, python, history>>
  BY DEF AppendTransition, TransitionFails, WriteTerminal
<1>2. FilesType'
  BY RecordTypes, Untouched DEF AppendTransition, TransitionFails, WriteTerminal, Outcome
<1>3. PICK at \in HelperPC :
        /\ at \in Leased => mode[p] = "Execute"
        /\ Move(p, at) \/ \E r \in Route : Finish(p, at, r)
  BY DEF AppendTransition, TransitionFails, WriteTerminal, HelperPC, Leased, ModeInv, Route
<1>4. HelperType' /\ ModeInv'
  BY <1>1, <1>3, MoveTypes
<1> QED BY <1>1, <1>2, <1>4, Untouched

LEMMA FlashTypes ==
  ASSUME TypeInv, NEW p \in Proc,
         Resume(p) \/ FlashCompletes(p) \/ \E q \in BOOLEAN : FlashFails(p, q)
  PROVE  TypeInv'
<1>1. mode[p] = "Execute" /\ job[p] \in Claim
  BY DEF ModeInv, Leased, Resume, FlashCompletes, FlashFails
<1>2. HelperType'
  BY <1>1, TimesAssumption
     DEF HelperType, Resume, FlashCompletes, FlashFails, HelperPC, Route
<1>3. HistoryType'
  BY <1>1 DEF HistoryType, Resume, FlashCompletes, FlashFails, history
<1>4. ModeInv'
  BY <1>1 DEF ModeInv, HelperType, Resume, FlashCompletes, FlashFails, python, Leased
<1> QED BY <1>2, <1>3, <1>4, Untouched DEF Resume, FlashCompletes, FlashFails

LEMMA ExitTypes ==
  ASSUME TypeInv, NEW p \in Proc, NEW r \in Route \cup {None}, Exit(p, r),
         UNCHANGED python
  PROVE  HelperType' /\ ModeInv'
<1>1. HelperType'
  BY TimesAssumption DEF HelperType, Exit, HelperPC
<1>2. ModeInv'
  BY DEF ModeInv, HelperType, Exit, python, Leased
<1> QED BY <1>1, <1>2

LEMMA LeaveTypes ==
  ASSUME TypeInv, NEW p \in Proc,
         HelperDies(p) \/ \E intact \in BOOLEAN : WriteResult(p, intact)
  PROVE  TypeInv'
<1>1. UNCHANGED <<now, python, history>>
  BY DEF HelperDies, WriteResult
<1>2. FilesType'
  BY RecordTypes, Untouched DEF HelperDies, WriteResult, Outcome
<1>3. PICK r \in Route \cup {None} : Exit(p, r)
  BY DEF HelperDies, WriteResult, HelperType, Drifted, Route
<1>4. HelperType' /\ ModeInv'
  BY <1>1, <1>3, ExitTypes
<1> QED BY <1>1, <1>2, <1>4, Untouched

\* The clock and the operator.
LEMMA ApproveTypes ==
  ASSUME TypeInv, NEW c \in Claim, NEW t \in preflights, Approve(c, t)
  PROVE  TypeInv'
<1>1. FilesType'
  BY TimesAssumption DEF FilesType, Approve, Window
<1>2. ModeInv'
  BY DEF ModeInv, Approve, python, helper
<1> QED BY <1>1, <1>2, Untouched DEF Approve

LEMMA TickTypes ==
  ASSUME TypeInv, Tick \/ UNCHANGED vars
  PROVE  TypeInv'
<1>1. now' \in 0 .. MaxTime
  BY TimesAssumption DEF Tick, vars
<1>2. UNCHANGED <<files, python, helper, history>>
  BY DEF Tick, vars
<1>3. ModeInv'
  BY <1>2 DEF ModeInv, python, helper
<1> QED BY <1>1, <1>2, <1>3, Untouched

LEMMA TypeStep == TypeInv /\ [Next]_vars => TypeInv'
<1> SUFFICES ASSUME TypeInv, [Next]_vars PROVE TypeInv'
  OBVIOUS
<1>1. ASSUME NEW p \in Proc, PythonStep(p) PROVE TypeInv'
  BY <1>1, ConsumeTypes, LaunchTypes, ResultTypes, JudgeTypes, ReportTypes DEF PythonStep
<1>2. ASSUME NEW p \in Proc, HelperStep(p) PROVE TypeInv'
  <2>1. CASE FlashTimesOut(p)
    BY <2>1, FlashTypes DEF FlashTimesOut
  <2> QED BY <1>2, <2>1, ApproachTypes, TakeLockTypes, JournalTypes, FlashTypes, LeaveTypes
          DEF HelperStep
<1>3. ASSUME NEW p \in Proc, HelperEvent(p) PROVE TypeInv'
  BY <1>3, FlashTypes, LeaveTypes DEF HelperEvent
<1> QED BY <1>1, <1>2, <1>3, TickTypes, ApproveTypes, CheckClaimTypes,
           RecoverIntentTypes, InspectTypes, StopTypes DEF Next

\* Every reachable state of the deployment is well typed: whatever route a run
\* takes through helper result, journal and recheck, it reports a route.
THEOREM TypeCorrect == Spec => []TypeOK
<1>1. TypeInv => TypeOK
  OBVIOUS
<1> QED BY <1>1, TypeInit, TypeStep, PTL DEF Spec

-----------------------------------------------------------------------------
(* The handset                                                             *)

\* Between the device lock and the result, the helper holds the lock.
Busy == Leased \cup {"locked"}
LockInv == \A p \in Proc : hpc[p] \in Busy => lock = p

LEMMA LockInit == Init => LockInv
BY DEF Init, LockInv, Busy, Leased

LEMMA LockStep == TypeInv /\ LockInv /\ [Next]_vars => LockInv'
<1> SUFFICES ASSUME TypeInv, LockInv, [Next]_vars PROVE LockInv'
  OBVIOUS
<1> USE DEF LockInv, Busy, Leased, HelperType
<1>1. CASE UNCHANGED helper
  BY <1>1 DEF helper
<1>2. ASSUME NEW p \in Proc, TakeLock(p) PROVE LockInv'
  BY <1>2, NoneAssumption DEF TakeLock
<1>3. ASSUME NEW p \in Proc,
             HelperDies(p) \/ \E intact \in BOOLEAN : WriteResult(p, intact)
      PROVE  LockInv'
  BY <1>3 DEF HelperDies, WriteResult, Exit
<1>4. ASSUME NEW p \in Proc, Launch(p) PROVE LockInv'
  BY <1>4 DEF Launch
<1>5. ASSUME NEW p \in Proc,
             TakeResult(p) \/ RecoverResult(p) \/ HitOuterTimeout(p) \/ Stop(p)
      PROVE  LockInv'
  BY <1>5 DEF TakeResult, RecoverResult, HitOuterTimeout, Stop, Accept, Reap
<1>6. ASSUME NEW p \in Proc,
             \/ HelperFails(p) \/ OpenIntent(p) \/ InspectDevice(p) \/ SeeDevice(p)
             \/ EnterBoundary(p) \/ CreateSuspended(p) \/ ResumeFails(p)
             \/ \E ok \in BOOLEAN : Revalidate(p, ok)
      PROVE  LockInv'
  BY <1>6 DEF HelperFails, OpenIntent, InspectDevice, SeeDevice, EnterBoundary,
              CreateSuspended, ResumeFails, Revalidate, Refuse, Move, Finish
<1>7. ASSUME NEW p \in Proc,
             \/ AppendTransition(p) \/ TransitionFails(p) \/ WriteTerminal(p)
             \/ Resume(p) \/ FlashCompletes(p) \/ \E q \in BOOLEAN : FlashFails(p, q)
      PROVE  LockInv'
  BY <1>7 DEF AppendTransition, TransitionFails, WriteTerminal, Resume, FlashCompletes,
              FlashFails, Move, Finish
<1>8. ASSUME NEW p \in Proc, HelperStep(p) \/ HelperEvent(p) PROVE LockInv'
  BY <1>2, <1>3, <1>6, <1>7, <1>8 DEF HelperStep, HelperEvent, FlashTimesOut
<1>9. ASSUME NEW p \in Proc, PythonStep(p) \/ Stop(p) PROVE LockInv'
  BY <1>1, <1>4, <1>5, <1>9
     DEF PythonStep, PublishMarker, UnlinkClaim, PublishIntent, JudgeResult,
         ReportExecute, ReportPreflight, ReportPostwrite, ReportRecovery
<1> QED BY <1>1, <1>8, <1>9
        DEF Next, vars, Tick, Approve, CheckClaim, RecoverIntent, Inspect

\* However many helpers there are and whoever started them, one at a time talks
\* to the handset.
THEOREM OneAtTheHandset == Spec => []OneDeviceUser
<1>1. TypeInv /\ LockInv => OneDeviceUser
  BY DEF LockInv, Busy, Leased, HelperType, HelperPC, OneDeviceUser
<1> QED BY <1>1, TypeInit, TypeStep, LockInit, LockStep, PTL DEF Spec

-----------------------------------------------------------------------------
(* Claims                                                                  *)

\* The execute run that consumed the claim, or the helper it started.
Owner(p) ==
  /\ mode[p] = "Execute"
  /\ \/ pc[p] \in {"marked", "unlinked", "intended", "waiting", "returned", "judged"}
     \/ hpc[p] \notin {"off", "exited"}

\* What an invocation and its helper may rely on at each of their steps.
ProcInv(p) ==
  /\ pc[p] \in {"checked", "marked", "unlinked", "intended"} => hpc[p] = "off"
  /\ hpc[p] = "off" => hroute[p] = None
  /\ Owner(p) => job[p] \in marker
  /\ hpc[p] \in {"leased", "seen", "boundary", "suspended", "terminal"} =>
       journal[job[p]] = "initial"
  /\ hpc[p] \in {"durable", "flashing", "written"} =>
       journal[job[p]] = "transition"
  /\ hpc[p] = "durable" => flashes[job[p]] = 0
  /\ hpc[p] \in {"flashing", "written"} => flashes[job[p]] = 1
  /\ hpc[p] = "written" \/ hroute[p] \in Completed => job[p] \in written
  /\ pc[p] \in {"returned", "judged"} /\ outcome[p] \in Completed =>
       job[p] \in written
  /\ pc[p] = "judged" =>
       /\ mode[p] \in {"Execute", "Recover"}
       /\ job[p] \in marker
       /\ outcome[p] = Refused => journal[job[p]] = "terminal"

Exclusive ==
  \A p, q \in Proc : Owner(p) /\ Owner(q) /\ job[p] = job[q] => p = q

JournalSpent == \A c \in Claim : journal[c] # None => c \in marker

Counted ==
  \A c \in Claim :
    /\ flashes[c] \in {0, 1}
    /\ flashes[c] = 1 => journal[c] = "transition"
    /\ c \in written => flashes[c] = 1

Reported ==
  \A r \in reports :
    /\ r.route \in Route => r.claim \in marker
    /\ r.route = Refused => journal[r.claim] = "terminal"
    /\ r.route \in Completed => r.claim \in written

ClaimInv ==
  (\A p \in Proc : ProcInv(p)) /\ Exclusive /\ JournalSpent /\ Counted /\ Reported

LEMMA ClaimInit == Init => ClaimInv
BY NoneAssumption
   DEF Init, ClaimInv, ProcInv, Owner, Exclusive, JournalSpent, Counted, Reported,
       Completed, Route, Mode, Outcome

\* What a step of p leaves to the others.
OthersKept(p) ==
  \A q \in Proc \ {p} :
    /\ pc'[q] = pc[q] /\ mode'[q] = mode[q] /\ job'[q] = job[q]
    /\ outcome'[q] = outcome[q] /\ hpc'[q] = hpc[q] /\ hroute'[q] = hroute[q]

\* The records of a claim grow, and only by its owner.
RecordsGrow(p) ==
  /\ marker \subseteq marker'
  /\ written \subseteq written'
  /\ \A c \in Claim : journal'[c] # journal[c] =>
       Owner(p) /\ c = job[p] /\ journal[c] \in {None, "initial"}
  /\ \A c \in Claim : flashes'[c] # flashes[c] => Owner(p) /\ c = job[p]

\* A step of p keeps what the others rely on.
LEMMA OthersInv ==
  ASSUME TypeInv, ClaimInv, NEW p \in Proc, OthersKept(p), RecordsGrow(p),
         NEW q \in Proc \ {p}
  PROVE  ProcInv(q)'
<1>1. Owner(q)' = Owner(q)
  BY DEF OthersKept, Owner
<1>2. ProcInv(q)
  BY DEF ClaimInv
<1>3. Owner(p) /\ Owner(q) => job[p] # job[q]
  BY DEF ClaimInv, Exclusive
<1>4. hpc[q] \in Leased => Owner(q) /\ job[q] \in Claim
  BY DEF ModeInv, Leased, Owner
<1>5. hpc[q] \in Leased =>
        journal'[job[q]] = journal[job[q]] /\ flashes'[job[q]] = flashes[job[q]]
  BY <1>3, <1>4 DEF RecordsGrow
<1>6. pc[q] = "judged" => job[q] \in Claim
  BY <1>2 DEF ProcInv, FilesType
<1>7. pc[q] = "judged" /\ journal[job[q]] = "terminal" => journal'[job[q]] = "terminal"
  BY <1>6, NoneAssumption DEF RecordsGrow, Outcome
<1> QED BY <1>1, <1>2, <1>5, <1>7 DEF ProcInv, OthersKept, RecordsGrow, Leased

LEMMA ExclusiveStep ==
  ASSUME TypeInv, ClaimInv, NEW p \in Proc, OthersKept(p),
         Owner(p)' => (Owner(p) /\ job'[p] = job[p]) \/ job'[p] \notin marker
  PROVE  Exclusive'
<1>1. \A q \in Proc \ {p} : (Owner(q)' <=> Owner(q)) /\ job'[q] = job[q]
  BY DEF OthersKept, Owner
<1>2. \A q \in Proc \ {p} : Owner(q) => job[q] \in marker
  BY DEF ClaimInv, ProcInv
<1>3. ASSUME NEW q \in Proc \ {p}, Owner(p)', Owner(q)', job'[p] = job'[q] PROVE FALSE
  BY <1>1, <1>2, <1>3 DEF ClaimInv, Exclusive
<1>4. ASSUME NEW a \in Proc \ {p}, NEW b \in Proc \ {p}, Owner(a)', Owner(b)',
             job'[a] = job'[b]
      PROVE  a = b
  BY <1>1, <1>4 DEF ClaimInv, Exclusive
<1> QED BY <1>3, <1>4 DEF Exclusive

\* A step that touches no record of a claim.
LEMMA QuietStep ==
  ASSUME TypeInv, ClaimInv, NEW p \in Proc, OthersKept(p),
         UNCHANGED <<marker, journal, reports, flashes, written>>,
         Owner(p)' => Owner(p) /\ job'[p] = job[p],
         ProcInv(p)'
  PROVE  ClaimInv'
<1>1. RecordsGrow(p)
  BY DEF RecordsGrow
<1>2. \A q \in Proc : ProcInv(q)'
  BY <1>1, OthersInv
<1>3. Exclusive'
  BY ExclusiveStep
<1>4. JournalSpent' /\ Counted' /\ Reported'
  BY DEF ClaimInv, JournalSpent, Counted, Reported
<1> QED BY <1>2, <1>3, <1>4 DEF ClaimInv

LEMMA BeginClaims ==
  ASSUME TypeInv, ClaimInv, NEW p \in Proc,
         \/ \E c \in Claim : CheckClaim(p, c) \/ RecoverIntent(p, c)
         \/ \E m \in ReadOnly, c \in Claim \cup {None} : Inspect(p, m, c)
  PROVE  ClaimInv'
<1>1. /\ UNCHANGED <<marker, journal, reports, flashes, written>>
      /\ UNCHANGED <<hpc, hroute>>
      /\ pc[p] = "idle" /\ hpc[p] = "off"
  BY DEF CheckClaim, RecoverIntent, Inspect, Begin, files, helper, history
<1>2. OthersKept(p)
  BY <1>1 DEF OthersKept, CheckClaim, RecoverIntent, Inspect, Begin, PythonType
<1>3. ~Owner(p)'
  BY <1>1 DEF Owner, CheckClaim, RecoverIntent, Inspect, Begin, PythonType, ReadOnly
<1>4. hroute[p] = None
  BY <1>1 DEF ClaimInv, ProcInv
<1>5. ProcInv(p)'
  <2>1. CASE \E c \in Claim : CheckClaim(p, c)
    BY <1>1, <1>3, <1>4, <2>1, NoneAssumption
       DEF ProcInv, CheckClaim, Begin, PythonType, Completed, Route
  <2>2. ASSUME NEW c \in Claim, RecoverIntent(p, c) PROVE ProcInv(p)'
    <3>1. c \in marker
      BY <2>2 DEF ClaimInv, JournalSpent, RecoverIntent
    <3>2. /\ pc'[p] = "judged" /\ mode'[p] = "Recover" /\ job'[p] = c
          /\ outcome'[p] = Recovered(journal[c])
      BY <2>2 DEF RecoverIntent, Begin, PythonType
    <3> QED BY <1>1, <1>3, <1>4, <3>1, <3>2, NoneAssumption
            DEF ProcInv, Completed, Route, Recovered, Refused, Unknown, Revalidated, Pending
  <2>3. CASE \E m \in ReadOnly, c \in Claim \cup {None} : Inspect(p, m, c)
    BY <1>1, <1>3, <1>4, <2>3, NoneAssumption
       DEF ProcInv, Inspect, Begin, PythonType, Completed, Route
  <2> QED BY <2>1, <2>2, <2>3
<1> QED BY <1>1, <1>2, <1>3, <1>5, QuietStep

LEMMA LaunchClaims ==
  ASSUME TypeInv, ClaimInv, NEW p \in Proc, Launch(p)
  PROVE  ClaimInv'
<1>1. /\ UNCHANGED <<marker, journal, reports, flashes, written>>
      /\ UNCHANGED <<mode, job, outcome, hroute>>
      /\ pc[p] = "intended" /\ pc'[p] = "waiting" /\ hpc'[p] = "audit"
  BY DEF Launch, files, history, PythonType, HelperType
<1>2. OthersKept(p)
  BY DEF OthersKept, Launch, PythonType, HelperType
<1>3. Owner(p)' => Owner(p)
  BY <1>1 DEF Owner
<1>4. ProcInv(p)'
  BY <1>1, <1>3 DEF ClaimInv, ProcInv
<1> QED BY <1>1, <1>2, <1>3, <1>4, QuietStep

LEMMA ResultClaims ==
  ASSUME TypeInv, ClaimInv, NEW p \in Proc,
         TakeResult(p) \/ RecoverResult(p) \/ HitOuterTimeout(p)
  PROVE  ClaimInv'
<1>1. PICK r \in Route :
        Accept(p, r) /\ (r \in Completed => hroute[p] \in Completed)
  BY DEF TakeResult, RecoverResult, HitOuterTimeout, HelperType, Recovered, Route,
         Completed, Refused, Unknown, Revalidated, Pending
<1>2. /\ UNCHANGED <<marker, journal, reports, flashes, written>>
      /\ pc[p] \in {"intended", "waiting"}
  BY DEF TakeResult, RecoverResult, HitOuterTimeout, files, history
<1>3. /\ UNCHANGED <<mode, job>> /\ pc'[p] = "returned" /\ outcome'[p] = r
      /\ hpc'[p] = (IF hpc[p] = "exited" THEN "off" ELSE hpc[p])
      /\ hroute'[p] = (IF hpc[p] = "exited" THEN None ELSE hroute[p])
  BY <1>1 DEF Accept, Reap, PythonType, HelperType
<1>4. OthersKept(p)
  BY <1>1 DEF OthersKept, Accept, Reap, PythonType, HelperType
<1>5. Owner(p)' => Owner(p)
  BY <1>2, <1>3 DEF Owner
<1>6. ProcInv(p)'
  BY <1>1, <1>2, <1>3, <1>5, NoneAssumption DEF ClaimInv, ProcInv, Completed, Route
<1> QED BY <1>2, <1>3, <1>4, <1>5, <1>6, QuietStep

LEMMA JudgeClaims ==
  ASSUME TypeInv, ClaimInv, NEW p \in Proc, JudgeResult(p)
  PROVE  ClaimInv'
<1>1. /\ UNCHANGED <<marker, journal, reports, flashes, written>>
      /\ UNCHANGED <<mode, job, hpc, hroute>>
      /\ pc[p] = "returned" /\ mode[p] = "Execute" /\ pc'[p] = "judged"
      /\ outcome'[p] = Judged(journal[job[p]], outcome[p])
  BY DEF JudgeResult, files, history, helper, PythonType
<1>2. OthersKept(p)
  BY <1>1 DEF OthersKept, JudgeResult, PythonType
<1>3. Owner(p)' /\ Owner(p)
  BY <1>1 DEF Owner
<1>4. /\ outcome'[p] \in Completed => outcome[p] \in Completed
      /\ outcome'[p] = Refused => journal[job[p]] = "terminal"
  BY <1>1 DEF Judged, Completed, Refused, Unknown, Revalidated, Pending
<1>5. ProcInv(p)'
  BY <1>1, <1>3, <1>4 DEF ClaimInv, ProcInv
<1> QED BY <1>1, <1>2, <1>3, <1>5, QuietStep

\* An invocation ends, with or without a report.
LEMMA EndClaims ==
  ASSUME TypeInv, ClaimInv, NEW p \in Proc, End(p), UNCHANGED helper \/ Reap(p),
         UNCHANGED <<marker, journal, flashes, written>>
  PROVE  OthersKept(p) /\ ProcInv(p)' /\ (Owner(p)' => Owner(p) /\ job'[p] = job[p])
<1>1. /\ UNCHANGED <<mode, job>> /\ pc'[p] = "idle"
      /\ \/ UNCHANGED <<hpc, hroute>>
         \/ hpc[p] = "exited" /\ hpc'[p] = "off" /\ hroute'[p] = None
         \/ hpc'[p] = hpc[p] /\ hroute'[p] = hroute[p]
  BY DEF End, Reap, helper, PythonType, HelperType
<1>2. OthersKept(p)
  BY DEF OthersKept, End, Reap, helper, PythonType, HelperType
<1>3. Owner(p)' => Owner(p) /\ job'[p] = job[p]
  BY <1>1 DEF Owner
<1>4. ProcInv(p)'
  BY <1>1, <1>3, NoneAssumption DEF ClaimInv, ProcInv, Completed, Route
<1> QED BY <1>2, <1>3, <1>4

LEMMA StopClaims ==
  ASSUME TypeInv, ClaimInv, NEW p \in Proc, Stop(p) \/ ReportPreflight(p)
  PROVE  ClaimInv'
<1>1. /\ End(p)
      /\ UNCHANGED helper \/ Reap(p)
      /\ UNCHANGED <<marker, journal, reports, flashes, written>>
  BY DEF Stop, ReportPreflight, files, history
<1> QED BY <1>1, EndClaims, QuietStep

\* A report is added when its run ends.
LEMMA ReportClaims ==
  ASSUME TypeInv, ClaimInv, NEW p \in Proc,
         \/ \E intact \in BOOLEAN : ReportExecute(p, intact)
         \/ ReportPostwrite(p) \/ ReportRecovery(p)
  PROVE  ClaimInv'
<1>1. /\ End(p) /\ UNCHANGED helper
      /\ UNCHANGED <<marker, journal, flashes, written>>
  BY DEF ReportExecute, ReportPostwrite, ReportRecovery, history
<1>2. OthersKept(p) /\ ProcInv(p)' /\ (Owner(p)' => Owner(p) /\ job'[p] = job[p])
  BY <1>1, EndClaims
<1>3. RecordsGrow(p)
  BY <1>1 DEF RecordsGrow
<1>4. \A q \in Proc : ProcInv(q)'
  BY <1>2, <1>3, OthersInv
<1>5. Exclusive'
  BY <1>2, ExclusiveStep
<1>6. JournalSpent' /\ Counted'
  BY <1>1 DEF ClaimInv, JournalSpent, Counted
<1>7. ProcInv(p) /\ (pc[p] = "judged" => outcome[p] \in Route)
  BY DEF ClaimInv, ModeInv
<1>8. \A r \in reports' \ reports :
        /\ r.route \in Route => r.claim \in marker
        /\ r.route = Refused => journal[r.claim] = "terminal"
        /\ r.route \in Completed => r.claim \in written
  <2>1. CASE ReportPostwrite(p)
    BY <2>1 DEF ReportPostwrite, Route, Completed, Refused, Revalidated, Pending, Unknown,
                Passed
  <2>2. CASE ReportRecovery(p)
    BY <1>7, <2>2 DEF ReportRecovery, ProcInv
  <2>3. ASSUME NEW intact \in BOOLEAN, ReportExecute(p, intact)
        PROVE  \A r \in reports' \ reports :
                 /\ r.route \in Route => r.claim \in marker
                 /\ r.route = Refused => journal[r.claim] = "terminal"
                 /\ r.route \in Completed => r.claim \in written
    <3> DEFINE out == IF intact THEN outcome[p] ELSE Downgraded(outcome[p])
    <3>1. out \in Completed => outcome[p] \in Completed
      BY DEF Downgraded, Completed, Revalidated, Pending, Unknown
    <3>2. out = Refused => outcome[p] = Refused
      BY DEF Downgraded, Completed, Revalidated, Pending, Unknown, Refused
    <3>3. reports' = reports \cup {[claim |-> job[p], route |-> out]} /\ pc[p] = "judged"
      BY <2>3 DEF ReportExecute
    <3> HIDE DEF out
    <3> QED BY <1>7, <3>1, <3>2, <3>3 DEF ProcInv
  <2> QED BY <2>1, <2>2, <2>3
<1>9. Reported'
  BY <1>1, <1>8 DEF ClaimInv, Reported
<1> QED BY <1>4, <1>5, <1>6, <1>9 DEF ClaimInv

\* The claim gets its marker and its owner, loses its file and gets its journal.
LEMMA MarkerClaims ==
  ASSUME TypeInv, ClaimInv, NEW p \in Proc, PublishMarker(p)
  PROVE  ClaimInv'
<1>1. UNCHANGED <<journal, reports, flashes, written, hpc, hroute>> /\ UNCHANGED helper
  BY DEF PublishMarker, helper, history
<1>2. CASE job[p] \in marker
  BY <1>1, <1>2, EndClaims, QuietStep DEF PublishMarker
<1>3. CASE job[p] \notin marker
  <2>1. /\ marker' = marker \cup {job[p]} /\ pc[p] = "checked" /\ pc'[p] = "marked"
        /\ UNCHANGED <<mode, job, outcome>>
    BY <1>3 DEF PublishMarker, To, PythonType
  <2>2. OthersKept(p) /\ RecordsGrow(p)
    BY <1>1, <1>3 DEF OthersKept, RecordsGrow, PublishMarker, To, PythonType
  <2>3. Exclusive'
    BY <1>3, <2>1, <2>2, ExclusiveStep
  <2>4. ProcInv(p)'
    BY <1>1, <2>1 DEF ClaimInv, ProcInv
  <2>5. \A q \in Proc : ProcInv(q)'
    BY <2>2, <2>4, OthersInv
  <2>6. JournalSpent' /\ Counted' /\ Reported'
    BY <1>1, <2>1 DEF ClaimInv, JournalSpent, Counted, Reported
  <2> QED BY <2>3, <2>5, <2>6 DEF ClaimInv
<1> QED BY <1>2, <1>3

LEMMA UnlinkClaims ==
  ASSUME TypeInv, ClaimInv, NEW p \in Proc, UnlinkClaim(p)
  PROVE  ClaimInv'
<1>1. /\ UNCHANGED <<marker, journal, reports, flashes, written>>
      /\ UNCHANGED <<mode, job, outcome, hpc, hroute>>
      /\ pc[p] = "marked" /\ pc'[p] = "unlinked"
  BY DEF UnlinkClaim, To, helper, history, PythonType
<1>2. OthersKept(p)
  BY <1>1 DEF OthersKept, UnlinkClaim, To, PythonType
<1>3. Owner(p)' => Owner(p)
  BY <1>1 DEF Owner, ModeInv
<1>4. ProcInv(p)'
  BY <1>1, <1>3 DEF ClaimInv, ProcInv
<1> QED BY <1>1, <1>2, <1>3, <1>4, QuietStep

\* The owner of a claim touches its journal or its history.
LEMMA OwnerStep ==
  ASSUME TypeInv, ClaimInv, NEW p \in Proc, OthersKept(p), RecordsGrow(p), Owner(p),
         UNCHANGED <<marker, job, reports>>, job[p] \in Claim,
         ProcInv(p)',
         flashes'[job[p]] \in {0, 1},
         flashes'[job[p]] = 1 => journal'[job[p]] = "transition",
         job[p] \in written' => flashes'[job[p]] = 1,
         written' \subseteq written \cup {job[p]}
  PROVE  ClaimInv'
<1>1. \A q \in Proc : ProcInv(q)'
  BY OthersInv
<1>2. Exclusive'
  BY ExclusiveStep
<1>3. job[p] \in marker
  BY DEF ClaimInv, ProcInv
<1>4. JournalSpent'
  BY <1>3 DEF ClaimInv, JournalSpent, RecordsGrow
<1>5. Counted'
  <2> SUFFICES ASSUME NEW c \in Claim, c # job[p]
               PROVE  /\ flashes'[c] \in {0, 1}
                      /\ flashes'[c] = 1 => journal'[c] = "transition"
                      /\ c \in written' => flashes'[c] = 1
    BY DEF Counted
  <2> QED BY DEF ClaimInv, Counted, RecordsGrow
<1>6. Reported'
  <2> SUFFICES ASSUME NEW r \in reports
               PROVE  /\ r.route \in Route => r.claim \in marker
                      /\ r.route = Refused => journal'[r.claim] = "terminal"
                      /\ r.route \in Completed => r.claim \in written'
    BY DEF Reported
  <2>1. r.claim \in Claim
    BY DEF FilesType
  <2>2. journal[r.claim] = "terminal" => journal'[r.claim] = "terminal"
    BY <2>1, NoneAssumption DEF RecordsGrow, Outcome
  <2> QED BY <2>2 DEF ClaimInv, Reported, RecordsGrow
<1> QED BY <1>1, <1>2, <1>4, <1>5, <1>6 DEF ClaimInv

LEMMA IntentClaims ==
  ASSUME TypeInv, ClaimInv, NEW p \in Proc, PublishIntent(p)
  PROVE  ClaimInv'
<1>1. /\ UNCHANGED <<marker, reports, flashes, written>>
      /\ UNCHANGED <<mode, job, outcome, hpc, hroute>>
      /\ pc[p] = "unlinked" /\ pc'[p] = "intended"
  BY DEF PublishIntent, To, helper, history, PythonType
<1>2. Owner(p) /\ job[p] \in Claim /\ Owner(p)'
  BY <1>1 DEF Owner, ModeInv
<1>3. /\ journal[job[p]] = None
      /\ journal' = [journal EXCEPT ![job[p]] = "initial"]
  BY DEF PublishIntent
<1>4. OthersKept(p)
  BY <1>1 DEF OthersKept, PublishIntent, To, PythonType
<1>5. RecordsGrow(p)
  BY <1>1, <1>2, <1>3 DEF RecordsGrow, FilesType
<1>6. ProcInv(p)'
  BY <1>1, <1>2 DEF ClaimInv, ProcInv
<1>7. flashes[job[p]] = 0 /\ job[p] \notin written
  BY <1>2, <1>3, NoneAssumption DEF ClaimInv, Counted, Outcome
<1> QED BY <1>1, <1>2, <1>4, <1>5, <1>6, <1>7, OwnerStep

\* The helper's steps that touch no record.
LEMMA ApproachClaims ==
  ASSUME TypeInv, ClaimInv, NEW p \in Proc,
         \/ HelperFails(p) \/ TakeLock(p) \/ OpenIntent(p) \/ InspectDevice(p)
         \/ SeeDevice(p) \/ EnterBoundary(p) \/ CreateSuspended(p)
         \/ ResumeFails(p) \/ \E q \in BOOLEAN : FlashFails(p, q)
         \/ \E ok \in BOOLEAN : Revalidate(p, ok)
  PROVE  ClaimInv'
<1>1. /\ UNCHANGED <<marker, journal, reports, flashes, written>>
      /\ UNCHANGED <<pc, mode, job, outcome>>
      /\ hpc[p] \notin {"off", "exited"}
  BY DEF HelperFails, TakeLock, OpenIntent, InspectDevice, SeeDevice, EnterBoundary,
         CreateSuspended, ResumeFails, FlashFails, Revalidate, files, python, history
<1>2. OthersKept(p)
  BY <1>1 DEF OthersKept, HelperFails, TakeLock, OpenIntent, InspectDevice, SeeDevice,
              EnterBoundary, CreateSuspended, ResumeFails, FlashFails, Revalidate,
              Refuse, Move, Finish, HelperType
<1>3. /\ hpc'[p] \notin {"off", "exited", "durable", "flashing", "written"}
      /\ hpc'[p] \in {"leased", "seen", "boundary", "suspended", "terminal"} =>
           \/ hpc[p] = "locked" /\ journal[job[p]] = "initial"
           \/ hpc[p] \in {"leased", "seen", "boundary"}
      /\ hroute'[p] \in Completed => hroute[p] \in Completed \/ hpc[p] = "written"
  BY DEF HelperFails, TakeLock, OpenIntent, InspectDevice, SeeDevice, EnterBoundary,
         CreateSuspended, ResumeFails, FlashFails, Revalidate, Refuse, Move, Finish,
         HelperType, Completed, Refused, Unknown, Passed, Revalidated, Pending
<1>4. Owner(p)' => Owner(p) /\ job'[p] = job[p]
  BY <1>1 DEF Owner
<1>5. ProcInv(p)'
  BY <1>1, <1>3, <1>4 DEF ClaimInv, ProcInv
<1> QED BY <1>1, <1>2, <1>4, <1>5, QuietStep

\* The helper writes to the journal.
LEMMA JournalClaims ==
  ASSUME TypeInv, ClaimInv, NEW p \in Proc,
         AppendTransition(p) \/ TransitionFails(p) \/ WriteTerminal(p)
  PROVE  ClaimInv'
<1>1. /\ UNCHANGED <<marker, reports, flashes, written>>
      /\ UNCHANGED <<pc, mode, job, outcome>>
      /\ hpc[p] \in {"suspended", "terminal"}
  BY DEF AppendTransition, TransitionFails, WriteTerminal, Record, files, python, history
<1>2. Owner(p) /\ job[p] \in Claim /\ journal[job[p]] = "initial"
  BY <1>1 DEF Owner, ModeInv, Leased, ClaimInv, ProcInv
<1>3. flashes[job[p]] = 0 /\ job[p] \notin written
  BY <1>2 DEF ClaimInv, Counted
<1>4. OthersKept(p)
  BY <1>1 DEF OthersKept, AppendTransition, TransitionFails, WriteTerminal, Move, Finish,
              HelperType
<1>5. RecordsGrow(p)
  BY <1>1, <1>2 DEF RecordsGrow, FilesType, AppendTransition, TransitionFails,
                    WriteTerminal, Record, files
<1>6. /\ hpc'[p] \in {"durable", "result"}
      /\ hpc'[p] = "durable" => journal'[job[p]] = "transition"
      /\ hroute'[p] \in Completed => hroute[p] \in Completed
  BY <1>2 DEF AppendTransition, TransitionFails, WriteTerminal, Move, Finish, Record,
         HelperType, FilesType, Completed, Refused, Revalidated, Pending
<1>7. pc[p] # "judged" \/ outcome[p] # Refused
  BY <1>2 DEF ClaimInv, ProcInv
<1>8. ProcInv(p)'
  BY <1>1, <1>2, <1>3, <1>6, <1>7 DEF ClaimInv, ProcInv, Owner
<1> QED BY <1>1, <1>2, <1>3, <1>4, <1>5, <1>8, OwnerStep

\* fastboot is let run, and ends.
LEMMA FlashClaims ==
  ASSUME TypeInv, ClaimInv, NEW p \in Proc, Resume(p) \/ FlashCompletes(p)
  PROVE  ClaimInv'
<1>1. /\ UNCHANGED <<marker, journal, reports>>
      /\ UNCHANGED <<pc, mode, job, outcome, hroute>>
      /\ hpc[p] \in {"durable", "flashing"}
  BY DEF Resume, FlashCompletes, files, python
<1>2. Owner(p) /\ job[p] \in Claim /\ journal[job[p]] = "transition"
  BY <1>1 DEF Owner, ModeInv, Leased, ClaimInv, ProcInv
<1>3. /\ hpc'[p] \in {"flashing", "written"}
      /\ hpc'[p] = "written" => job[p] \in written'
      /\ written \subseteq written' /\ written' \subseteq written \cup {job[p]}
  BY DEF Resume, FlashCompletes, HelperType
<1>4. flashes'[job[p]] = 1
  BY <1>2 DEF Resume, FlashCompletes, HistoryType, ClaimInv, ProcInv
<1>5. OthersKept(p)
  BY <1>1 DEF OthersKept, Resume, FlashCompletes, HelperType
<1>6. RecordsGrow(p)
  BY <1>1, <1>2, <1>3 DEF RecordsGrow, HistoryType, Resume, FlashCompletes
<1>7. ProcInv(p)'
  BY <1>1, <1>2, <1>3, <1>4 DEF ClaimInv, ProcInv, Owner
<1> QED BY <1>1, <1>2, <1>3, <1>4, <1>5, <1>6, <1>7, OwnerStep

\* The helper exits or dies, possibly in the middle of a record.
LEMMA LeaveClaims ==
  ASSUME TypeInv, ClaimInv, NEW p \in Proc,
         HelperDies(p) \/ \E intact \in BOOLEAN : WriteResult(p, intact)
  PROVE  ClaimInv'
<1>1. /\ UNCHANGED <<marker, reports, flashes, written>>
      /\ UNCHANGED <<pc, mode, job, outcome>>
      /\ hpc[p] \notin {"off", "exited"}
  BY DEF HelperDies, WriteResult, Record, files, python, history
<1>2. PICK r \in Route \cup {None} :
        Exit(p, r) /\ (r \in Completed => hroute[p] \in Completed)
  BY NoneAssumption
     DEF HelperDies, WriteResult, HelperType, Drifted, Route, Completed, Refused, Unknown,
         Passed, Revalidated, Pending
<1>3. /\ hpc'[p] \in {"off", "exited"}
      /\ hpc'[p] = "off" => hroute'[p] = None
      /\ hpc'[p] = "exited" => pc[p] = "waiting"
      /\ hroute'[p] \in Completed => hroute[p] \in Completed
  BY <1>2, NoneAssumption DEF Exit, HelperType, Route, Completed
<1>4. OthersKept(p)
  BY <1>1, <1>2 DEF OthersKept, Exit, HelperType
<1>5. Owner(p)' => Owner(p) /\ job'[p] = job[p]
  BY <1>1 DEF Owner
<1>6. CASE UNCHANGED journal
  <2>1. ProcInv(p)'
    BY <1>1, <1>3, <1>5, <1>6 DEF ClaimInv, ProcInv
  <2> QED BY <1>1, <1>4, <1>5, <1>6, <2>1, QuietStep
<1>7. CASE hpc[p] \in {"suspended", "terminal"} /\ Record(p, "malformed")
  <2>1. Owner(p) /\ job[p] \in Claim /\ journal[job[p]] = "initial"
    BY <1>7 DEF Owner, ModeInv, Leased, ClaimInv, ProcInv
  <2>2. flashes[job[p]] = 0 /\ job[p] \notin written
    BY <2>1 DEF ClaimInv, Counted
  <2>3. RecordsGrow(p)
    BY <1>1, <1>7, <2>1 DEF RecordsGrow, FilesType, Record
  <2>4. pc[p] # "judged" \/ outcome[p] # Refused
    BY <2>1 DEF ClaimInv, ProcInv
  <2>5. ProcInv(p)'
    BY <1>1, <1>3, <1>5, <2>4 DEF ClaimInv, ProcInv
  <2> QED BY <1>1, <1>4, <2>1, <2>2, <2>3, <2>5, OwnerStep
<1>8. UNCHANGED journal \/ (hpc[p] \in {"suspended", "terminal"} /\ Record(p, "malformed"))
  BY DEF HelperDies, WriteResult, files
<1> QED BY <1>6, <1>7, <1>8

LEMMA IdleClaims ==
  ASSUME ClaimInv,
         \/ Tick \/ UNCHANGED vars
         \/ \E c \in Claim, t \in preflights : Approve(c, t)
  PROVE  ClaimInv'
<1>1. /\ UNCHANGED <<marker, journal, reports, flashes, written>>
      /\ UNCHANGED <<pc, mode, job, outcome, hpc, hroute>>
  BY DEF Tick, Approve, vars, files, python, helper, history
<1> QED BY <1>1 DEF ClaimInv, ProcInv, Owner, Exclusive, JournalSpent, Counted, Reported

LEMMA ClaimStep == TypeInv /\ ClaimInv /\ [Next]_vars => ClaimInv'
<1> SUFFICES ASSUME TypeInv, ClaimInv, [Next]_vars PROVE ClaimInv'
  OBVIOUS
<1>1. ASSUME NEW p \in Proc, PythonStep(p) \/ Stop(p) PROVE ClaimInv'
  BY <1>1, MarkerClaims, UnlinkClaims, IntentClaims, LaunchClaims, ResultClaims,
     JudgeClaims, ReportClaims, StopClaims DEF PythonStep
<1>2. ASSUME NEW p \in Proc, HelperStep(p) \/ HelperEvent(p) PROVE ClaimInv'
  BY <1>2, ApproachClaims, JournalClaims, FlashClaims, LeaveClaims
     DEF HelperStep, HelperEvent, FlashTimesOut
<1> QED BY <1>1, <1>2, IdleClaims, BeginClaims DEF Next

\* A published refusal stays true: no helper, not even one that outlived the run
\* that reported, runs fastboot flash under that claim.
THEOREM RefusalHolds == Spec => []RefusedMeansUntouched
<1>1. TypeInv /\ ClaimInv => RefusedMeansUntouched
  BY DEF FilesType, ClaimInv, Reported, Counted, RefusedMeansUntouched
<1> QED BY <1>1, TypeInit, TypeStep, ClaimInit, ClaimStep, PTL DEF Spec

\* A flash leaves its mark before it runs: the claim is consumed and the journal
\* carries the transition, for every reader and after every crash.
THEOREM FlashOnRecord == Spec => []FlashIsJournalled
<1>1. TypeInv /\ ClaimInv => FlashIsJournalled
  BY NoneAssumption
     DEF HistoryType, ClaimInv, Counted, JournalSpent, FlashIsJournalled, Outcome
<1> QED BY <1>1, TypeInit, TypeStep, ClaimInit, ClaimStep, PTL DEF Spec

-----------------------------------------------------------------------------
(* The ticket                                                              *)

LEMMA TicketInit == Init => Ticket!Init
BY NoneAssumption DEF Init, Ticket!Init, Outcome, Closed, Answers, Verdicts

\* Most steps do not show.
LEMMA Hidden ==
  ASSUME UNCHANGED <<marker, flashes, written, reports>>, Closed' = Closed
  PROVE  UNCHANGED Ticket!vars
<1>1. Verdicts' = Verdicts
  BY DEF Verdicts, Answers
<1> QED BY <1>1 DEF Ticket!vars

LEMMA HiddenSteps ==
  ASSUME TypeInv, ClaimInv, NEW p \in Proc,
         \/ \E c \in Claim : CheckClaim(p, c) \/ RecoverIntent(p, c)
         \/ \E m \in ReadOnly, c \in Claim \cup {None} : Inspect(p, m, c)
         \/ UnlinkClaim(p) \/ Launch(p) \/ TakeResult(p) \/ RecoverResult(p)
         \/ HitOuterTimeout(p) \/ JudgeResult(p) \/ ReportPreflight(p) \/ Stop(p)
         \/ HelperFails(p) \/ TakeLock(p) \/ OpenIntent(p) \/ InspectDevice(p)
         \/ SeeDevice(p) \/ EnterBoundary(p) \/ CreateSuspended(p)
         \/ ResumeFails(p) \/ \E q \in BOOLEAN : FlashFails(p, q)
         \/ \E ok \in BOOLEAN : Revalidate(p, ok)
         \/ \E intact \in BOOLEAN : WriteResult(p, intact)
  PROVE  UNCHANGED Ticket!vars
<1>1. UNCHANGED <<marker, flashes, written, reports, journal>>
  BY DEF CheckClaim, RecoverIntent, Inspect, UnlinkClaim, Launch, TakeResult,
         RecoverResult, HitOuterTimeout, JudgeResult, ReportPreflight, Stop,
         HelperFails, TakeLock, OpenIntent, InspectDevice, SeeDevice, EnterBoundary,
         CreateSuspended, ResumeFails, FlashFails, Revalidate, WriteResult,
         files, history
<1>2. Closed' = Closed
  BY <1>1 DEF Closed
<1> QED BY <1>1, <1>2, Hidden

\* A record other than the terminal one does not show either.
LEMMA OpenRecord ==
  ASSUME TypeInv, NEW p \in Proc, NEW state \in {"initial", "transition", "malformed"},
         job[p] \in Claim, journal[job[p]] # "terminal",
         journal' = [journal EXCEPT ![job[p]] = state]
  PROVE  Closed' = Closed
BY DEF Closed, FilesType

LEMMA RecordSteps ==
  ASSUME TypeInv, ClaimInv, NEW p \in Proc,
         PublishIntent(p) \/ AppendTransition(p) \/ TransitionFails(p) \/ HelperDies(p)
  PROVE  UNCHANGED Ticket!vars
<1>1. UNCHANGED <<marker, flashes, written, reports>>
  BY DEF PublishIntent, AppendTransition, TransitionFails, HelperDies, Record, files, history
<1>2. CASE UNCHANGED journal
  BY <1>1, <1>2, Hidden DEF Closed
<1>3. CASE journal' # journal
  <2>1. PICK state \in {"initial", "transition", "malformed"} :
          journal' = [journal EXCEPT ![job[p]] = state]
    BY <1>3 DEF PublishIntent, AppendTransition, TransitionFails, HelperDies, Record, files
  <2>2. job[p] \in Claim
    BY <1>3 DEF PublishIntent, AppendTransition, TransitionFails, HelperDies, ModeInv,
                Leased, files
  <2>3. journal[job[p]] # "terminal"
    BY <1>3, NoneAssumption
       DEF PublishIntent, AppendTransition, TransitionFails, HelperDies, ClaimInv, ProcInv,
           files, Outcome
  <2> QED BY <1>1, <2>1, <2>2, <2>3, OpenRecord, Hidden
<1> QED BY <1>2, <1>3

LEMMA SpendStep ==
  ASSUME TypeInv, ClaimInv, NEW p \in Proc, PublishMarker(p)
  PROVE  [Ticket!Next]_(Ticket!vars)
<1>1. UNCHANGED <<flashes, written, reports, journal>> /\ job[p] \in Claim
  BY DEF PublishMarker, history, ModeInv
<1>2. Closed' = Closed /\ Verdicts' = Verdicts
  BY <1>1 DEF Closed, Verdicts, Answers
<1>3. CASE job[p] \in marker
  BY <1>1, <1>2, <1>3, Hidden DEF PublishMarker
<1>4. CASE job[p] \notin marker
  <2>1. Ticket!Spend({job[p]})
    BY <1>1, <1>2, <1>4 DEF PublishMarker, Ticket!Spend
  <2> QED BY <1>1, <2>1 DEF Ticket!Next
<1> QED BY <1>3, <1>4

LEMMA CloseStep ==
  ASSUME TypeInv, ClaimInv, NEW p \in Proc, WriteTerminal(p)
  PROVE  [Ticket!Next]_(Ticket!vars)
<1>1. /\ UNCHANGED <<marker, flashes, written, reports>>
      /\ hpc[p] = "terminal" /\ journal[job[p]] = "initial"
      /\ journal' = [journal EXCEPT ![job[p]] = "terminal"]
  BY DEF WriteTerminal, Record, history
<1>2. job[p] \in Claim /\ job[p] \in marker
  BY <1>1 DEF ModeInv, Leased, ClaimInv, ProcInv, Owner
<1>3. flashes[job[p]] = 0
  BY <1>1, <1>2 DEF ClaimInv, Counted
<1>4. Closed' = Closed \cup {job[p]} /\ job[p] \notin Closed
  BY <1>1, <1>2 DEF Closed, FilesType
<1>5. Verdicts' = Verdicts
  BY <1>1 DEF Verdicts, Answers
<1>6. Ticket!Close(job[p])
  BY <1>1, <1>2, <1>3, <1>4, <1>5 DEF Ticket!Close
<1> QED BY <1>2, <1>6 DEF Ticket!Next

LEMMA WriteSteps ==
  ASSUME TypeInv, ClaimInv, NEW p \in Proc, Resume(p) \/ FlashCompletes(p)
  PROVE  [Ticket!Next]_(Ticket!vars)
<1>1. /\ UNCHANGED <<marker, reports, journal>>
      /\ hpc[p] \in {"durable", "flashing"}
  BY DEF Resume, FlashCompletes, files
<1>2. job[p] \in Claim /\ job[p] \in marker /\ journal[job[p]] = "transition"
  BY <1>1 DEF ModeInv, Leased, ClaimInv, ProcInv, Owner
<1>3. Closed' = Closed /\ Verdicts' = Verdicts /\ job[p] \notin Closed
  BY <1>1, <1>2 DEF Closed, Verdicts, Answers
<1>4. CASE Resume(p)
  <2>0. flashes[job[p]] = 0
    BY <1>4 DEF Resume, ClaimInv, ProcInv
  <2>1. flashes[job[p]] = 0 /\ flashes' = [flashes EXCEPT ![job[p]] = 1]
    BY <1>4, <2>0 DEF Resume
  <2>2. UNCHANGED written
    BY <1>4 DEF Resume
  <2>3. Ticket!Start(job[p])
    BY <1>1, <1>2, <1>3, <2>1, <2>2 DEF Ticket!Start
  <2> QED BY <1>2, <2>3 DEF Ticket!Next
<1>5. CASE FlashCompletes(p)
  <2>1. flashes[job[p]] = 1
    BY <1>5 DEF FlashCompletes, ClaimInv, ProcInv
  <2>2. Ticket!Finish(job[p])
    BY <1>1, <1>3, <1>5, <2>1 DEF FlashCompletes, Ticket!Finish
  <2> QED BY <1>2, <2>2 DEF Ticket!Next
<1> QED BY <1>4, <1>5

\* A report shows as one verdict more, and the run may give it.
LEMMA PublishStep ==
  ASSUME TypeInv, ClaimInv, NEW p \in Proc, NEW out \in Route,
         UNCHANGED <<marker, flashes, written, journal>>,
         reports' = reports \cup {[claim |-> job[p], route |-> out]},
         job[p] \in marker,
         out = Refused => journal[job[p]] = "terminal",
         out \in Completed => job[p] \in written
  PROVE  [Ticket!Next]_(Ticket!vars)
<1>1. Answers' = Answers \cup {[claim |-> job[p], route |-> out]}
  BY DEF Answers
<1>2. Verdicts' = Verdicts \cup {<<job[p], Verdict(out)>>}
  <2> DEFINE new == [claim |-> job[p], route |-> out]
  <2>1. Answers' = Answers \cup {new} /\ new.claim = job[p] /\ new.route = out
    BY <1>1
  <2> HIDE DEF new
  <2>2. \A v : v \in Verdicts' <=>
               \E r \in Answers \cup {new} : v = <<r.claim, Verdict(r.route)>>
    BY <2>1, Zenon DEF Verdicts
  <2>3. \A v : v \in Verdicts <=> \E r \in Answers : v = <<r.claim, Verdict(r.route)>>
    BY Zenon DEF Verdicts
  <2>4. \A v : v \in Verdicts' <=> v \in Verdicts \/ v = <<job[p], Verdict(out)>>
    BY <2>1, <2>2, <2>3, Zenon
  <2> QED BY <2>4, Zenon
<1>3. Closed' = Closed /\ job[p] \in Claim
  BY DEF Closed, FilesType
<1>4. /\ Verdict(out) \in Ticket!Verdict
      /\ Verdict(out) = "refused" => out = Refused
      /\ Verdict(out) = "completed" => out \in Completed
  BY DEF Verdict, Ticket!Verdict
<1>5. Verdict(out) = "refused" => job[p] \in Closed
  BY <1>3, <1>4 DEF Closed
<1>6. Ticket!Publish(job[p], Verdict(out))
  BY <1>2, <1>3, <1>4, <1>5 DEF Ticket!Publish
<1> QED BY <1>3, <1>4, <1>6 DEF Ticket!Next

LEMMA ReportSteps ==
  ASSUME TypeInv, ClaimInv, NEW p \in Proc,
         \/ \E intact \in BOOLEAN : ReportExecute(p, intact)
         \/ ReportPostwrite(p) \/ ReportRecovery(p)
  PROVE  [Ticket!Next]_(Ticket!vars)
<1>1. UNCHANGED <<marker, journal, flashes, written>>
  BY DEF ReportExecute, ReportPostwrite, ReportRecovery, history
<1>2. ProcInv(p) /\ (pc[p] = "judged" => outcome[p] \in Route)
  BY DEF ClaimInv, ModeInv
<1>3. CASE ReportPostwrite(p)
  <2>1. Answers' = Answers
    BY <1>3 DEF Answers, ReportPostwrite, Route, Refused, Revalidated, Pending, Unknown,
                Passed
  <2>2. Verdicts' = Verdicts /\ Closed' = Closed
    BY <1>1, <2>1 DEF Verdicts, Closed
  <2> QED BY <1>1, <2>2 DEF Ticket!vars
<1>4. CASE ReportRecovery(p)
  BY <1>1, <1>2, <1>4, PublishStep DEF ReportRecovery, ProcInv
<1>5. ASSUME NEW intact \in BOOLEAN, ReportExecute(p, intact)
      PROVE  [Ticket!Next]_(Ticket!vars)
  <2> DEFINE out == IF intact THEN outcome[p] ELSE Downgraded(outcome[p])
  <2>1. /\ reports' = reports \cup {[claim |-> job[p], route |-> out]}
        /\ pc[p] = "judged"
    BY <1>5 DEF ReportExecute
  <2>2. out \in Route
    BY <1>2, <2>1 DEF Downgraded, Route
  <2>3. out \in Completed => outcome[p] \in Completed
    BY DEF Downgraded, Completed, Revalidated, Pending, Unknown
  <2>4. out = Refused => outcome[p] = Refused
    BY DEF Downgraded, Completed, Revalidated, Pending, Unknown, Refused
  <2> HIDE DEF out
  <2> QED BY <1>1, <1>2, <2>1, <2>2, <2>3, <2>4, PublishStep DEF ProcInv
<1> QED BY <1>3, <1>4, <1>5

LEMMA TicketStep == TypeInv /\ ClaimInv /\ [Next]_vars => [Ticket!Next]_(Ticket!vars)
<1> SUFFICES ASSUME TypeInv, ClaimInv, [Next]_vars PROVE [Ticket!Next]_(Ticket!vars)
  OBVIOUS
<1>1. ASSUME NEW p \in Proc, PythonStep(p) \/ Stop(p) PROVE [Ticket!Next]_(Ticket!vars)
  BY <1>1, SpendStep, RecordSteps, ReportSteps, HiddenSteps DEF PythonStep
<1>2. ASSUME NEW p \in Proc, HelperStep(p) \/ HelperEvent(p)
      PROVE  [Ticket!Next]_(Ticket!vars)
  BY <1>2, CloseStep, WriteSteps, RecordSteps, HiddenSteps
     DEF HelperStep, HelperEvent, FlashTimesOut
<1>3. ASSUME \/ Tick \/ UNCHANGED vars
             \/ \E c \in Claim, t \in preflights : Approve(c, t)
      PROVE  [Ticket!Next]_(Ticket!vars)
  <2>1. UNCHANGED <<marker, flashes, written, reports, journal>>
    BY <1>3 DEF Tick, Approve, vars, files, history
  <2> QED BY <2>1, Hidden DEF Closed
<1> QED BY <1>1, <1>2, <1>3, HiddenSteps DEF Next

\* The two programs together keep the promise of a one-use ticket, whatever
\* dies: one marker, one flash, and verdicts that no later step falsifies.
THEOREM KeepsTheTicket == Spec => TicketSpec
<1>1. Init /\ [][Next]_vars => [](TypeInv /\ ClaimInv)
  BY TypeInit, TypeStep, ClaimInit, ClaimStep, PTL
<1> QED BY <1>1, TicketInit, TicketStep, PTL DEF Spec, TicketSpec, Ticket!Spec

-----------------------------------------------------------------------------
(* The clock                                                               *)

\* The times a run and its helper may rely on: a claim is issued before it is
\* read, read before the launch, and fastboot is let run within both windows and
\* stopped after $WriteTimeoutMs.
TimedProc(p) ==
  /\ pc[p] \in {"checked", "marked", "unlinked"} =>
       held[p] \in Window /\ held[p].issued <= now
  /\ mode[p] = "Execute" /\ pc[p] = "intended" =>
       journal[job[p]] # None /\ intent[job[p]].issued <= now
  /\ mode[p] = "Execute" /\ pc[p] = "waiting" =>
       journal[job[p]] # None /\ intent[job[p]].issued <= launched[p]
  /\ hpc[p] = "flashing" =>
       /\ since[p] <= intent[job[p]].issued + TTL
       /\ since[p] <= intent[job[p]].preflight + TTL
       /\ now <= since[p] + WriteTimeout
       /\ job[p] \notin timedout

\* A claim the outer timeout gave up on is past its window for good.
TimeInv ==
  /\ \A c \in Claim : claim[c] # None => claim[c].issued <= now
  /\ \A c \in Claim : journal[c] # None => intent[c] \in Window
  /\ \A c \in timedout : journal[c] # None /\ now > intent[c].issued + TTL
  /\ \A p \in Proc : TimedProc(p)

LEMMA TimeInit == Init => TimeInv
BY NoneAssumption DEF Init, TimeInv, TimedProc

\* A journal, once published, stays with its window.
IntentsKept ==
  \A c \in Claim : journal[c] # None => journal'[c] # None /\ intent'[c] = intent[c]

OthersTimed(p) ==
  \A q \in Proc \ {p} :
    /\ pc'[q] = pc[q] /\ mode'[q] = mode[q] /\ job'[q] = job[q] /\ held'[q] = held[q]
    /\ launched'[q] = launched[q] /\ hpc'[q] = hpc[q] /\ since'[q] = since[q]

\* A step of p is seen through when what p relies on holds after it.
LEMMA TimedStep ==
  ASSUME TypeInv, ClaimInv, TimeInv, NEW p \in Proc, now' = now, OthersTimed(p),
         IntentsKept, TimedProc(p)',
         \A c \in Claim : claim'[c] # None => claim'[c] = claim[c],
         \A c \in Claim : journal'[c] # None => intent'[c] \in Window,
         \A c \in timedout' \ timedout :
           /\ c \in Claim /\ journal'[c] # None /\ now > intent'[c].issued + TTL
           /\ \A q \in Proc \ {p} : hpc[q] = "flashing" => job[q] # c
  PROVE  TimeInv'
<1>1. ASSUME NEW q \in Proc \ {p} PROVE TimedProc(q)'
  <2>1. TimedProc(q)
    BY DEF TimeInv
  <2>2. /\ pc'[q] = pc[q] /\ mode'[q] = mode[q] /\ job'[q] = job[q] /\ held'[q] = held[q]
        /\ launched'[q] = launched[q] /\ hpc'[q] = hpc[q] /\ since'[q] = since[q]
    BY DEF OthersTimed
  <2>3. hpc[q] = "flashing" => journal[job[q]] # None /\ job[q] \in Claim
    BY NoneAssumption DEF ClaimInv, ProcInv, ModeInv, Leased, Outcome
  <2>4. mode[q] = "Execute" => job[q] \in Claim
    BY DEF ModeInv
  <2> QED BY <2>1, <2>2, <2>3, <2>4 DEF TimedProc, IntentsKept
<1>2. \A c \in timedout' : journal'[c] # None /\ now' > intent'[c].issued + TTL
  BY DEF TimeInv, IntentsKept, HistoryType
<1>3. \A c \in Claim : claim'[c] # None => claim'[c].issued <= now'
  BY DEF TimeInv
<1> QED BY <1>1, <1>2, <1>3 DEF TimeInv

\* Time passes.
LEMMA TickTimes ==
  ASSUME TypeInv, TimeInv, Tick
  PROVE  TimeInv'
<1>1. /\ now \in Nat /\ now' = now + 1
      /\ \A p \in Proc : hpc[p] = "flashing" => now < since[p] + WriteTimeout
      /\ UNCHANGED <<files, python, helper, history>>
  BY DEF Tick
<1>2. /\ \A c \in Claim : claim[c] # None => claim[c].issued \in Nat
      /\ \A c \in Claim : journal[c] # None => intent[c].issued \in Nat
      /\ \A p \in Proc : since[p] \in Nat /\ launched[p] \in Nat
      /\ TTL \in Nat /\ WriteTimeout \in Nat
  BY TimesAssumption DEF FilesType, HelperType, PythonType, TimeInv, Window
<1>3. ASSUME NEW p \in Proc PROVE TimedProc(p)'
  <2>1. TimedProc(p)
    BY DEF TimeInv
  <2>2. /\ pc[p] \in {"checked", "marked", "unlinked"} => held[p].issued \in Nat
        /\ mode[p] = "Execute" /\ pc[p] = "intended" => intent[job[p]].issued \in Nat
    <3>1. mode[p] = "Execute" => job[p] \in Claim
      BY DEF ModeInv
    <3> QED BY <1>2, <2>1, <3>1 DEF TimedProc, Window
  <2> QED BY <1>1, <1>2, <2>1, <2>2 DEF TimedProc, files, python, helper, history
<1>4. \A c \in timedout : now + 1 > intent[c].issued + TTL
  <2>1. \A c \in timedout : intent[c].issued \in Nat /\ now > intent[c].issued + TTL
    BY <1>2 DEF TimeInv, HistoryType
  <2> QED BY <1>1, <1>2, <2>1
<1>5. \A c \in Claim : claim[c] # None => claim[c].issued <= now + 1
  BY <1>1, <1>2 DEF TimeInv
<1> QED BY <1>1, <1>3, <1>4, <1>5 DEF TimeInv, files, history

\* Invocations up to the launch.
LEMMA BeginTimes ==
  ASSUME TypeInv, ClaimInv, TimeInv, NEW p \in Proc,
         \/ \E c \in Claim : CheckClaim(p, c) \/ RecoverIntent(p, c)
         \/ \E m \in ReadOnly, c \in Claim \cup {None} : Inspect(p, m, c)
  PROVE  TimeInv'
<1>1. /\ UNCHANGED <<now, claim, journal, intent, timedout, hpc, since, launched>>
      /\ hpc[p] = "off" /\ pc'[p] \in {"checked", "intended", "judged"}
      /\ pc'[p] = "intended" => mode'[p] # "Execute"
  BY DEF CheckClaim, RecoverIntent, Inspect, Begin, files, helper, history, PythonType,
         ReadOnly
<1>2. OthersTimed(p)
  BY <1>1 DEF OthersTimed, CheckClaim, RecoverIntent, Inspect, Begin, PythonType
<1>3. pc'[p] = "checked" => held'[p] \in Window /\ held'[p].issued <= now
  <2>1. ASSUME NEW c \in Claim, CheckClaim(p, c)
        PROVE  held'[p] = claim[c] /\ claim[c] # None
    BY <2>1 DEF CheckClaim, PythonType
  <2>2. ASSUME NEW c \in Claim, RecoverIntent(p, c) PROVE pc'[p] = "judged"
    BY <2>2 DEF RecoverIntent, Begin, PythonType
  <2>3. ASSUME NEW m \in ReadOnly, NEW c \in Claim \cup {None}, Inspect(p, m, c)
        PROVE  pc'[p] = "intended"
    BY <2>3 DEF Inspect, Begin, PythonType
  <2> QED BY <2>1, <2>2, <2>3 DEF TimeInv, FilesType
<1>4. TimedProc(p)'
  BY <1>1, <1>3 DEF TimedProc
<1> QED BY <1>1, <1>2, <1>4, TimedStep DEF IntentsKept, TimeInv

LEMMA PrepareTimes ==
  ASSUME TypeInv, ClaimInv, TimeInv, NEW p \in Proc,
         PublishMarker(p) \/ UnlinkClaim(p) \/ PublishIntent(p)
  PROVE  TimeInv'
<1>1. /\ UNCHANGED <<now, timedout, hpc, since, mode, job>> /\ hpc[p] = "off"
      /\ pc[p] \in {"checked", "marked", "unlinked"}
      /\ pc'[p] \in {"marked", "unlinked", "intended", "idle"}
  BY DEF PublishMarker, UnlinkClaim, PublishIntent, To, End, helper, history, PythonType,
         ClaimInv, ProcInv
<1>2. OthersTimed(p)
  BY <1>1 DEF OthersTimed, PublishMarker, UnlinkClaim, PublishIntent, To, End, PythonType
<1>3. /\ TimedProc(p) /\ held[p] \in Window /\ held[p].issued <= now /\ job[p] \in Claim
  BY <1>1 DEF TimeInv, TimedProc, ModeInv
<1>4. \A c \in Claim : claim'[c] # None => claim'[c] = claim[c]
  BY <1>3 DEF PublishMarker, UnlinkClaim, PublishIntent, FilesType
<1>5. CASE PublishIntent(p)
  <2>1. /\ journal[job[p]] = None /\ journal' = [journal EXCEPT ![job[p]] = "initial"]
        /\ intent' = [intent EXCEPT ![job[p]] = held[p]] /\ pc'[p] = "intended"
    BY <1>5 DEF PublishIntent, To, PythonType
  <2>2. IntentsKept
    BY <2>1 DEF IntentsKept, FilesType
  <2>3. \A c \in Claim : journal'[c] # None => intent'[c] \in Window
    BY <1>3, <2>1 DEF TimeInv, FilesType
  <2>4. journal'[job[p]] # None /\ intent'[job[p]] = held[p]
    BY <1>3, <2>1, NoneAssumption DEF FilesType, Outcome
  <2>5. TimedProc(p)'
    BY <1>1, <1>3, <2>1, <2>4 DEF TimedProc
  <2> QED BY <1>1, <1>2, <1>4, <2>2, <2>3, <2>5, TimedStep
<1>6. CASE PublishMarker(p) \/ UnlinkClaim(p)
  <2>1. /\ UNCHANGED <<journal, intent>>
        /\ pc'[p] = "idle" \/ (pc'[p] \in {"marked", "unlinked"} /\ held'[p] = held[p])
    BY <1>6 DEF PublishMarker, UnlinkClaim, To, End, PythonType
  <2>2. TimedProc(p)'
    BY <1>1, <1>3, <2>1 DEF TimedProc
  <2> QED BY <1>1, <1>2, <1>4, <2>1, <2>2, TimedStep DEF IntentsKept, TimeInv
<1> QED BY <1>5, <1>6

LEMMA LaunchTimes ==
  ASSUME TypeInv, ClaimInv, TimeInv, NEW p \in Proc, Launch(p)
  PROVE  TimeInv'
<1>1. /\ UNCHANGED <<now, claim, journal, intent, timedout, mode, job>>
      /\ pc[p] = "intended" /\ pc'[p] = "waiting" /\ launched'[p] = now /\ hpc'[p] = "audit"
  BY DEF Launch, files, history, PythonType, HelperType
<1>2. OthersTimed(p)
  BY DEF OthersTimed, Launch, PythonType, HelperType
<1>3. TimedProc(p)
  BY DEF TimeInv
<1>4. TimedProc(p)'
  BY <1>1, <1>3 DEF TimedProc
<1> QED BY <1>1, <1>2, <1>4, TimedStep DEF IntentsKept, TimeInv

\* Invocations after the launch, other than the outer timeout.
LEMMA ReturnTimes ==
  ASSUME TypeInv, ClaimInv, TimeInv, NEW p \in Proc,
         \/ TakeResult(p) \/ RecoverResult(p) \/ JudgeResult(p) \/ ReportPreflight(p)
         \/ ReportPostwrite(p) \/ ReportRecovery(p) \/ Stop(p)
         \/ \E intact \in BOOLEAN : ReportExecute(p, intact)
  PROVE  TimeInv'
<1>1. /\ UNCHANGED <<now, claim, journal, intent, timedout, since, mode, job>>
      /\ pc'[p] \in {"returned", "judged", "idle"}
      /\ hpc'[p] = hpc[p] \/ hpc'[p] = "off"
  BY DEF TakeResult, RecoverResult, JudgeResult, ReportPreflight, ReportPostwrite,
         ReportRecovery, Stop, ReportExecute, Accept, Reap, End, files, helper, history,
         PythonType, HelperType
<1>2. OthersTimed(p)
  BY DEF OthersTimed, TakeResult, RecoverResult, JudgeResult, ReportPreflight,
         ReportPostwrite, ReportRecovery, Stop, ReportExecute, Accept, Reap, End, helper,
         PythonType, HelperType
<1>3. TimedProc(p)
  BY DEF TimeInv
<1>4. TimedProc(p)'
  BY <1>1, <1>3 DEF TimedProc
<1> QED BY <1>1, <1>2, <1>4, TimedStep DEF IntentsKept, TimeInv

\* The run gives up: OUTER_TIMEOUT_SECONDS is longer than any window and any
\* flash that started in one, so no fastboot runs and none can be let run.
LEMMA TimeoutTimes ==
  ASSUME TypeInv, ClaimInv, TimeInv, NEW p \in Proc, HitOuterTimeout(p)
  PROVE  TimeInv'
<1>1. /\ UNCHANGED <<now, claim, journal, intent, since, mode, job>>
      /\ timedout' = timedout \cup {job[p]} /\ now >= launched[p] + OuterTimeout
      /\ pc[p] = "waiting" /\ mode[p] = "Execute" /\ pc'[p] = "returned"
      /\ hpc'[p] = hpc[p] \/ hpc'[p] = "off"
  BY DEF HitOuterTimeout, Accept, Reap, files, PythonType, HelperType
<1>2. OthersTimed(p)
  BY DEF OthersTimed, HitOuterTimeout, Accept, Reap, PythonType, HelperType
<1>3. /\ job[p] \in Claim /\ journal[job[p]] # None
      /\ intent[job[p]] \in Window /\ intent[job[p]].issued <= launched[p]
  BY <1>1 DEF ModeInv, TimeInv, TimedProc
<1>4. /\ now \in Nat /\ launched[p] \in Nat /\ since[p] \in Nat
      /\ intent[job[p]].issued \in Nat
      /\ {TTL, WriteTimeout, OuterTimeout} \subseteq Nat /\ OuterTimeout > TTL + WriteTimeout
  BY <1>3, TimesAssumption DEF PythonType, HelperType, Window
<1>5. now > intent[job[p]].issued + TTL + WriteTimeout
  BY <1>1, <1>3, <1>4
<1>6. hpc[p] # "flashing"
  <2>1. TimedProc(p)
    BY DEF TimeInv
  <2>2. hpc[p] = "flashing" =>
          since[p] <= intent[job[p]].issued + TTL /\ now <= since[p] + WriteTimeout
    BY <2>1 DEF TimedProc
  <2> QED BY <1>4, <1>5, <2>2
<1>7. \A q \in Proc \ {p} : hpc[q] = "flashing" => job[q] # job[p]
  <2>1. Owner(p) /\ \A q \in Proc : hpc[q] = "flashing" => Owner(q)
    BY <1>1 DEF Owner, ModeInv, Leased
  <2> QED BY <2>1 DEF ClaimInv, Exclusive
<1>8. TimedProc(p)'
  BY <1>1, <1>6 DEF TimedProc
<1>9. now > intent[job[p]].issued + TTL
  BY <1>4, <1>5
<1> QED BY <1>1, <1>2, <1>3, <1>7, <1>8, <1>9, TimedStep DEF IntentsKept, TimeInv

\* The helper, other than letting fastboot run.
LEMMA HelperTimes ==
  ASSUME TypeInv, ClaimInv, TimeInv, NEW p \in Proc,
         HelperStep(p) \/ HelperEvent(p), ~Resume(p)
  PROVE  TimeInv'
<1>1. /\ UNCHANGED <<now, claim, intent, timedout, python>> /\ hpc'[p] # "flashing"
  BY DEF HelperStep, HelperEvent, HelperFails, TakeLock, OpenIntent, InspectDevice, SeeDevice,
         EnterBoundary, CreateSuspended, AppendTransition, TransitionFails, ResumeFails,
         FlashTimesOut, FlashFails, FlashCompletes, Revalidate, WriteTerminal, WriteResult,
         HelperDies, Refuse, Move, Finish, Exit, Record, files, history, HelperType
<1>2. \A q \in Proc \ {p} : hpc'[q] = hpc[q] /\ since'[q] = since[q]
  BY DEF HelperStep, HelperEvent, HelperFails, TakeLock, OpenIntent, InspectDevice, SeeDevice,
         EnterBoundary, CreateSuspended, AppendTransition, TransitionFails, ResumeFails,
         FlashTimesOut, FlashFails, FlashCompletes, Revalidate, WriteTerminal, WriteResult,
         HelperDies, Refuse, Move, Finish, Exit, HelperType
<1>3. OthersTimed(p)
  BY <1>1, <1>2 DEF OthersTimed, python
<1>4. journal' = journal \/ \E state \in Outcome : hpc[p] \in {"suspended", "terminal"} /\
                              journal' = [journal EXCEPT ![job[p]] = state]
  BY DEF HelperStep, HelperEvent, HelperFails, TakeLock, OpenIntent, InspectDevice, SeeDevice,
         EnterBoundary, CreateSuspended, AppendTransition, TransitionFails, ResumeFails,
         FlashTimesOut, FlashFails, FlashCompletes, Revalidate, WriteTerminal, WriteResult,
         HelperDies, Record, files, Outcome
<1>5. hpc[p] \in {"suspended", "terminal"} => job[p] \in Claim /\ journal[job[p]] # None
  BY NoneAssumption DEF ClaimInv, ProcInv, ModeInv, Leased, Outcome
<1>6. IntentsKept /\ \A c \in Claim : journal'[c] # None => journal[c] # None
  BY <1>1, <1>4, <1>5, NoneAssumption DEF IntentsKept, FilesType
<1>7. TimedProc(p)
  BY DEF TimeInv
<1>8. mode[p] = "Execute" => job[p] \in Claim
  BY DEF ModeInv
<1>9. TimedProc(p)'
  BY <1>1, <1>6, <1>7, <1>8 DEF TimedProc, IntentsKept, python
<1> QED BY <1>1, <1>3, <1>6, <1>9, TimedStep DEF TimeInv

\* fastboot is let run: the window is looked at last, and a claim that timed out
\* is past it.
LEMMA ResumeTimes ==
  ASSUME TypeInv, ClaimInv, TimeInv, NEW p \in Proc, Resume(p)
  PROVE  TimeInv'
<1>1. /\ UNCHANGED <<now, claim, journal, intent, timedout, python>>
      /\ hpc[p] = "durable" /\ since'[p] = now /\ WindowFresh(intent[job[p]])
  BY DEF Resume, files, HelperType
<1>2. OthersTimed(p)
  BY <1>1 DEF OthersTimed, Resume, python, HelperType
<1>3. job[p] \in Claim /\ journal[job[p]] # None
  BY <1>1, NoneAssumption DEF ClaimInv, ProcInv, ModeInv, Leased, Outcome
<1>4. intent[job[p]].issued \in Nat /\ TTL \in Nat /\ WriteTimeout \in Nat /\ now \in Nat
  BY <1>3, TimesAssumption DEF TimeInv, Window
<1>5. now <= intent[job[p]].issued + TTL /\ now <= intent[job[p]].preflight + TTL
  BY <1>1 DEF WindowFresh
<1>6. job[p] \notin timedout
  BY <1>4, <1>5 DEF TimeInv
<1>7. now <= now + WriteTimeout
  BY <1>4
<1>8. TimedProc(p)
  BY DEF TimeInv
<1>9. TimedProc(p)'
  BY <1>1, <1>5, <1>6, <1>7, <1>8 DEF TimedProc, python
<1> QED BY <1>1, <1>2, <1>9, TimedStep DEF IntentsKept, TimeInv

\* Every step keeps the times.
LEMMA TimeStep == TypeInv /\ ClaimInv /\ TimeInv /\ [Next]_vars => TimeInv'
<1> SUFFICES ASSUME TypeInv, ClaimInv, TimeInv, [Next]_vars PROVE TimeInv'
  OBVIOUS
<1>1. ASSUME NEW c \in Claim, NEW t \in preflights, Approve(c, t) PROVE TimeInv'
  <2>1. /\ UNCHANGED <<now, journal, intent, timedout, python, hpc, since>>
        /\ claim' = [claim EXCEPT ![c] = [issued |-> now, preflight |-> t]]
    BY <1>1 DEF Approve, helper, history
  <2>2. \A d \in Claim : claim'[d] # None => claim'[d].issued <= now
    BY <2>1, TimesAssumption DEF TimeInv, FilesType
  <2>3. \A p \in Proc : TimedProc(p)'
    BY <2>1 DEF TimeInv, TimedProc, python
  <2> QED BY <2>1, <2>2, <2>3 DEF TimeInv
<1>2. ASSUME NEW p \in Proc, PythonStep(p) \/ Stop(p) PROVE TimeInv'
  BY <1>2, PrepareTimes, LaunchTimes, ReturnTimes, TimeoutTimes DEF PythonStep
<1>3. ASSUME NEW p \in Proc, HelperStep(p) \/ HelperEvent(p) PROVE TimeInv'
  BY <1>3, HelperTimes, ResumeTimes
<1>4. CASE UNCHANGED vars
  BY <1>4 DEF vars, files, python, helper, history, TimeInv, TimedProc
<1> QED BY <1>1, <1>2, <1>3, <1>4, TickTimes, BeginTimes DEF Next

\* For every pair of timeouts with OUTER_TIMEOUT_SECONDS beyond the approval and
\* the write timeout together, writing starts inside the approved window and is
\* over, for good, when the run that started it gives up.
THEOREM WritingKeepsTime == Spec => []WriteInTime
<1>1. TypeInv /\ TimeInv => WriteInTime
  BY DEF TimeInv, TimedProc, WriteInTime, FlashInWindow, QuietAfterTimeout
<1> QED BY <1>1, TypeInit, TypeStep, ClaimInit, ClaimStep, TimeInit, TimeStep, PTL DEF Spec

-----------------------------------------------------------------------------
(* The way to a free device lock                                           *)

\* How many steps a helper has left at most.
HelperLeft(at) ==
  CASE at = "audit" -> 10 [] at = "locked" -> 9 [] at = "leased" -> 8
    [] at = "seen" -> 7 [] at = "boundary" -> 6 [] at = "suspended" -> 5
    [] at = "durable" -> 4 [] at = "flashing" -> 3
    [] at \in {"written", "terminal"} -> 2 [] at = "result" -> 1
    [] OTHER -> 0

Ahead == {"audit", "locked", "leased", "seen", "boundary", "suspended", "durable"}

\* How many seconds it may still wait for fastboot.
WaitLeft(p) ==
  CASE hpc[p] \in Ahead -> WriteTimeout
    [] hpc[p] = "flashing" -> since[p] + WriteTimeout - now
    [] OTHER -> 0

Left(p) == HelperLeft(hpc[p]) + WaitLeft(p)

\* What the helper of p does is not done to another one.
Apart(p) == \A q \in Proc \ {p} : Left(q)' = Left(q)

DeviceCount ==
  /\ \A p \in Proc : HelperStep(p) \/ HelperEvent(p) => Left(p)' < Left(p) /\ Apart(p)
  /\ \A p \in Proc : lock = p => Left(p)' <= Left(p)
  /\ Tick => \A p \in Proc : hpc[p] = "flashing" => Left(p)' = Left(p) - 1

\* The device lock is open in a helper that is still to close it, and can: its
\* checks may fail, its wait is not over time, and the journal it is to close is
\* as it left it.
LockIsUsed ==
  lock # None =>
    /\ hpc[lock] \in Busy \cup {"result"}
    /\ hpc[lock] = "flashing" => now <= since[lock] + WriteTimeout
    /\ hpc[lock] = "terminal" => journal[job[lock]] = "initial"
    /\ Left(lock) \in 1 .. 9 + WriteTimeout

HolderInv == \A p \in Proc : /\ lock = p => hpc[p] \in Busy \cup {"result"}
                             /\ since[p] <= now

LEMMA HolderInit == Init => HolderInv
<1> SUFFICES ASSUME Init, NEW p \in Proc PROVE lock # p /\ since[p] <= now
  BY DEF HolderInv
<1>1. lock # p
  BY NoneAssumption DEF Init
<1>2. since[p] = 0 /\ now = 0
  BY DEF Init
<1> QED BY <1>1, <1>2

\* The numbers that the count is made of.
LEMMA CountNumbers ==
  ASSUME TypeInv, TimeInv, HolderInv, NEW p \in Proc
  PROVE  /\ HelperLeft(hpc[p]) \in 0 .. 10
         /\ WriteTimeout \in Nat /\ now \in Nat /\ since[p] \in Nat
         /\ hpc[p] = "flashing" => since[p] + WriteTimeout - now \in 0 .. WriteTimeout
         /\ WaitLeft(p) \in 0 .. WriteTimeout
<1>1. HelperLeft(hpc[p]) \in 0 .. 10
  BY DEF HelperLeft
<1>2. WriteTimeout \in Nat /\ now \in Nat /\ since[p] \in Nat
  BY TimesAssumption DEF HelperType
<1>3. hpc[p] = "flashing" => since[p] + WriteTimeout - now \in 0 .. WriteTimeout
  BY <1>2 DEF TimeInv, TimedProc, HolderInv
<1>4. WaitLeft(p) \in 0 .. WriteTimeout
  BY <1>2, <1>3 DEF WaitLeft, Ahead
<1> QED BY <1>1, <1>2, <1>3, <1>4

\* Left changes with the helper's place, and with the clock while it waits.
LEMMA SameLeft ==
  ASSUME NEW p \in Proc, hpc'[p] = hpc[p], since'[p] = since[p],
         hpc[p] # "flashing" \/ now' = now
  PROVE  Left(p)' = Left(p)
<1>1. CASE hpc[p] # "flashing"
  BY <1>1 DEF Left, WaitLeft, Ahead
<1>2. CASE now' = now
  BY <1>2 DEF Left, WaitLeft
<1> QED BY <1>1, <1>2

\* Where the steps of a helper lead.
LEMMA HelperMoves ==
  ASSUME TypeInv, NEW p \in Proc, HelperStep(p) \/ HelperEvent(p)
  PROVE  /\ now' = now
         /\ \A q \in Proc \ {p} : hpc'[q] = hpc[q] /\ since'[q] = since[q]
         /\ HelperLeft(hpc'[p]) < HelperLeft(hpc[p])
         /\ hpc'[p] = "flashing" => hpc[p] = "durable" /\ since'[p] = now
         /\ since'[p] \in {since[p], now, 0}
         /\ \/ lock' = lock /\ (lock = p => hpc'[p] \in Busy \cup {"result"})
            \/ lock = None /\ lock' = p /\ hpc'[p] \in Busy
            \/ lock = p /\ lock' = None
<1> USE DEF HelperType
<1>1. CASE HelperFails(p)
  BY <1>1 DEF HelperFails, Refuse, Finish, HelperLeft, Busy, Leased
<1>2. CASE TakeLock(p)
  BY <1>2 DEF TakeLock, HelperLeft, Busy, Leased
<1>3. CASE OpenIntent(p) \/ InspectDevice(p) \/ SeeDevice(p) \/ EnterBoundary(p)
  BY <1>3 DEF OpenIntent, InspectDevice, SeeDevice, EnterBoundary, Move, Finish, HelperLeft,
              Busy, Leased
<1>4. CASE CreateSuspended(p) \/ AppendTransition(p) \/ TransitionFails(p) \/ ResumeFails(p)
  BY <1>4 DEF CreateSuspended, AppendTransition, TransitionFails, ResumeFails, Move, Finish,
              HelperLeft, Busy, Leased
<1>5. CASE Resume(p)
  BY <1>5 DEF Resume, HelperLeft, Busy, Leased
<1>6. CASE FlashCompletes(p) \/ \E q \in BOOLEAN : FlashFails(p, q)
  BY <1>6 DEF FlashCompletes, FlashFails, HelperLeft, Busy, Leased
<1>7. CASE WriteTerminal(p) \/ \E ok \in BOOLEAN : Revalidate(p, ok)
  BY <1>7 DEF WriteTerminal, Revalidate, Move, Finish, HelperLeft, Busy, Leased
<1>8. CASE HelperDies(p) \/ \E intact \in BOOLEAN : WriteResult(p, intact)
  <2>1. /\ hpc[p] \in HelperPC \ {"off", "exited"}
        /\ \E r \in Route \cup {None} : Exit(p, r)
        /\ now' = now
    BY <1>8 DEF HelperDies, WriteResult, HelperPC, Drifted, Route
  <2> QED BY <2>1 DEF Exit, HelperLeft, HelperPC
<1> QED BY <1>1, <1>2, <1>3, <1>4, <1>5, <1>6, <1>7, <1>8
        DEF HelperStep, HelperEvent, FlashTimesOut

\* Invocations leave the helpers that have the device lock alone.
LEMMA OtherSteps ==
  ASSUME TypeInv, ClaimInv, HolderInv, [Next]_vars,
         \A p \in Proc : ~HelperStep(p) /\ ~HelperEvent(p)
  PROVE  /\ lock' = lock /\ since' = since /\ now' \in {now, now + 1}
         /\ \A p \in Proc : lock = p => hpc'[p] = hpc[p]
<1>1. CASE Tick \/ UNCHANGED vars
  BY <1>1 DEF Tick, vars, helper
<1>2. ASSUME NEW c \in Claim, NEW t \in preflights, Approve(c, t) PROVE UNCHANGED helper
  BY <1>2 DEF Approve
<1>3. ASSUME NEW p \in Proc,
             \/ \E c \in Claim : CheckClaim(p, c) \/ RecoverIntent(p, c)
             \/ \E m \in ReadOnly, c \in Claim \cup {None} : Inspect(p, m, c)
      PROVE  UNCHANGED helper
  BY <1>3 DEF CheckClaim, RecoverIntent, Inspect
<1>4. ASSUME NEW p \in Proc,
             \/ PublishMarker(p) \/ UnlinkClaim(p) \/ PublishIntent(p) \/ JudgeResult(p)
             \/ \E intact \in BOOLEAN : ReportExecute(p, intact)
             \/ ReportPreflight(p) \/ ReportPostwrite(p) \/ ReportRecovery(p)
      PROVE  UNCHANGED helper
  BY <1>4 DEF PublishMarker, UnlinkClaim, PublishIntent, JudgeResult, ReportExecute,
              ReportPreflight, ReportPostwrite, ReportRecovery
<1>5. ASSUME NEW p \in Proc, Launch(p)
      PROVE  /\ lock' = lock /\ since' = since
             /\ \A q \in Proc : lock = q => hpc'[q] = hpc[q]
  <2>1. hpc[p] = "off"
    BY <1>5 DEF Launch, ClaimInv, ProcInv
  <2>2. lock # p
    BY <2>1 DEF HolderInv, Busy, Leased
  <2> QED BY <1>5, <2>2 DEF Launch, HelperType
<1>6. ASSUME NEW p \in Proc,
             TakeResult(p) \/ RecoverResult(p) \/ HitOuterTimeout(p) \/ Stop(p)
      PROVE  /\ lock' = lock /\ since' = since
             /\ \A q \in Proc : lock = q => hpc'[q] = hpc[q]
  <2>1. Reap(p)
    BY <1>6 DEF TakeResult, RecoverResult, HitOuterTimeout, Stop, Accept
  <2>2. hpc'[p] = hpc[p] \/ hpc[p] = "exited"
    BY <2>1 DEF Reap, HelperType
  <2>3. hpc[p] = "exited" => lock # p
    BY DEF HolderInv, Busy, Leased
  <2> QED BY <2>1, <2>2, <2>3 DEF Reap, HelperType
<1>7. now' \in {now, now + 1}
  BY DEF Next, vars, Tick, Approve, CheckClaim, RecoverIntent, Inspect, PythonStep,
     PublishMarker, UnlinkClaim, PublishIntent, Launch, TakeResult, RecoverResult,
     HitOuterTimeout, JudgeResult, ReportExecute, ReportPreflight, ReportPostwrite,
     ReportRecovery, Stop
<1> QED BY <1>1, <1>2, <1>3, <1>4, <1>5, <1>6, <1>7 DEF Next, PythonStep, helper

LEMMA HolderStep == TypeInv /\ ClaimInv /\ HolderInv /\ [Next]_vars => HolderInv'
<1> SUFFICES ASSUME TypeInv, ClaimInv, HolderInv, [Next]_vars PROVE HolderInv'
  OBVIOUS
<1>1. ASSUME NEW p \in Proc, HelperStep(p) \/ HelperEvent(p) PROVE HolderInv'
  <2>1. /\ now' = now /\ since'[p] \in {since[p], now, 0}
        /\ \A q \in Proc \ {p} : hpc'[q] = hpc[q] /\ since'[q] = since[q]
    BY <1>1, HelperMoves
  <2>2. \A q \in Proc : since'[q] <= now'
    BY <2>1 DEF HolderInv, HelperType
  <2>3. \A q \in Proc : lock' = q => hpc'[q] \in Busy \cup {"result"}
    BY <1>1, <2>1, HelperMoves, NoneAssumption DEF HolderInv
  <2> QED BY <2>2, <2>3 DEF HolderInv
<1>2. CASE \A p \in Proc : ~HelperStep(p) /\ ~HelperEvent(p)
  <2>1. lock' = lock /\ since' = since /\ now' \in {now, now + 1}
    BY <1>2, OtherSteps
  <2>2. \A q \in Proc : since'[q] <= now'
    BY <2>1 DEF HolderInv, HelperType
  <2>3. \A q \in Proc : lock' = q => hpc'[q] \in Busy \cup {"result"}
    BY <1>2, <2>1, OtherSteps DEF HolderInv
  <2> QED BY <2>2, <2>3 DEF HolderInv
<1> QED BY <1>1, <1>2

\* The helper that has the device lock counts down, and nobody counts it up.
LEMMA DeviceCounts ==
  TypeInv /\ ClaimInv /\ TimeInv /\ HolderInv /\ [Next]_vars => [DeviceCount]_vars
<1> SUFFICES ASSUME TypeInv, ClaimInv, TimeInv, HolderInv, Next PROVE DeviceCount
  OBVIOUS
<1>1. ASSUME NEW p \in Proc, HelperStep(p) \/ HelperEvent(p)
      PROVE  Left(p)' \in Nat /\ Left(p)' < Left(p) /\ Apart(p)
  <2>1. /\ now' = now
        /\ \A q \in Proc \ {p} : hpc'[q] = hpc[q] /\ since'[q] = since[q]
        /\ HelperLeft(hpc'[p]) < HelperLeft(hpc[p])
        /\ hpc'[p] = "flashing" => hpc[p] = "durable" /\ since'[p] = now
    BY <1>1, HelperMoves
  <2>2. Apart(p)
    BY <2>1, SameLeft DEF Apart
  <2>3. /\ HelperLeft(hpc[p]) \in 0 .. 10 /\ WaitLeft(p) \in 0 .. WriteTimeout
        /\ WriteTimeout \in Nat /\ now \in Nat /\ HelperLeft(hpc'[p]) \in 0 .. 10
    BY CountNumbers DEF HelperLeft
  <2>4. WaitLeft(p)' \in Nat /\ WaitLeft(p)' <= WaitLeft(p)
    <3>1. CASE hpc'[p] = "flashing"
      <4>1. WaitLeft(p) = WriteTimeout
        BY <2>1, <3>1 DEF WaitLeft, Ahead
      <4>2. WaitLeft(p)' = now + WriteTimeout - now
        BY <2>1, <3>1 DEF WaitLeft, Ahead
      <4> QED BY <2>3, <4>1, <4>2
    <3>2. CASE hpc'[p] \in Ahead
      <4>1. hpc[p] \in Ahead
        <5>1. HelperLeft(hpc'[p]) >= 4
          BY <3>2 DEF Ahead, HelperLeft
        <5>2. hpc[p] \notin Ahead => HelperLeft(hpc[p]) <= 3
          BY DEF HelperType, HelperPC, Ahead, HelperLeft
        <5> QED BY <2>1, <2>3, <5>1, <5>2
      <4>2. WaitLeft(p) = WriteTimeout /\ WaitLeft(p)' = WriteTimeout
        BY <3>2, <4>1 DEF WaitLeft, Ahead
      <4> QED BY <2>3, <4>2
    <3>3. CASE hpc'[p] \notin Ahead /\ hpc'[p] # "flashing"
      <4>1. WaitLeft(p)' = 0
        BY <3>3 DEF WaitLeft
      <4> QED BY <2>3, <4>1
    <3> QED BY <3>1, <3>2, <3>3
  <2> QED BY <2>1, <2>2, <2>3, <2>4 DEF Left
<1>2. ASSUME Tick
      PROVE  \A p \in Proc : Left(p)' = IF hpc[p] = "flashing" THEN Left(p) - 1 ELSE Left(p)
  <2>1. now' = now + 1 /\ hpc' = hpc /\ since' = since
    BY <1>2 DEF Tick, helper
  <2>2. ASSUME NEW p \in Proc, hpc[p] = "flashing" PROVE Left(p)' = Left(p) - 1
    <3>1. Left(p)' = 3 + (since[p] + WriteTimeout - (now + 1))
      BY <2>1, <2>2 DEF Left, HelperLeft, WaitLeft, Ahead
    <3>2. Left(p) = 3 + (since[p] + WriteTimeout - now)
      BY <2>2 DEF Left, HelperLeft, WaitLeft, Ahead
    <3> QED BY <3>1, <3>2, CountNumbers
  <2>3. ASSUME NEW p \in Proc, hpc[p] # "flashing" PROVE Left(p)' = Left(p)
    BY <2>1, <2>3, SameLeft
  <2> QED BY <2>2, <2>3
<1>3. ASSUME NEW p \in Proc PROVE Left(p) \in Nat
  <2>1. HelperLeft(hpc[p]) \in Nat /\ WaitLeft(p) \in Nat
    BY CountNumbers
  <2> QED BY <2>1 DEF Left
<1>4. ASSUME NEW p \in Proc, lock = p PROVE Left(p)' <= Left(p)
  <2>1. ASSUME NEW q \in Proc, HelperStep(q) \/ HelperEvent(q) PROVE Left(p)' <= Left(p)
    <3>1. CASE q = p
      BY <1>1, <1>3, <2>1, <3>1
    <3>2. CASE q # p
      <4>1. Left(p)' = Left(p)
        BY <1>1, <2>1, <3>2 DEF Apart
      <4> QED BY <1>3, <4>1
    <3> QED BY <3>1, <3>2
  <2>2. CASE Tick
    BY <1>2, <1>3, <2>2
  <2>3. CASE ~Tick /\ \A q \in Proc : ~HelperStep(q) /\ ~HelperEvent(q)
    <3>1. hpc'[p] = hpc[p] /\ since'[p] = since[p]
      BY <1>4, <2>3, OtherSteps
    <3>2. now' = now
      BY <2>3 DEF Next, Approve, CheckClaim, RecoverIntent, Inspect, PythonStep,
         PublishMarker, UnlinkClaim, PublishIntent, Launch, TakeResult, RecoverResult,
         HitOuterTimeout, JudgeResult, ReportExecute, ReportPreflight, ReportPostwrite,
         ReportRecovery, Stop
    <3>3. Left(p)' = Left(p)
      BY <3>1, <3>2, SameLeft
    <3> QED BY <1>3, <3>3
  <2> QED BY <2>1, <2>2, <2>3
<1> QED BY <1>1, <1>2, <1>4 DEF DeviceCount

\* The device lock is open only in a helper that can go on by itself, and is at
\* most nine steps and one write timeout from being closed; no other helper, no
\* run, and no kill puts that off, and every second of a hanging fastboot counts.
THEOREM DeviceCountsDown == Spec => []LockIsUsed /\ [][DeviceCount]_vars
<1>1. TypeInv /\ ClaimInv /\ TimeInv /\ HolderInv => LockIsUsed
  <2> SUFFICES ASSUME TypeInv, ClaimInv, TimeInv, HolderInv, NEW p \in Proc, lock = p
               PROVE  /\ hpc[p] \in Busy \cup {"result"}
                      /\ hpc[p] = "flashing" => now <= since[p] + WriteTimeout
                      /\ hpc[p] = "terminal" => journal[job[p]] = "initial"
                      /\ Left(p) \in 1 .. 9 + WriteTimeout
    BY DEF LockIsUsed, HelperType
  <2>1. hpc[p] \in Busy \cup {"result"}
    BY DEF HolderInv
  <2>2. HelperLeft(hpc[p]) \in 1 .. 9
    BY <2>1 DEF Busy, Leased, HelperLeft
  <2>3. Left(p) \in 1 .. 9 + WriteTimeout
    BY <2>2, CountNumbers DEF Left
  <2>4. hpc[p] = "flashing" => now <= since[p] + WriteTimeout
    BY DEF TimeInv, TimedProc
  <2>5. hpc[p] = "terminal" => journal[job[p]] = "initial"
    BY DEF ClaimInv, ProcInv
  <2> QED BY <2>1, <2>3, <2>4, <2>5
<1> QED BY <1>1, TypeInit, TypeStep, ClaimInit, ClaimStep, TimeInit, TimeStep, HolderInit,
           HolderStep, DeviceCounts, PTL DEF Spec

-----------------------------------------------------------------------------
(* What the ticket's promise comes to                                      *)

\* The invariant of WriteTicket.
TicketInv ==
  /\ flashes \in [Claim -> {0, 1}]
  /\ \A c \in Claim :
       /\ flashes[c] = 1 => c \in marker
       /\ c \in Closed => flashes[c] = 0
       /\ c \in written => flashes[c] = 1
       /\ <<c, "refused">> \in Verdicts => c \in Closed
       /\ <<c, "completed">> \in Verdicts => c \in written

LEMMA TicketSafe == TicketSpec => []TicketInv
<1>1. Ticket!Init => TicketInv
  BY DEF Ticket!Init, TicketInv
<1>2. TicketInv /\ [Ticket!Next]_(Ticket!vars) => TicketInv'
  <2> SUFFICES ASSUME TicketInv, [Ticket!Next]_(Ticket!vars) PROVE TicketInv'
    OBVIOUS
  <2> USE DEF TicketInv
  <2>1. ASSUME NEW T \in SUBSET Claim, Ticket!Spend(T) PROVE TicketInv'
    BY <2>1 DEF Ticket!Spend
  <2>2. ASSUME NEW c \in Claim, Ticket!Close(c) PROVE TicketInv'
    BY <2>2 DEF Ticket!Close
  <2>3. ASSUME NEW c \in Claim, Ticket!Start(c) PROVE TicketInv'
    BY <2>3 DEF Ticket!Start
  <2>4. ASSUME NEW c \in Claim, Ticket!Finish(c) PROVE TicketInv'
    BY <2>4 DEF Ticket!Finish
  <2>5. ASSUME NEW c \in Claim, NEW v \in Ticket!Verdict, Ticket!Publish(c, v)
        PROVE  TicketInv'
    BY <2>5 DEF Ticket!Publish
  <2>6. CASE UNCHANGED Ticket!vars
    BY <2>6 DEF Ticket!vars
  <2> QED BY <2>1, <2>2, <2>3, <2>4, <2>5, <2>6 DEF Ticket!Next
<1> QED BY <1>1, <1>2, PTL DEF TicketSpec, Ticket!Spec

\* No two reports of one claim contradict each other, whichever run or recovery
\* wrote them, and each of them is borne out by what fastboot did.
ReportsAgree ==
  /\ \A r, s \in reports : r.claim = s.claim /\ r.route = Refused => s.route \notin Completed
  /\ \A r \in reports : r.route \in Completed => r.claim \in written /\ flashes[r.claim] = 1

\* execute, recover-intent and a helper that outlived its run may report one
\* claim at any time and in any order: it follows from the ticket's promise
\* alone that the reports agree.
THEOREM ReportsNeverContradict == Spec => []ReportsAgree
<1>1. TypeInv /\ TicketInv => ReportsAgree
  <2> SUFFICES ASSUME TypeInv, TicketInv PROVE ReportsAgree
    OBVIOUS
  <2>1. ASSUME NEW r \in reports, r.route \in Route
        PROVE  r.claim \in Claim /\ <<r.claim, Verdict(r.route)>> \in Verdicts
    BY <2>1 DEF FilesType, Verdicts, Answers
  <2>2. /\ Refused \in Route /\ Verdict(Refused) = "refused" /\ Completed \subseteq Route
        /\ \A x \in Completed : Verdict(x) = "completed"
    BY DEF Route, Completed, Refused, Revalidated, Pending, Verdict
  <2>3. \A r \in reports : r.route \in Completed => r.claim \in written /\ flashes[r.claim] = 1
    BY <2>1, <2>2 DEF TicketInv
  <2>4. \A r \in reports : r.route = Refused => flashes[r.claim] = 0
    BY <2>1, <2>2 DEF TicketInv
  <2> QED BY <2>3, <2>4 DEF ReportsAgree
<1> QED BY <1>1, TypeInit, TypeStep, KeepsTheTicket, TicketSafe, PTL DEF Spec
=============================================================================
