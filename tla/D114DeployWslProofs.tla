------------------------ MODULE D114DeployWslProofs ------------------------
(***************************************************************************)
(* Theorems about the D114 deployment from WSL, for any runs, profiles,    *)
(* ledgers and times.                                                      *)
(***************************************************************************)
EXTENDS D114DeployWsl, TLAPS

\* The files whose names are keys, and the intent: the ones linked and synced in
\* two steps.
Keyed == {"claim", "attempt", "intent", "used"}

\* A run has a file in its hands, and one that waits has a fastboot.
DocInv ==
  \A p \in Proc :
    /\ pc[p] # "idle" => doc[p] \in File
    /\ pc[p] = "sync" => doc[p].kind \in Keyed /\ doc[p] \in files
    /\ pc[p] = "wait" => fastboot[p] \in File

TypeInv == TypeOK /\ DocInv

-----------------------------------------------------------------------------
(* Types                                                                   *)

LEMMA TypeInit == Init => TypeInv
<1> SUFFICES ASSUME Init PROVE TypeInv
  OBVIOUS
<1>1. 0 \in 0 .. MaxTicks /\ 0 \in 0 .. MaxPlugs
  BY DeployAssumption
<1>2. TypeOK
  BY <1>1 DEF Init, TypeOK, DeviceType, DiskType, RunType, HistoryType, PC
<1>3. DocInv
  BY DEF Init, DocInv
<1> QED BY <1>2, <1>3 DEF TypeInv

LEMMA NowIsStamp == DeviceType => now \in Stamp
BY DeployAssumption DEF DeviceType, Time, Stamp

\* The parts of the state a step leaves alone keep their types.
LEMMA Untouched ==
  ASSUME TypeInv
  PROVE  /\ UNCHANGED <<now, device>> => DeviceType'
         /\ UNCHANGED disk => DiskType'
         /\ UNCHANGED <<local, fastboot>> => RunType'
         /\ UNCHANGED history => HistoryType'
         /\ UNCHANGED <<local, fastboot, files>> => DocInv'
BY DEF TypeInv, TypeOK, DeviceType, DiskType, RunType, HistoryType, DocInv,
       device, disk, local, history

LEMMA LinkTypes ==
  ASSUME TypeInv, NEW p \in Proc, NEW f \in File, f.kind \in Keyed, Link(p, f)
  PROVE  TypeInv'
<1>1. DiskType' /\ RunType' /\ DocInv'
  BY DEF TypeInv, TypeOK, DiskType, RunType, DocInv, Link, Go, PC
<1>2. DeviceType' /\ HistoryType'
  BY Untouched DEF Link
<1> QED BY <1>1, <1>2 DEF TypeInv, TypeOK

LEMMA LeaveTypes ==
  ASSUME TypeInv, NEW p \in Proc, NEW f \in File, Leave(p, f)
  PROVE  TypeInv'
<1>1. DiskType' /\ RunType' /\ DocInv'
  BY DEF TypeInv, TypeOK, DiskType, RunType, DocInv, Leave, End, Go, PC
<1>2. DeviceType' /\ HistoryType'
  BY Untouched DEF Leave
<1> QED BY <1>1, <1>2 DEF TypeInv, TypeOK

LEMMA AdvanceTypes ==
  ASSUME TypeInv, NEW p \in Proc, NEW d \in File, NEW next \in PC \ {"wait", "sync"},
         Advance(p, d, next)
  PROVE  TypeInv'
<1>1. RunType' /\ DocInv'
  BY DEF TypeInv, TypeOK, RunType, DocInv, Advance, Go, disk
<1>2. DeviceType' /\ DiskType' /\ HistoryType'
  BY Untouched DEF Advance
<1> QED BY <1>1, <1>2 DEF TypeInv, TypeOK

\* A run that ends, refused, killed or done.
LEMMA EndTypes ==
  ASSUME TypeInv, NEW p \in Proc, End(p), UNCHANGED <<now, device, disk, fastboot, history>>
  PROVE  TypeInv'
<1>1. RunType' /\ DocInv'
  BY DEF TypeInv, TypeOK, RunType, DocInv, End, Go, PC, disk
<1> QED BY <1>1, Untouched DEF TypeInv, TypeOK

LEMMA SyncTypes ==
  ASSUME TypeInv, NEW p \in Proc, Sync(p)
  PROVE  TypeInv'
<1>1. After(doc[p].kind) \in PC \ {"idle", "sync", "wait"}
  BY DEF TypeInv, DocInv, Sync, After, Keyed, PC
<1>2. DiskType' /\ RunType' /\ DocInv'
  BY <1>1 DEF TypeInv, TypeOK, DiskType, RunType, DocInv, Sync, Go
<1> QED BY <1>2, Untouched DEF TypeInv, TypeOK, Sync

LEMMA SpawnTypes ==
  ASSUME TypeInv, NEW p \in Proc, Spawn(p)
  PROVE  TypeInv'
<1>1. doc[p] \in File
  BY DEF TypeInv, DocInv, Spawn
<1>2. doc[p].profile \in Profile
  BY <1>1 DEF File
<1>3. LedgerFor(doc[p]) \in Ledger
  BY <1>2, DeployAssumption DEF LedgerFor
<1>4. RunType'
  BY <1>1 DEF TypeInv, TypeOK, RunType, Spawn, Go, PC
<1>5. DocInv'
  BY <1>1 DEF TypeInv, TypeOK, RunType, DocInv, Spawn, Go, disk
<1>6. HistoryType'
  BY <1>3 DEF TypeInv, TypeOK, HistoryType, Spawn
<1> QED BY <1>4, <1>5, <1>6, Untouched DEF TypeInv, TypeOK, Spawn

\* A run whose fastboot is over, or has never begun, with the route in its file.
LEMMA AnswerTypes ==
  ASSUME TypeInv, NEW p \in Proc, NEW route \in Route, pc[p] # "idle", Answer(p, route),
         fastboot' \in [Proc -> File \cup {None}],
         \A q \in Proc : q # p => fastboot'[q] = fastboot[q],
         UNCHANGED files
  PROVE  RunType' /\ DocInv'
<1>1. doc[p] \in File /\ [doc[p] EXCEPT !.route = route] \in File
  BY DEF TypeInv, DocInv, File
<1>2. RunType'
  BY <1>1 DEF TypeInv, TypeOK, RunType, Answer, Go, PC
<1>3. DocInv'
  BY <1>1 DEF TypeInv, TypeOK, RunType, DocInv, Answer, Go
<1> QED BY <1>2, <1>3

LEMMA FileLedger == \A f \in File : LedgerFor(f) \in Ledger
BY DeployAssumption DEF File, LedgerFor

\* What is left behind when a fastboot is over.
LEMMA EndedTypes ==
  ASSUME TypeInv, NEW p \in Proc, fastboot[p] \in File, Ended(p),
         finished' \subseteq Ledger
  PROVE  /\ DeviceType' /\ DiskType' /\ HistoryType'
         /\ fastboot' \in [Proc -> File \cup {None}]
         /\ \A q \in Proc : q # p => fastboot'[q] = fastboot[q]
         /\ UNCHANGED files
<1>1. LedgerFor(fastboot[p]) \in Ledger
  BY FileLedger
<1>2. HistoryType'
  BY <1>1 DEF TypeInv, TypeOK, HistoryType, DeviceType, Ended
<1>3. DeviceType' /\ DiskType' /\ UNCHANGED files
  BY Untouched DEF Ended, disk
<1> QED BY <1>2, <1>3 DEF TypeInv, TypeOK, RunType, Ended

LEMMA FastbootEndsTypes ==
  ASSUME TypeInv, NEW p \in Proc, NEW ok \in BOOLEAN, FastbootEnds(p, ok)
  PROVE  TypeInv'
<1>1. fastboot[p] \in File /\ Ended(p)
  BY DEF TypeInv, TypeOK, RunType, FastbootEnds
<1>2. finished' \subseteq Ledger
  BY <1>1, FileLedger DEF TypeInv, TypeOK, HistoryType, FastbootEnds
<1>3. CASE pc[p] = "wait"
  <2>1. PICK route \in Route : Answer(p, route)
    BY <1>3 DEF FastbootEnds, Route
  <2> QED BY <1>1, <1>2, <1>3, <2>1, EndedTypes, AnswerTypes DEF TypeInv, TypeOK
<1>4. CASE pc[p] # "wait"
  <2>1. UNCHANGED <<pc, doc>>
    BY <1>4 DEF FastbootEnds, local
  <2>2. RunType' /\ DocInv'
    BY <1>1, <1>2, <1>4, <2>1, EndedTypes DEF TypeInv, TypeOK, RunType, DocInv
  <2> QED BY <1>1, <1>2, <2>2, EndedTypes DEF TypeInv, TypeOK
<1> QED BY <1>3, <1>4

LEMMA KillFastbootTypes ==
  ASSUME TypeInv, NEW p \in Proc, KillFastboot(p)
  PROVE  TypeInv'
<1>1. fastboot[p] \in File /\ Ended(p) /\ finished' \subseteq Ledger
  BY DEF TypeInv, TypeOK, DocInv, HistoryType, KillFastboot
<1>2. Answer(p, "unknown") /\ pc[p] # "idle"
  BY DEF KillFastboot
<1>3. RunType' /\ DocInv'
  BY <1>1, <1>2, EndedTypes, AnswerTypes DEF Route
<1> QED BY <1>1, <1>3, EndedTypes DEF TypeInv, TypeOK

LEMMA SpawnFailsTypes ==
  ASSUME TypeInv, NEW p \in Proc, SpawnFails(p)
  PROVE  TypeInv'
<1>1. Answer(p, "unknown") /\ pc[p] # "idle" /\ UNCHANGED <<fastboot, files>>
  BY DEF SpawnFails, disk
<1>2. RunType' /\ DocInv'
  BY <1>1, AnswerTypes DEF Route, TypeInv, TypeOK, RunType
<1> QED BY <1>2, Untouched DEF TypeInv, TypeOK, SpawnFails

LEMMA PowerLossTypes ==
  ASSUME TypeInv, PowerLoss
  PROVE  TypeInv'
<1>1. DiskType'
  BY DEF TypeInv, TypeOK, DiskType, PowerLoss
<1>2. RunType' /\ DocInv'
  BY DEF RunType, DocInv, PowerLoss, PC
<1>3. HistoryType'
  BY DEF TypeInv, TypeOK, HistoryType, DeviceType, PowerLoss
<1> QED BY <1>1, <1>2, <1>3, Untouched DEF TypeInv, TypeOK, PowerLoss

\* Clock and cable.
LEMMA WorldTypes ==
  ASSUME TypeInv, SetClock \/ Plug \/ Unplug
  PROVE  TypeInv'
<1>1. UNCHANGED <<disk, local, fastboot, history>>
  BY DEF SetClock, Plug, Unplug
<1>2. DiskType' /\ RunType' /\ HistoryType' /\ DocInv'
  BY <1>1, Untouched DEF disk
<1>3. DeviceType'
  <2> USE DeployAssumption DEF TypeInv, TypeOK, DeviceType
  <2>1. CASE SetClock
    BY <2>1 DEF SetClock, Time
  <2>2. CASE Plug
    BY <2>2 DEF Plug
  <2>3. CASE Unplug
    BY <2>3 DEF Unplug
  <2> QED BY <2>1, <2>2, <2>3
<1> QED BY <1>2, <1>3 DEF TypeInv, TypeOK

LEMMA DeployTypes ==
  ASSUME TypeInv, NEW p \in Proc, Deploy(p)
  PROVE  TypeInv'
<1> USE NowIsStamp DEF TypeInv, TypeOK
<1>1. ASSUME NEW f \in Profile, StartPreflight(p, f) PROVE TypeInv'
  <2> DEFINE d == [kind |-> "preflight", profile |-> f, checked |-> now, approved |-> 0,
                   claimed |-> 0, attempted |-> 0, reported |-> 0, route |-> None,
                   armed |-> 0, nonce |-> None, used |-> 0, passed |-> FALSE]
  <2>1. 0 \in Stamp /\ now \in Stamp
    BY DeployAssumption DEF Stamp
  <2>2. d \in File
    BY <2>1 DEF File, Kind
  <2>3. Advance(p, d, "preflight")
    BY <1>1 DEF StartPreflight
  <2> QED BY <2>2, <2>3, AdvanceTypes DEF PC
<1>2. CASE Preflight(p)
  BY <1>2, LeaveTypes DEF Preflight, DocInv
<1>3. CASE Approve(p)
  <2>1. PICK d \in files : Leave(p, [d EXCEPT !.kind = "approval", !.approved = now])
    BY <1>3 DEF Approve, OfKind
  <2>2. [d EXCEPT !.kind = "approval", !.approved = now] \in File
    BY DEF DiskType, File, Kind
  <2> QED BY <2>1, <2>2, LeaveTypes
<1>4. CASE CheckExecute(p)
  <2>1. PICK d \in files : Advance(p, [d EXCEPT !.claimed = now], "claim")
    BY <1>4 DEF CheckExecute, OfKind
  <2>2. [d EXCEPT !.claimed = now] \in File
    BY DEF DiskType, File
  <2> QED BY <2>1, <2>2, AdvanceTypes DEF PC
<1>5. CASE ConsumeClaim(p)
  <2>1. [doc[p] EXCEPT !.kind = "claim"] \in File
    BY <1>5 DEF ConsumeClaim, DocInv, File, Kind
  <2>2. [doc[p] EXCEPT !.kind = "claim"].kind \in Keyed
    BY <1>5 DEF ConsumeClaim, DocInv, File, Keyed
  <2> QED BY <1>5, <2>1, <2>2, LinkTypes DEF ConsumeClaim
<1>6. CASE QueryExecute(p)
  BY <1>6, AdvanceTypes DEF QueryExecute, DocInv, PC
<1>7. CASE PublishAttempt(p)
  <2>1. [doc[p] EXCEPT !.kind = "attempt", !.attempted = now] \in File
    BY <1>7 DEF PublishAttempt, DocInv, File, Kind
  <2>2. [doc[p] EXCEPT !.kind = "attempt", !.attempted = now].kind \in Keyed
    BY <1>7 DEF PublishAttempt, DocInv, File, Keyed
  <2> QED BY <1>7, <2>1, <2>2, LinkTypes DEF PublishAttempt
<1>8. CASE PublishIntent(p)
  <2>1. [doc[p] EXCEPT !.kind = "intent"] \in File
    BY <1>8 DEF PublishIntent, DocInv, File, Kind
  <2>2. [doc[p] EXCEPT !.kind = "intent"].kind \in Keyed
    BY <1>8 DEF PublishIntent, DocInv, File, Keyed
  <2> QED BY <1>8, <2>1, <2>2, LinkTypes DEF PublishIntent
<1>9. CASE PublishReport(p)
  <2>1. [doc[p] EXCEPT !.kind = "report", !.reported = now] \in File
    BY <1>9 DEF PublishReport, DocInv, File, Kind
  <2> QED BY <1>9, <2>1, LeaveTypes DEF PublishReport
<1> QED
  BY <1>1, <1>2, <1>3, <1>4, <1>5, <1>6, <1>7, <1>8, <1>9, SpawnTypes, SpawnFailsTypes,
     KillFastbootTypes DEF Deploy

LEMMA RevalidateTypes ==
  ASSUME TypeInv, NEW p \in Proc, Revalidate(p)
  PROVE  TypeInv'
<1> USE NowIsStamp DEF TypeInv, TypeOK
<1>1. CASE AuditArm(p)
  <2>1. PICK d \in files : Advance(p, d, "arm")
    BY <1>1 DEF AuditArm, OfKind
  <2> QED BY <2>1, AdvanceTypes DEF DiskType, PC
<1>2. CASE ObserveAbsence(p)
  BY <1>2, AdvanceTypes DEF ObserveAbsence, DocInv, PC
<1>3. CASE PublishToken(p)
  <2>1. PICK n \in Nonce :
          Leave(p, [doc[p] EXCEPT !.kind = "token", !.armed = now, !.nonce = n])
    BY <1>3 DEF PublishToken
  <2>2. [doc[p] EXCEPT !.kind = "token", !.armed = now, !.nonce = n] \in File
    BY <1>3 DEF PublishToken, DocInv, File, Kind
  <2> QED BY <2>1, <2>2, LeaveTypes
<1>4. CASE ConsumeToken(p)
  <2>1. [doc[p] EXCEPT !.kind = "used"] \in File
    BY <1>4 DEF ConsumeToken, DocInv, File, Kind
  <2>2. [doc[p] EXCEPT !.kind = "used"].kind \in Keyed
    BY <1>4 DEF ConsumeToken, DocInv, File, Keyed
  <2> QED BY <1>4, <2>1, <2>2, LinkTypes DEF ConsumeToken
<1>5. ASSUME NEW passed \in BOOLEAN, Requery(p, passed) PROVE TypeInv'
  <2>1. [doc[p] EXCEPT !.passed = passed] \in File
    BY <1>5 DEF Requery, DocInv, File
  <2> QED BY <1>5, <2>1, AdvanceTypes DEF Requery, PC
<1>6. CASE PublishPost(p)
  <2> DEFINE v == doc[p].passed /\ doc[p].used <= now /\ now <= doc[p].armed + ReplugTTL
  <2>1. v \in BOOLEAN
    OBVIOUS
  <2>2. [doc[p] EXCEPT !.kind = "post", !.passed = v] \in File
    BY <1>6, <2>1 DEF PublishPost, DocInv, File, Kind
  <2>3. Leave(p, [doc[p] EXCEPT !.kind = "post", !.passed = v])
    BY <1>6 DEF PublishPost
  <2> QED BY <2>2, <2>3, LeaveTypes
<1>7. CASE CheckToken(p)
  <2>1. PICK d \in files : Advance(p, [d EXCEPT !.used = now], "consume")
    BY <1>7 DEF CheckToken, OfKind
  <2>2. [d EXCEPT !.used = now] \in File
    BY DEF DiskType, File
  <2> QED BY <2>1, <2>2, AdvanceTypes DEF PC
<1> QED BY <1>1, <1>2, <1>3, <1>4, <1>5, <1>6, <1>7 DEF Revalidate

LEMMA TypeStep == TypeInv /\ [Next]_vars => TypeInv'
<1> SUFFICES ASSUME TypeInv, [Next]_vars PROVE TypeInv'
  OBVIOUS
<1>1. ASSUME NEW p \in Proc, Refuse(p) \/ Kill(p) PROVE TypeInv'
  BY <1>1, EndTypes DEF Refuse, Kill
<1>2. CASE UNCHANGED vars
  BY <1>2, Untouched DEF vars, disk, TypeInv, TypeOK
<1> QED
  BY <1>1, <1>2, DeployTypes, RevalidateTypes, SyncTypes, FastbootEndsTypes, PowerLossTypes,
     WorldTypes DEF Next

\* Every reachable state of the two programs is well typed (TypeOK).
THEOREM TypeCorrect == Spec => []TypeOK
<1>1. TypeInv => TypeOK
  BY DEF TypeInv
<1> QED BY TypeInit, TypeStep, <1>1, PTL DEF Spec

-----------------------------------------------------------------------------
(* Ledgers                                                                 *)

\* The run has published its attempt.
Past(p) ==
  \/ pc[p] \in {"intent", "spawn", "wait", "answer"}
  \/ pc[p] = "sync" /\ doc[p].kind \in {"attempt", "intent"}

\* The run, or the fastboot it has left behind, is at work for the ledger.
Holds(p, l) ==
  \/ Past(p) /\ LedgerFor(doc[p]) = l
  \/ fastboot[p] # None /\ LedgerFor(fastboot[p]) = l

\* The chain of the run has a file of the kind.
Known(S, k, p) == \E f \in S : f.kind = k /\ SameApproval(f, doc[p])

RunsKnown ==
  \A p \in Proc :
    /\ pc[p] \in {"query", "recheck"} \/ Past(p) => Known(durable, "claim", p)
    /\ Past(p) => Known(files, "attempt", p)
    /\ Past(p) /\ ~(pc[p] = "sync" /\ doc[p].kind = "attempt") => Known(durable, "attempt", p)
    /\ pc[p] \in {"spawn", "wait", "answer"} => Known(durable, "intent", p)

OneHolder == \A p, q \in Proc : \A l \in Ledger : p # q => ~(Holds(p, l) /\ Holds(q, l))

BootInv ==
  \A p \in Proc :
    /\ pc[p] \notin {"idle", "wait"} => fastboot[p] = None
    /\ fastboot[p] # None => writes[LedgerFor(fastboot[p])] = 1
    /\ pc[p] = "wait" => LedgerFor(fastboot[p]) = LedgerFor(doc[p])
    /\ Past(p) /\ pc[p] \notin {"wait", "answer"} => writes[LedgerFor(doc[p])] = 0

CountInv ==
  /\ writes \in [Ledger -> 0 .. 1]
  /\ \A l \in finished : writes[l] = 1
  /\ WriteOnRecord

LedgerInv == RunsKnown /\ OneHolder /\ BootInv /\ CountInv

LEMMA LedgerInit == Init => LedgerInv
BY DeployAssumption DEF Init, LedgerInv, RunsKnown, OneHolder, BootInv, CountInv, WriteOnRecord, Past, Holds

LEMMA SameLedger == \A f, g : SameApproval(f, g) => LedgerFor(f) = LedgerFor(g)
BY DEF SameApproval, LedgerFor

\* A step of p leaves the other runs alone.
Apart(p) ==
  \A q \in Proc : q # p =>
    /\ pc'[q] = pc[q] /\ doc'[q] = doc[q] /\ fastboot'[q] = fastboot[q]
    /\ Past(q)' = Past(q)

Grows == files \subseteq files' /\ durable \subseteq durable'

\* What the others have on record stays there.
LEMMA OthersKnown ==
  ASSUME TypeInv, RunsKnown, NEW p \in Proc, Apart(p), Grows
  PROVE  \A q \in Proc : q # p =>
    /\ pc'[q] \in {"query", "recheck"} \/ Past(q)' => Known(durable, "claim", q)'
    /\ Past(q)' => Known(files, "attempt", q)'
    /\ Past(q)' /\ ~(pc'[q] = "sync" /\ doc'[q].kind = "attempt") => Known(durable, "attempt", q)'
    /\ pc'[q] \in {"spawn", "wait", "answer"} => Known(durable, "intent", q)'
BY DEF RunsKnown, Known, Apart, Grows

LEMMA RecordKept ==
  ASSUME WriteOnRecord, Grows, UNCHANGED writes
  PROVE  WriteOnRecord'
BY DEF WriteOnRecord, Grows

\* Steps that take p nowhere near a write.
LEMMA Aside ==
  ASSUME TypeInv, LedgerInv, NEW p \in Proc, Apart(p), Grows, ~Past(p)', pc'[p] # "wait",
         fastboot'[p] = fastboot[p], pc'[p] # "idle" => fastboot[p] = None,
         pc'[p] \in {"query", "recheck"} => Known(durable, "claim", p)',
         UNCHANGED <<writes, finished>>
  PROVE  LedgerInv'
<1> USE DEF LedgerInv
<1>1. RunsKnown'
  BY OthersKnown DEF RunsKnown, Past
<1>2. OneHolder'
  BY DEF OneHolder, Holds, Apart
<1>3. BootInv'
  BY DEF BootInv, Apart
<1>4. CountInv'
  BY RecordKept DEF CountInv
<1> QED BY <1>1, <1>2, <1>3, <1>4

\* Steps of a run that has its ledger and keeps it.
LEMMA Onward ==
  ASSUME TypeInv, LedgerInv, NEW p \in Proc, Apart(p), Grows, Past(p), Past(p)',
         LedgerFor(doc[p])' = LedgerFor(doc[p]), pc[p] # "wait", pc'[p] # "wait",
         UNCHANGED <<fastboot, writes, finished>>,
         pc[p] = "answer" => pc'[p] = "answer",
         Known(durable, "claim", p)', Known(files, "attempt", p)', Known(durable, "attempt", p)',
         pc'[p] \in {"spawn", "wait", "answer"} => Known(durable, "intent", p)'
  PROVE  LedgerInv'
<1> USE DEF LedgerInv
<1>1. RunsKnown'
  BY OthersKnown DEF RunsKnown
<1>2. OneHolder'
  BY DEF OneHolder, Holds, Apart
<1>3. BootInv'
  BY DEF BootInv, Apart, Past
<1>4. CountInv'
  BY RecordKept DEF CountInv
<1> QED BY <1>1, <1>2, <1>3, <1>4

\* What the kinds of step do to their own run and to the others.
LEMMA LinkShape ==
  ASSUME TypeInv, NEW p \in Proc, NEW f, Link(p, f)
  PROVE  /\ Apart(p) /\ Grows /\ UNCHANGED <<durable, fastboot, writes, finished>>
         /\ pc'[p] = "sync" /\ doc'[p] = f /\ files' = files \cup {f}
<1> USE DEF TypeInv, TypeOK, RunType, Link, Go, history
<1>1. Grows
  BY DEF Grows
<1>2. Apart(p)
  BY DEF Apart, Past
<1> QED BY <1>1, <1>2

LEMMA LeaveShape ==
  ASSUME TypeInv, NEW p \in Proc, NEW f, Leave(p, f)
  PROVE  /\ Apart(p) /\ Grows /\ UNCHANGED <<fastboot, writes, finished>>
         /\ pc'[p] = "idle" /\ doc'[p] = None
         /\ files' = files \cup {f} /\ durable' = durable \cup {f}
<1> USE DEF TypeInv, TypeOK, RunType, Leave, End, Go, history
<1>1. Grows
  BY DEF Grows
<1>2. Apart(p)
  BY DEF Apart, Past
<1> QED BY <1>1, <1>2

LEMMA AdvanceShape ==
  ASSUME TypeInv, NEW p \in Proc, NEW d, NEW next, Advance(p, d, next)
  PROVE  /\ Apart(p) /\ Grows /\ UNCHANGED <<files, durable, fastboot, writes, finished>>
         /\ pc'[p] = next /\ doc'[p] = d
<1> USE DEF TypeInv, TypeOK, RunType, Advance, Go, history, disk
<1>1. Grows
  BY DEF Grows
<1>2. Apart(p)
  BY DEF Apart, Past
<1> QED BY <1>1, <1>2

LEMMA EndShape ==
  ASSUME TypeInv, NEW p \in Proc, End(p), UNCHANGED <<now, device, disk, fastboot, history>>
  PROVE  /\ Apart(p) /\ Grows /\ UNCHANGED <<files, durable, fastboot, writes, finished>>
         /\ pc'[p] = "idle" /\ doc'[p] = None
<1> USE DEF TypeInv, TypeOK, RunType, End, Go, history, disk
<1>1. Grows
  BY DEF Grows
<1>2. Apart(p)
  BY DEF Apart, Past
<1> QED BY <1>1, <1>2

LEMMA SyncShape ==
  ASSUME TypeInv, NEW p \in Proc, Sync(p)
  PROVE  /\ Apart(p) /\ Grows /\ UNCHANGED <<files, doc, fastboot, writes, finished>>
         /\ pc[p] = "sync" /\ pc'[p] = After(doc[p].kind) /\ durable' = durable \cup {doc[p]}
         /\ doc[p].kind \in Keyed /\ doc[p] \in File
<1> USE DEF TypeInv, TypeOK, RunType, Sync, Go, history
<1>1. Grows
  BY DEF Grows
<1>2. Apart(p)
  BY DEF Apart, Past
<1> QED BY <1>1, <1>2 DEF DocInv

LEMMA AnswerShape ==
  ASSUME TypeInv, NEW p \in Proc, NEW route, pc[p] # "idle", Answer(p, route),
         \A q \in Proc : q # p => fastboot'[q] = fastboot[q]
  PROVE  /\ Apart(p)
         /\ pc'[p] = "answer" /\ doc'[p] = [doc[p] EXCEPT !.route = route]
         /\ SameApproval(doc[p], doc'[p]) /\ LedgerFor(doc[p])' = LedgerFor(doc[p])
<1> USE DEF TypeInv, TypeOK, RunType, Answer, Go
<1>1. Apart(p)
  BY DEF Apart, Past
<1>2. pc'[p] = "answer" /\ doc'[p] = [doc[p] EXCEPT !.route = route]
  OBVIOUS
<1>3. doc[p] \in File
  BY DEF DocInv
<1> QED BY <1>1, <1>2, <1>3 DEF File, SameApproval, LedgerFor

\* Runs that only publish a file and end.
LEMMA LeaveLedger ==
  ASSUME TypeInv, LedgerInv, NEW p \in Proc, NEW f, Leave(p, f)
  PROVE  LedgerInv'
BY LeaveShape, Aside DEF Past

LEMMA AdvanceLedger ==
  ASSUME TypeInv, LedgerInv, NEW p \in Proc, NEW d, fastboot[p] = None,
         NEW next \in {"preflight", "claim", "arm", "absent", "consume", "final"},
         Advance(p, d, next)
  PROVE  LedgerInv'
BY AdvanceShape, Aside DEF Past

LEMMA LinkLedger ==
  ASSUME TypeInv, LedgerInv, NEW p \in Proc, NEW f, f.kind \in {"claim", "used"},
         fastboot[p] = None, Link(p, f)
  PROVE  LedgerInv'
BY LinkShape, Aside DEF Past

LEMMA EndLedger ==
  ASSUME TypeInv, LedgerInv, NEW p \in Proc, End(p),
         UNCHANGED <<now, device, disk, fastboot, history>>
  PROVE  LedgerInv'
BY EndShape, Aside DEF Past

LEMMA QueryLedger ==
  ASSUME TypeInv, LedgerInv, NEW p \in Proc, QueryExecute(p)
  PROVE  LedgerInv'
<1>1. fastboot[p] = None /\ Known(durable, "claim", p)
  BY DEF QueryExecute, LedgerInv, BootInv, RunsKnown
<1>2. Advance(p, doc[p], "recheck")
  BY DEF QueryExecute
<1>3. Known(durable, "claim", p)'
  BY <1>1, <1>2, AdvanceShape DEF Known
<1> QED BY <1>1, <1>2, <1>3, AdvanceShape, Aside DEF Past

LEMMA AttemptLedger ==
  ASSUME TypeInv, LedgerInv, NEW p \in Proc, PublishAttempt(p)
  PROVE  LedgerInv'
<1> DEFINE a == [doc[p] EXCEPT !.kind = "attempt", !.attempted = now]
<1> DEFINE l == LedgerFor(doc[p])
<1> USE DEF LedgerInv
<1>1. Link(p, a) /\ pc[p] = "recheck" /\ ~Attempted(doc[p])
  BY DEF PublishAttempt
<1>2. doc[p] \in File
  BY <1>1 DEF TypeInv, DocInv
<1>3. a.kind = "attempt" /\ SameApproval(a, doc[p]) /\ LedgerFor(a) = l /\ SameApproval(doc[p], a)
  BY <1>2 DEF File, SameApproval, LedgerFor
<1>4. fastboot[p] = None /\ Known(durable, "claim", p)
  BY <1>1 DEF BootInv, RunsKnown
<1>5. /\ Apart(p) /\ Grows /\ UNCHANGED <<durable, fastboot, writes, finished>>
      /\ pc'[p] = "sync" /\ doc'[p] = a /\ files' = files \cup {a}
  BY <1>1, LinkShape
<1>6. \A f \in files : f.kind = "attempt" => LedgerFor(f) # l
  BY <1>1 DEF Attempted, OfKind
<1>7. l \in Ledger /\ durable \subseteq files
  BY <1>2, FileLedger DEF TypeInv, TypeOK, DiskType
<1>8. writes[l] = 0
  <2>1. ASSUME writes[l] > 0 PROVE FALSE
    <3>1. PICK c, b, i \in durable : b.kind = "attempt" /\ SameApproval(b, i) /\ LedgerFor(i) = l
      BY <1>7, <2>1 DEF CountInv, WriteOnRecord
    <3> QED BY <1>6, <1>7, <3>1, SameLedger
  <2> QED BY <1>7, <2>1 DEF CountInv
<1>9. \A q \in Proc : ~Holds(q, l)
  <2> SUFFICES ASSUME NEW q \in Proc, Holds(q, l) PROVE FALSE
    OBVIOUS
  <2>1. CASE Past(q) /\ LedgerFor(doc[q]) = l
    BY <1>6, <2>1, SameLedger DEF RunsKnown, Known
  <2>2. CASE fastboot[q] # None /\ LedgerFor(fastboot[q]) = l
    BY <1>8, <2>2 DEF BootInv
  <2> QED BY <2>1, <2>2 DEF Holds
<1>10. Past(p)'
  BY <1>3, <1>5 DEF Past
<1>11. RunsKnown'
  <2>1. Known(durable, "claim", p)'
    BY <1>3, <1>4, <1>5 DEF Known, SameApproval
  <2>2. Known(files, "attempt", p)'
    BY <1>3, <1>5 DEF Known, SameApproval
  <2> QED BY <1>3, <1>5, <2>1, <2>2, OthersKnown DEF RunsKnown
<1>12. OneHolder'
  BY <1>3, <1>4, <1>5, <1>9 DEF OneHolder, Holds, Apart
<1>13. BootInv'
  BY <1>3, <1>4, <1>5, <1>8 DEF BootInv, Apart
<1>14. CountInv'
  BY <1>5, RecordKept DEF CountInv
<1> QED BY <1>11, <1>12, <1>13, <1>14

LEMMA IntentLedger ==
  ASSUME TypeInv, LedgerInv, NEW p \in Proc, PublishIntent(p)
  PROVE  LedgerInv'
<1> DEFINE i == [doc[p] EXCEPT !.kind = "intent"]
<1>1. Link(p, i) /\ pc[p] = "intent"
  BY DEF PublishIntent
<1>2. doc[p] \in File
  BY <1>1 DEF TypeInv, DocInv
<1>3. i.kind = "intent" /\ SameApproval(doc[p], i) /\ LedgerFor(i) = LedgerFor(doc[p])
  BY <1>2 DEF File, SameApproval, LedgerFor
<1>4. Past(p) /\ Known(durable, "claim", p) /\ Known(durable, "attempt", p)
  BY <1>1 DEF LedgerInv, RunsKnown, Past
<1>5. /\ Apart(p) /\ Grows /\ UNCHANGED <<durable, fastboot, writes, finished>>
      /\ pc'[p] = "sync" /\ doc'[p] = i
  BY <1>1, LinkShape
<1>6. Known(durable, "claim", p)' /\ Known(durable, "attempt", p)'
  BY <1>3, <1>4, <1>5 DEF Known, SameApproval
<1>7. Known(files, "attempt", p)'
  BY <1>5, <1>6, TypeStep DEF Known, Grows, TypeInv, TypeOK, DiskType
<1>8. Past(p)' /\ LedgerFor(doc[p])' = LedgerFor(doc[p])
  BY <1>3, <1>5 DEF Past, LedgerFor
<1> QED BY <1>1, <1>4, <1>5, <1>6, <1>7, <1>8, Onward

LEMMA SyncLedger ==
  ASSUME TypeInv, LedgerInv, NEW p \in Proc, Sync(p)
  PROVE  LedgerInv'
<1>1. /\ Apart(p) /\ Grows /\ UNCHANGED <<files, doc, fastboot, writes, finished>>
      /\ pc[p] = "sync" /\ pc'[p] = After(doc[p].kind) /\ durable' = durable \cup {doc[p]}
      /\ doc[p].kind \in Keyed
  BY SyncShape
<1>2. fastboot[p] = None
  BY <1>1 DEF LedgerInv, BootInv
<1>3. Known(durable, doc[p].kind, p)'
  BY <1>1 DEF Known, SameApproval
<1>4. ASSUME NEW k, Known(durable, k, p) PROVE Known(durable, k, p)'
  BY <1>1, <1>4 DEF Known, Grows
<1>5. CASE doc[p].kind \in {"claim", "used"}
  <2>1. pc'[p] \in {"query", "requery"} /\ (pc'[p] = "query" => doc[p].kind = "claim")
    BY <1>1, <1>5 DEF After
  <2> QED BY <1>1, <1>2, <1>3, <2>1, Aside DEF Past
<1>6. CASE doc[p].kind \in {"attempt", "intent"}
  <2>1. pc'[p] \in {"intent", "spawn"} /\ (pc'[p] = "spawn" => doc[p].kind = "intent")
    BY <1>1, <1>6 DEF After
  <2>2. Past(p) /\ Past(p)'
    BY <1>1, <1>6, <2>1 DEF Past
  <2>3. Known(durable, "claim", p) /\ Known(files, "attempt", p)
    BY <2>2 DEF LedgerInv, RunsKnown
  <2>4. doc[p].kind = "intent" => Known(durable, "attempt", p)
    BY <2>2 DEF LedgerInv, RunsKnown
  <2>5. Known(durable, "attempt", p)'
    BY <1>1, <1>3, <1>4, <1>6, <2>4
  <2>6. Known(durable, "claim", p)' /\ Known(files, "attempt", p)'
    BY <1>1, <1>4, <2>3 DEF Known
  <2>7. LedgerFor(doc[p])' = LedgerFor(doc[p])
    BY <1>1 DEF LedgerFor
  <2> QED BY <1>1, <1>3, <2>1, <2>2, <2>5, <2>6, <2>7, Onward
<1> QED BY <1>1, <1>5, <1>6 DEF Keyed

LEMMA SpawnLedger ==
  ASSUME TypeInv, LedgerInv, NEW p \in Proc, Spawn(p)
  PROVE  LedgerInv'
<1> DEFINE l == LedgerFor(doc[p])
<1> USE DEF LedgerInv
<1>1. /\ pc[p] = "spawn" /\ pc' = [pc EXCEPT ![p] = "wait"] /\ UNCHANGED <<files, durable, doc, finished>>
      /\ fastboot' = [fastboot EXCEPT ![p] = doc[p]]
      /\ writes' = [writes EXCEPT ![l] = @ + 1]
  BY DEF Spawn, Go, disk
<1>2. doc[p] # None
  BY <1>1, NoneAssumption DEF TypeInv, DocInv
<1>3. doc[p] \in File
  BY <1>1 DEF TypeInv, DocInv
<1>4. l \in Ledger
  BY <1>3, FileLedger
<1>5. /\ Past(p) /\ fastboot[p] = None /\ writes[l] = 0
      /\ Known(durable, "claim", p) /\ Known(durable, "attempt", p) /\ Known(durable, "intent", p)
      /\ Known(files, "attempt", p)
  BY <1>1 DEF Past, BootInv, RunsKnown
<1>6. pc'[p] = "wait" /\ fastboot'[p] = doc[p] /\ doc'[p] = doc[p] /\ LedgerFor(doc[p])' = l
  BY <1>1 DEF TypeInv, TypeOK, RunType, LedgerFor
<1>7. Apart(p) /\ Grows
  BY <1>1 DEF Apart, Grows, Past, TypeInv, TypeOK, RunType
<1>8. /\ writes'[l] = 1 /\ writes' \in [Ledger -> 0 .. 1]
      /\ \A k \in Ledger : k # l => writes'[k] = writes[k]
  BY <1>1, <1>4, <1>5 DEF CountInv
<1>9. RunsKnown'
  <2>1. /\ Known(durable, "claim", p)' /\ Known(durable, "attempt", p)'
        /\ Known(durable, "intent", p)' /\ Known(files, "attempt", p)'
    BY <1>1, <1>5 DEF Known
  <2> QED BY <1>7, <2>1, OthersKnown DEF RunsKnown
<1>10. \A q \in Proc : q # p => ~Holds(q, l)
  BY <1>4, <1>5 DEF OneHolder, Holds
<1>11. OneHolder'
  BY <1>2, <1>5, <1>6, <1>7, <1>10 DEF OneHolder, Holds, Apart
<1>12. BootInv'
  <2>1. \A q \in Proc : fastboot[q] # None => LedgerFor(fastboot[q]) \in Ledger
    BY FileLedger DEF TypeInv, TypeOK, RunType
  <2>2. \A q \in Proc : pc[q] # "idle" => LedgerFor(doc[q]) \in Ledger
    BY FileLedger DEF TypeInv, DocInv
  <2>3. \A q \in Proc : q # p =>
          /\ fastboot'[q] = fastboot[q] /\ pc'[q] = pc[q] /\ doc'[q] = doc[q] /\ Past(q)' = Past(q)
          /\ fastboot[q] # None => LedgerFor(fastboot[q]) # l
          /\ Past(q) => LedgerFor(doc[q]) # l
    BY <1>7, <1>10 DEF Apart, Holds
  <2>4. \A q \in Proc : Past(q) => pc[q] # "idle"
    BY DEF Past
  <2> QED BY <1>6, <1>8, <2>1, <2>2, <2>3, <2>4 DEF BootInv
<1>13. WriteOnRecord'
  <2>1. PICK c \in durable : c.kind = "claim" /\ SameApproval(c, doc[p])
    BY <1>5 DEF Known
  <2>2. PICK a \in durable : a.kind = "attempt" /\ SameApproval(a, doc[p])
    BY <1>5 DEF Known
  <2>3. PICK i \in durable : i.kind = "intent" /\ SameApproval(i, doc[p])
    BY <1>5 DEF Known
  <2>4. SameApproval(c, a) /\ SameApproval(a, i) /\ LedgerFor(i) = l
    BY <2>1, <2>2, <2>3, SameLedger DEF SameApproval
  <2> QED BY <1>1, <1>8, <2>1, <2>2, <2>3, <2>4 DEF WriteOnRecord, CountInv
<1>14. CountInv'
  BY <1>1, <1>5, <1>8, <1>13 DEF CountInv, TypeInv, TypeOK, HistoryType
<1> QED BY <1>9, <1>11, <1>12, <1>14

LEMMA SpawnFailsLedger ==
  ASSUME TypeInv, LedgerInv, NEW p \in Proc, SpawnFails(p)
  PROVE  LedgerInv'
<1>1. /\ pc[p] = "spawn" /\ Answer(p, "unknown")
      /\ UNCHANGED <<files, durable, fastboot, writes, finished>>
  BY DEF SpawnFails, disk, history
<1>2. /\ Apart(p) /\ pc'[p] = "answer" /\ SameApproval(doc[p], doc'[p])
      /\ LedgerFor(doc[p])' = LedgerFor(doc[p])
  BY <1>1, AnswerShape
<1>3. Grows
  BY <1>1 DEF Grows
<1>4. Past(p) /\ Past(p)'
  BY <1>1, <1>2 DEF Past
<1>5. /\ Known(durable, "claim", p) /\ Known(durable, "attempt", p)
      /\ Known(durable, "intent", p) /\ Known(files, "attempt", p)
  BY <1>1, <1>4 DEF LedgerInv, RunsKnown
<1>6. /\ Known(durable, "claim", p)' /\ Known(durable, "attempt", p)'
      /\ Known(durable, "intent", p)' /\ Known(files, "attempt", p)'
  BY <1>1, <1>2, <1>5 DEF Known, SameApproval
<1> QED BY <1>1, <1>2, <1>3, <1>4, <1>6, Onward

\* A fastboot that is over takes its run, if it is still there, to its answer.
LEMMA EndedLedger ==
  ASSUME TypeInv, LedgerInv, NEW p \in Proc, fastboot[p] \in File, Ended(p),
         finished' \subseteq finished \cup {LedgerFor(fastboot[p])},
         \/ pc[p] = "wait" /\ \E route \in Route : Answer(p, route)
         \/ pc[p] # "wait" /\ UNCHANGED local
  PROVE  LedgerInv'
<1> DEFINE l == LedgerFor(fastboot[p])
<1> USE DEF LedgerInv
<1>1. fastboot' = [fastboot EXCEPT ![p] = None] /\ UNCHANGED <<files, durable, writes>>
  BY DEF Ended, disk
<1>2. l \in Ledger /\ fastboot[p] # None
  BY FileLedger, NoneAssumption
<1>3. fastboot'[p] = None /\ \A q \in Proc : q # p => fastboot'[q] = fastboot[q]
  BY <1>1 DEF TypeInv, TypeOK, RunType
<1>4. Grows
  BY <1>1 DEF Grows
<1>5. /\ Apart(p) /\ LedgerFor(doc[p])' = LedgerFor(doc[p])
      /\ pc[p] = "wait" => pc'[p] = "answer" /\ SameApproval(doc[p], doc'[p])
      /\ pc[p] # "wait" => pc'[p] = pc[p] /\ doc'[p] = doc[p]
  <2>1. CASE pc[p] = "wait"
    <3>1. PICK route \in Route : Answer(p, route)
      BY <2>1
    <3> QED BY <1>3, <2>1, <3>1, AnswerShape
  <2>2. CASE pc[p] # "wait"
    BY <1>3, <2>2 DEF local, Apart, Past, LedgerFor
  <2> QED BY <2>1, <2>2
<1>6. pc[p] \in {"idle", "wait"} /\ writes[l] = 1
  BY <1>2 DEF BootInv, TypeInv, TypeOK, RunType
<1>7. pc[p] = "idle" => ~Past(p) /\ ~Past(p)'
  BY <1>5 DEF Past
<1>8. pc[p] = "wait" => Past(p) /\ Past(p)'
  BY <1>5 DEF Past
<1>9. RunsKnown'
  <2>1. pc[p] = "wait" =>
          /\ Known(durable, "claim", p) /\ Known(durable, "attempt", p)
          /\ Known(durable, "intent", p) /\ Known(files, "attempt", p)
    BY <1>8 DEF RunsKnown
  <2>2. pc[p] = "wait" =>
          /\ Known(durable, "claim", p)' /\ Known(durable, "attempt", p)'
          /\ Known(durable, "intent", p)' /\ Known(files, "attempt", p)'
    BY <1>1, <1>5, <2>1 DEF Known, SameApproval
  <2> QED BY <1>4, <1>5, <1>6, <1>7, <2>2, OthersKnown DEF RunsKnown
<1>10. OneHolder'
  BY <1>3, <1>5, <1>6, <1>7, <1>8 DEF OneHolder, Holds, Apart
<1>11. BootInv'
  BY <1>1, <1>3, <1>5, <1>6, <1>7 DEF BootInv, Apart
<1>12. CountInv'
  BY <1>1, <1>2, <1>4, <1>6, RecordKept DEF CountInv
<1> QED BY <1>9, <1>10, <1>11, <1>12

LEMMA PowerLossLedger ==
  ASSUME TypeInv, LedgerInv, PowerLoss
  PROVE  LedgerInv'
<1> USE DEF LedgerInv
<1>1. durable \subseteq durable' /\ UNCHANGED <<writes, finished>>
  BY DEF PowerLoss, TypeInv, TypeOK, DiskType
<1>2. \A p \in Proc : pc'[p] = "idle" /\ fastboot'[p] = None
  BY DEF PowerLoss
<1>3. \A p \in Proc : ~Past(p)'
  BY <1>2 DEF Past
<1>4. RunsKnown' /\ OneHolder' /\ BootInv'
  BY <1>2, <1>3 DEF RunsKnown, OneHolder, BootInv, Holds
<1>5. CountInv'
  BY <1>1 DEF CountInv, WriteOnRecord
<1> QED BY <1>4, <1>5

LEMMA WorldLedger ==
  ASSUME TypeInv, LedgerInv, UNCHANGED <<disk, local, fastboot, history>>
  PROVE  LedgerInv'
<1> USE DEF LedgerInv, disk, local, history
<1>1. RunsKnown' /\ OneHolder' /\ BootInv'
  BY DEF RunsKnown, OneHolder, BootInv, Holds, Past, Known
<1>2. CountInv'
  BY DEF CountInv, WriteOnRecord
<1> QED BY <1>1, <1>2

LEMMA DeployLedger ==
  ASSUME TypeInv, LedgerInv, NEW p \in Proc, Deploy(p)
  PROVE  LedgerInv'
<1>1. ASSUME NEW f \in Profile, StartPreflight(p, f) PROVE LedgerInv'
  BY <1>1, AdvanceLedger DEF StartPreflight, Idle
<1>2. CASE Preflight(p) \/ Approve(p) \/ PublishReport(p)
  BY <1>2, LeaveLedger DEF Preflight, Approve, PublishReport
<1>3. CASE CheckExecute(p)
  BY <1>3, AdvanceLedger DEF CheckExecute, Idle
<1>4. CASE ConsumeClaim(p)
  <2>1. fastboot[p] = None /\ doc[p] \in File
    BY <1>4 DEF ConsumeClaim, LedgerInv, BootInv, TypeInv, DocInv
  <2> DEFINE c == [doc[p] EXCEPT !.kind = "claim"]
  <2>2. c.kind \in {"claim", "used"}
    BY <2>1 DEF File
  <2>3. Link(p, c)
    BY <1>4 DEF ConsumeClaim
  <2> HIDE DEF c
  <2> QED BY <2>1, <2>2, <2>3, LinkLedger
<1>5. CASE KillFastboot(p)
  BY <1>5, EndedLedger DEF KillFastboot, TypeInv, DocInv, Route
<1> QED
  BY <1>1, <1>2, <1>3, <1>4, <1>5, QueryLedger, AttemptLedger, IntentLedger, SpawnLedger,
     SpawnFailsLedger DEF Deploy

LEMMA RevalidateLedger ==
  ASSUME TypeInv, LedgerInv, NEW p \in Proc, Revalidate(p)
  PROVE  LedgerInv'
<1>1. CASE AuditArm(p)
  BY <1>1, AdvanceLedger DEF AuditArm, Idle
<1>2. CASE ObserveAbsence(p)
  BY <1>2, AdvanceLedger DEF ObserveAbsence, LedgerInv, BootInv
<1>3. CASE PublishToken(p) \/ PublishPost(p)
  BY <1>3, LeaveLedger DEF PublishToken, PublishPost
<1>4. CASE ConsumeToken(p)
  <2> DEFINE u == [doc[p] EXCEPT !.kind = "used"]
  <2>2. u.kind \in {"claim", "used"} /\ Link(p, u)
    BY <1>4 DEF ConsumeToken, TypeInv, DocInv, File
  <2>3. fastboot[p] = None
    BY <1>4 DEF ConsumeToken, LedgerInv, BootInv
  <2> HIDE DEF u
  <2> QED BY <2>2, <2>3, LinkLedger
<1>5. ASSUME NEW passed \in BOOLEAN, Requery(p, passed) PROVE LedgerInv'
  BY <1>5, AdvanceLedger DEF Requery, LedgerInv, BootInv
<1>6. CASE CheckToken(p)
  BY <1>6, AdvanceLedger DEF CheckToken, Idle
<1> QED BY <1>1, <1>2, <1>3, <1>4, <1>5, <1>6 DEF Revalidate

LEMMA LedgerStep == TypeInv /\ LedgerInv /\ [Next]_vars => LedgerInv'
<1> SUFFICES ASSUME TypeInv, LedgerInv, [Next]_vars PROVE LedgerInv'
  OBVIOUS
<1>1. ASSUME NEW p \in Proc, Refuse(p) \/ Kill(p) PROVE LedgerInv'
  BY <1>1, EndLedger DEF Refuse, Kill
<1>2. ASSUME NEW p \in Proc, NEW ok \in BOOLEAN, FastbootEnds(p, ok) PROVE LedgerInv'
  <2>1. fastboot[p] \in File /\ Ended(p)
    BY <1>2 DEF FastbootEnds, TypeInv, TypeOK, RunType
  <2>2. finished' \subseteq finished \cup {LedgerFor(fastboot[p])}
    BY <1>2 DEF FastbootEnds
  <2>3. \/ pc[p] = "wait" /\ \E route \in Route : Answer(p, route)
        \/ pc[p] # "wait" /\ UNCHANGED local
    BY <1>2 DEF FastbootEnds, Route
  <2> QED BY <2>1, <2>2, <2>3, EndedLedger
<1>3. CASE SetClock \/ Plug \/ Unplug \/ UNCHANGED vars
  BY <1>3, WorldLedger DEF SetClock, Plug, Unplug, vars
<1> QED
  BY <1>1, <1>2, <1>3, DeployLedger, RevalidateLedger, SyncLedger, PowerLossLedger DEF Next

\* Once a fastboot has been started, claim, attempt and intent of one approval are
\* on the disk, through any kill and any loss of power (WriteOnRecord, _publish).
THEOREM WriteKnown == Spec => []WriteOnRecord
<1>1. TypeInv /\ LedgerInv => WriteOnRecord
  BY DEF LedgerInv, CountInv
<1> QED BY TypeInit, TypeStep, LedgerInit, LedgerStep, <1>1, PTL DEF Spec

-----------------------------------------------------------------------------
(* Replugs                                                                 *)

Settled(f) ==
  /\ LedgerFor(f) \in finished
  /\ \A q \in Proc : fastboot[q] # None => LedgerFor(fastboot[q]) # LedgerFor(f)

\* The handset has come back since the write, or its next appearance is a new one.
Back(f) == wroteAt[LedgerFor(f)] < plugs
Away(f) == ~connected \/ Back(f)

\* What a file says about the write and the cable is so, and stays so.
Truthful(f) ==
  /\ f.route = "completed" => Settled(f)
  /\ f.nonce # None <=> f.kind \in {"token", "used", "post"}
  /\ f.nonce # None => f.route = "completed" /\ Away(f)
  /\ f.passed => f.nonce # None /\ Back(f)

\* The kind of file in the hands of a run at each place.
DocKind(s) ==
  CASE s = "preflight" -> "preflight"
    [] s = "claim" -> "approval"
    [] s \in {"query", "recheck"} -> "claim"
    [] s = "intent" -> "attempt"
    [] s \in {"spawn", "wait", "answer"} -> "intent"
    [] s \in {"arm", "absent"} -> "report"
    [] s = "consume" -> "token"
    [] s \in {"requery", "final"} -> "used"

InHand(p) ==
  pc[p] # "idle" =>
    /\ Truthful(doc[p])
    /\ pc[p] # "sync" => doc[p].kind = DocKind(pc[p])
    /\ pc[p] \in {"arm", "absent"} => doc[p].route = "completed"
    /\ pc[p] = "absent" => Away(doc[p])
    /\ pc[p] = "answer" => doc[p].route \in Route

ReplugInv ==
  /\ \A f \in files : Truthful(f)
  /\ \A p \in Proc : InHand(p)
  /\ \A l \in Ledger : wroteAt[l] <= plugs

LEMMA ReplugInit == Init => ReplugInv
BY DEF Init, ReplugInv, InHand

\* A file that takes over what another says, and whose kind goes with its nonce.
LEMMA TakenOver ==
  \A f, g : /\ Truthful(f) /\ g.profile = f.profile /\ g.route = f.route
            /\ g.nonce = f.nonce /\ g.passed = f.passed
            /\ g.nonce # None <=> g.kind \in {"token", "used", "post"}
            => Truthful(g)
BY DEF Truthful, Settled, Back, Away, LedgerFor

\* Steps of p that leave the handset and the write alone.
LEMMA Carry ==
  ASSUME TypeInv, ReplugInv, NEW p \in Proc, NEW g, Apart(p), Truthful(g),
         files' \subseteq files \cup {g},
         UNCHANGED <<connected, plugs, fastboot, finished, wroteAt>>,
         pc'[p] # "idle" =>
           /\ doc'[p] = g
           /\ pc'[p] # "sync" => g.kind = DocKind(pc'[p])
           /\ pc'[p] \in {"arm", "absent"} => g.route = "completed"
           /\ pc'[p] = "absent" => Away(g)
           /\ pc'[p] = "answer" => g.route \in Route
  PROVE  ReplugInv'
<1>1. \A f : (Truthful(f) <=> Truthful(f)') /\ (Away(f) <=> Away(f)')
  BY DEF Truthful, Settled, Back, Away, LedgerFor
<1>2. \A f \in files' : Truthful(f)'
  BY <1>1 DEF ReplugInv
<1>3. InHand(p)'
  BY <1>1 DEF InHand
<1>4. \A q \in Proc : q # p => InHand(q)'
  BY <1>1 DEF InHand, Apart, ReplugInv
<1> QED BY <1>2, <1>3, <1>4 DEF ReplugInv

LEMMA LinkReplug ==
  ASSUME TypeInv, ReplugInv, NEW p \in Proc, NEW g, Truthful(g), Link(p, g)
  PROVE  ReplugInv'
<1>1. UNCHANGED <<connected, plugs, wroteAt>>
  BY DEF Link, device, history
<1> QED BY <1>1, LinkShape, Carry

LEMMA LeaveReplug ==
  ASSUME TypeInv, ReplugInv, NEW p \in Proc, NEW g, Truthful(g), Leave(p, g)
  PROVE  ReplugInv'
<1>1. UNCHANGED <<connected, plugs, wroteAt>>
  BY DEF Leave, device, history
<1> QED BY <1>1, LeaveShape, Carry

LEMMA AdvanceReplug ==
  ASSUME TypeInv, ReplugInv, NEW p \in Proc, NEW g, Truthful(g),
         NEW next \in PC \ {"idle", "sync", "answer"}, g.kind = DocKind(next),
         next \in {"arm", "absent"} => g.route = "completed",
         next = "absent" => Away(g), Advance(p, g, next)
  PROVE  ReplugInv'
<1>1. UNCHANGED <<connected, plugs, wroteAt>>
  BY DEF Advance, device, history
<1> QED BY <1>1, AdvanceShape, Carry

LEMMA EndReplug ==
  ASSUME TypeInv, ReplugInv, NEW p \in Proc, pc[p] # "idle", End(p),
         UNCHANGED <<now, device, disk, fastboot, history>>
  PROVE  ReplugInv'
<1>1. UNCHANGED <<connected, plugs, wroteAt>> /\ Truthful(doc[p])
  BY DEF device, history, ReplugInv, InHand
<1> QED BY <1>1, EndShape, Carry

LEMMA SyncReplug ==
  ASSUME TypeInv, ReplugInv, NEW p \in Proc, Sync(p)
  PROVE  ReplugInv'
<1>1. UNCHANGED <<connected, plugs, wroteAt>> /\ Truthful(doc[p])
  BY DEF device, history, ReplugInv, InHand, Sync
<1>2. doc[p].kind \in Keyed /\ pc'[p] = After(doc[p].kind) /\ doc'[p] = doc[p]
  BY SyncShape
<1>3. doc[p].kind = DocKind(pc'[p]) /\ pc'[p] \notin {"idle", "sync", "arm", "absent", "answer"}
  BY <1>2 DEF Keyed, After, DocKind
<1> QED BY <1>1, <1>2, <1>3, SyncShape, Carry

\* Where a run is tells that it has no nonce yet, and nothing has passed.
LEMMA NoNonce ==
  ASSUME TypeInv, ReplugInv, NEW p \in Proc,
         pc[p] \in {"preflight", "claim", "query", "recheck", "intent", "spawn", "wait",
                    "answer", "arm", "absent"}
  PROVE  /\ doc[p] \in File /\ Truthful(doc[p])
         /\ doc[p].nonce = None /\ ~doc[p].passed
         /\ doc[p].kind = DocKind(pc[p])
<1>1. doc[p] \in File /\ Truthful(doc[p]) /\ doc[p].kind = DocKind(pc[p])
  BY DEF TypeInv, DocInv, ReplugInv, InHand
<1>2. doc[p].kind \notin {"token", "used", "post"}
  BY <1>1 DEF DocKind
<1> QED BY <1>1, <1>2 DEF Truthful

LEMMA DeployReplug ==
  ASSUME TypeInv, ReplugInv, NEW p \in Proc,
         \/ \E f \in Profile : StartPreflight(p, f)
         \/ Preflight(p) \/ Approve(p) \/ CheckExecute(p) \/ ConsumeClaim(p)
         \/ QueryExecute(p) \/ PublishAttempt(p) \/ PublishIntent(p) \/ PublishReport(p)
  PROVE  ReplugInv'
<1>1. ASSUME NEW f \in Profile, StartPreflight(p, f) PROVE ReplugInv'
  <2> DEFINE d == [kind |-> "preflight", profile |-> f, checked |-> now, approved |-> 0,
                   claimed |-> 0, attempted |-> 0, reported |-> 0, route |-> None,
                   armed |-> 0, nonce |-> None, used |-> 0, passed |-> FALSE]
  <2>1. Truthful(d) /\ d.kind = DocKind("preflight")
    BY NoneAssumption DEF Truthful, DocKind, Route
  <2>2. Advance(p, d, "preflight")
    BY <1>1 DEF StartPreflight
  <2> HIDE DEF d
  <2> QED BY <2>1, <2>2, AdvanceReplug DEF PC
<1>2. CASE Preflight(p)
  BY <1>2, NoNonce, LeaveReplug DEF Preflight
<1>3. CASE Approve(p)
  <2>1. PICK d \in OfKind("preflight") : Leave(p, [d EXCEPT !.kind = "approval", !.approved = now])
    BY <1>3 DEF Approve
  <2> DEFINE g == [d EXCEPT !.kind = "approval", !.approved = now]
  <2>2. d \in File /\ Truthful(d) /\ d.nonce = None
    BY DEF OfKind, ReplugInv, Truthful, TypeInv, TypeOK, DiskType
  <2>3. /\ g.profile = d.profile /\ g.route = d.route /\ g.nonce = d.nonce
        /\ g.passed = d.passed /\ g.kind = "approval"
    BY <2>2 DEF File
  <2>4. Leave(p, g)
    BY <2>1
  <2> HIDE DEF g
  <2>5. Truthful(g)
    BY <2>2, <2>3, TakenOver
  <2> QED BY <2>4, <2>5, LeaveReplug
<1>4. CASE CheckExecute(p)
  <2>1. PICK d \in OfKind("approval") : Advance(p, [d EXCEPT !.claimed = now], "claim")
    BY <1>4 DEF CheckExecute
  <2> DEFINE g == [d EXCEPT !.claimed = now]
  <2>2. d \in File /\ Truthful(d) /\ d.nonce = None /\ d.kind = "approval"
    BY DEF OfKind, ReplugInv, Truthful, TypeInv, TypeOK, DiskType
  <2>3. /\ g.profile = d.profile /\ g.route = d.route /\ g.nonce = d.nonce
        /\ g.passed = d.passed /\ g.kind = "approval"
    BY <2>2 DEF File
  <2>4. Advance(p, g, "claim")
    BY <2>1
  <2> HIDE DEF g
  <2>5. Truthful(g)
    BY <2>2, <2>3, TakenOver
  <2> QED BY <2>3, <2>4, <2>5, AdvanceReplug DEF PC, DocKind
<1>5. CASE ConsumeClaim(p)
  <2> DEFINE g == [doc[p] EXCEPT !.kind = "claim"]
  <2>1. doc[p] \in File /\ Truthful(doc[p]) /\ doc[p].nonce = None
    BY <1>5, NoNonce DEF ConsumeClaim
  <2>2. /\ g.profile = doc[p].profile /\ g.route = doc[p].route /\ g.nonce = doc[p].nonce
        /\ g.passed = doc[p].passed /\ g.kind = "claim"
    BY <2>1 DEF File
  <2>3. Link(p, g)
    BY <1>5 DEF ConsumeClaim
  <2> HIDE DEF g
  <2> QED BY <2>1, <2>2, <2>3, TakenOver, LinkReplug
<1>6. CASE QueryExecute(p)
  BY <1>6, NoNonce, AdvanceReplug DEF QueryExecute, PC, DocKind
<1>7. CASE PublishAttempt(p)
  <2> DEFINE g == [doc[p] EXCEPT !.kind = "attempt", !.attempted = now]
  <2>1. doc[p] \in File /\ Truthful(doc[p]) /\ doc[p].nonce = None
    BY <1>7, NoNonce DEF PublishAttempt
  <2>2. /\ g.profile = doc[p].profile /\ g.route = doc[p].route /\ g.nonce = doc[p].nonce
        /\ g.passed = doc[p].passed /\ g.kind = "attempt"
    BY <2>1 DEF File
  <2>3. Link(p, g)
    BY <1>7 DEF PublishAttempt
  <2> HIDE DEF g
  <2> QED BY <2>1, <2>2, <2>3, TakenOver, LinkReplug
<1>8. CASE PublishIntent(p)
  <2> DEFINE g == [doc[p] EXCEPT !.kind = "intent"]
  <2>1. doc[p] \in File /\ Truthful(doc[p]) /\ doc[p].nonce = None
    BY <1>8, NoNonce DEF PublishIntent
  <2>2. /\ g.profile = doc[p].profile /\ g.route = doc[p].route /\ g.nonce = doc[p].nonce
        /\ g.passed = doc[p].passed /\ g.kind = "intent"
    BY <2>1 DEF File
  <2>3. Link(p, g)
    BY <1>8 DEF PublishIntent
  <2> HIDE DEF g
  <2> QED BY <2>1, <2>2, <2>3, TakenOver, LinkReplug
<1>9. CASE PublishReport(p)
  <2> DEFINE g == [doc[p] EXCEPT !.kind = "report", !.reported = now]
  <2>1. doc[p] \in File /\ Truthful(doc[p]) /\ doc[p].nonce = None
    BY <1>9, NoNonce DEF PublishReport
  <2>2. /\ g.profile = doc[p].profile /\ g.route = doc[p].route /\ g.nonce = doc[p].nonce
        /\ g.passed = doc[p].passed /\ g.kind = "report"
    BY <2>1 DEF File
  <2>3. Leave(p, g)
    BY <1>9 DEF PublishReport
  <2> HIDE DEF g
  <2> QED BY <2>1, <2>2, <2>3, TakenOver, LeaveReplug
<1> QED BY <1>1, <1>2, <1>3, <1>4, <1>5, <1>6, <1>7, <1>8, <1>9

LEMMA RevalidateReplug ==
  ASSUME TypeInv, ReplugInv, NEW p \in Proc, Revalidate(p)
  PROVE  ReplugInv'
<1>1. CASE AuditArm(p)
  <2>1. PICK d \in OfKind("report") : LineageHolds(d) /\ Advance(p, d, "arm")
    BY <1>1 DEF AuditArm
  <2>2. Truthful(d) /\ d.kind = "report" /\ d.route = "completed"
    BY <2>1 DEF OfKind, ReplugInv, LineageHolds
  <2> QED BY <2>1, <2>2, AdvanceReplug DEF PC, DocKind
<1>2. CASE ObserveAbsence(p)
  <2>1. Truthful(doc[p]) /\ doc[p].kind = "report" /\ doc[p].route = "completed"
    BY <1>2 DEF ObserveAbsence, ReplugInv, InHand, DocKind
  <2> QED BY <1>2, <2>1, AdvanceReplug DEF ObserveAbsence, PC, DocKind, Away
<1>3. CASE PublishToken(p)
  <2>1. PICK n \in Nonce :
          Leave(p, [doc[p] EXCEPT !.kind = "token", !.armed = now, !.nonce = n])
    BY <1>3 DEF PublishToken
  <2> DEFINE g == [doc[p] EXCEPT !.kind = "token", !.armed = now, !.nonce = n]
  <2>2. /\ doc[p] \in File /\ Truthful(doc[p]) /\ doc[p].nonce = None /\ ~doc[p].passed
        /\ doc[p].route = "completed" /\ Away(doc[p])
    BY <1>3, NoNonce DEF PublishToken, ReplugInv, InHand
  <2>3. /\ g.profile = doc[p].profile /\ g.route = "completed" /\ g.nonce = n
        /\ ~g.passed /\ g.kind = "token"
    BY <2>2 DEF File
  <2>4. Leave(p, g) /\ n # None
    BY <2>1, NoneAssumption
  <2> HIDE DEF g
  <2>5. Truthful(g)
    BY <2>2, <2>3, <2>4 DEF Truthful, Settled, Back, Away, LedgerFor
  <2> QED BY <2>4, <2>5, LeaveReplug
<1>4. CASE ConsumeToken(p)
  <2> DEFINE g == [doc[p] EXCEPT !.kind = "used"]
  <2>1. doc[p] \in File /\ Truthful(doc[p]) /\ doc[p].kind = "token"
    BY <1>4 DEF ConsumeToken, TypeInv, DocInv, ReplugInv, InHand, DocKind
  <2>2. /\ g.profile = doc[p].profile /\ g.route = doc[p].route /\ g.nonce = doc[p].nonce
        /\ g.passed = doc[p].passed /\ g.kind = "used"
    BY <2>1 DEF File
  <2>3. Link(p, g) /\ doc[p].nonce # None
    BY <1>4, <2>1 DEF ConsumeToken, Truthful
  <2> HIDE DEF g
  <2>4. Truthful(g)
    BY <2>1, <2>2, <2>3, TakenOver
  <2> QED BY <2>3, <2>4, LinkReplug
<1>5. ASSUME NEW passed \in BOOLEAN, Requery(p, passed) PROVE ReplugInv'
  <2> DEFINE g == [doc[p] EXCEPT !.passed = passed]
  <2>1. doc[p] \in File /\ Truthful(doc[p]) /\ doc[p].kind = "used"
    BY <1>5 DEF Requery, TypeInv, DocInv, ReplugInv, InHand, DocKind
  <2>2. /\ g.profile = doc[p].profile /\ g.route = doc[p].route /\ g.nonce = doc[p].nonce
        /\ g.passed = passed /\ g.kind = "used"
    BY <2>1 DEF File
  <2>3. Advance(p, g, "final") /\ (passed => connected)
    BY <1>5 DEF Requery
  <2> HIDE DEF g
  <2>4. Truthful(g)
    BY <2>1, <2>2, <2>3 DEF Truthful, Settled, Back, Away, LedgerFor
  <2> QED BY <2>2, <2>3, <2>4, AdvanceReplug DEF PC, DocKind
<1>6. CASE PublishPost(p)
  <2> DEFINE v == doc[p].passed /\ doc[p].used <= now /\ now <= doc[p].armed + ReplugTTL
  <2> DEFINE g == [doc[p] EXCEPT !.kind = "post", !.passed = v]
  <2>1. doc[p] \in File /\ Truthful(doc[p]) /\ doc[p].kind = "used"
    BY <1>6 DEF PublishPost, TypeInv, DocInv, ReplugInv, InHand, DocKind
  <2>2. /\ g.profile = doc[p].profile /\ g.route = doc[p].route /\ g.nonce = doc[p].nonce
        /\ (g.passed => doc[p].passed) /\ g.kind = "post"
    BY <2>1 DEF File
  <2>3. Leave(p, g)
    BY <1>6 DEF PublishPost
  <2> HIDE DEF g
  <2>4. Truthful(g)
    BY <2>1, <2>2 DEF Truthful, Settled, Back, Away, LedgerFor
  <2> QED BY <2>3, <2>4, LeaveReplug
<1>7. CASE CheckToken(p)
  <2>1. PICK d \in OfKind("token") : Advance(p, [d EXCEPT !.used = now], "consume")
    BY <1>7 DEF CheckToken
  <2> DEFINE g == [d EXCEPT !.used = now]
  <2>2. d \in File /\ Truthful(d) /\ d.nonce # None
    BY DEF OfKind, ReplugInv, Truthful, TypeInv, TypeOK, DiskType
  <2>3. /\ g.profile = d.profile /\ g.route = d.route /\ g.nonce = d.nonce
        /\ g.passed = d.passed /\ g.kind = "token"
    BY <2>2 DEF File, OfKind
  <2>4. Advance(p, g, "consume")
    BY <2>1
  <2> HIDE DEF g
  <2>5. Truthful(g)
    BY <2>2, <2>3, TakenOver
  <2> QED BY <2>3, <2>4, <2>5, AdvanceReplug DEF PC, DocKind
<1> QED BY <1>1, <1>2, <1>3, <1>4, <1>5, <1>6, <1>7 DEF Revalidate

\* A fastboot never starts for a ledger whose write has run to its end.
LEMMA SpawnReplug ==
  ASSUME TypeInv, LedgerInv, ReplugInv, NEW p \in Proc, Spawn(p)
  PROVE  ReplugInv'
<1>1. /\ pc[p] = "spawn" /\ pc' = [pc EXCEPT ![p] = "wait"]
      /\ UNCHANGED <<files, doc, finished, wroteAt, connected, plugs>>
      /\ fastboot' = [fastboot EXCEPT ![p] = doc[p]]
  BY DEF Spawn, Go, disk, device
<1>2. LedgerFor(doc[p]) \notin finished
  BY <1>1 DEF LedgerInv, BootInv, CountInv, Past
<1>3. \A f : Settled(f) => Settled(f)'
  BY <1>1, <1>2 DEF Settled, LedgerFor, TypeInv, TypeOK, RunType
<1>4. \A f : (Truthful(f) => Truthful(f)') /\ (Away(f) => Away(f)')
  BY <1>1, <1>3 DEF Truthful, Back, Away, LedgerFor
<1>5. \A q \in Proc : InHand(q)'
  BY <1>1, <1>4 DEF InHand, ReplugInv, TypeInv, TypeOK, RunType, DocKind
<1> QED BY <1>1, <1>4, <1>5 DEF ReplugInv

LEMMA SpawnFailsReplug ==
  ASSUME TypeInv, ReplugInv, NEW p \in Proc, SpawnFails(p)
  PROVE  ReplugInv'
<1> DEFINE g == [doc[p] EXCEPT !.route = "unknown"]
<1>1. /\ pc[p] = "spawn" /\ Answer(p, "unknown")
      /\ UNCHANGED <<files, fastboot, finished, wroteAt, connected, plugs>>
  BY DEF SpawnFails, disk, history, device
<1>2. Apart(p) /\ pc'[p] = "answer" /\ doc'[p] = g
  BY <1>1, AnswerShape
<1>3. /\ doc[p] \in File /\ Truthful(doc[p]) /\ doc[p].nonce = None
      /\ ~doc[p].passed /\ doc[p].kind = "intent"
  BY <1>1, NoNonce DEF DocKind
<1>4. g.route = "unknown" /\ g.nonce = None /\ ~g.passed /\ g.kind = "intent"
  BY <1>3 DEF File
<1> HIDE DEF g
<1>5. Truthful(g)
  BY <1>4 DEF Truthful
<1> QED BY <1>1, <1>2, <1>4, <1>5, Carry DEF DocKind, Route

\* A route of "completed" is only read from a fastboot that has run to its end.
LEMMA EndedReplug ==
  ASSUME TypeInv, LedgerInv, ReplugInv, NEW p \in Proc, fastboot[p] \in File, Ended(p),
         finished \subseteq finished',
         \/ /\ pc[p] = "wait"
            /\ \E route \in Route :
                 /\ Answer(p, route)
                 /\ route = "completed" => LedgerFor(fastboot[p]) \in finished'
         \/ pc[p] # "wait" /\ UNCHANGED local
  PROVE  ReplugInv'
<1> DEFINE l == LedgerFor(fastboot[p])
<1>1. /\ fastboot' = [fastboot EXCEPT ![p] = None] /\ UNCHANGED <<files, connected, plugs>>
      /\ wroteAt' = [wroteAt EXCEPT ![l] = plugs]
  BY DEF Ended, disk, device
<1>2. l \in Ledger /\ fastboot[p] # None
  BY FileLedger, NoneAssumption
<1>3. fastboot'[p] = None /\ \A q \in Proc : q # p => fastboot'[q] = fastboot[q]
  BY <1>1 DEF TypeInv, TypeOK, RunType
<1>4. \A f : Settled(f) => Settled(f)' /\ LedgerFor(f) # l
  BY <1>2, <1>3 DEF Settled, LedgerFor
<1>5. \A f : LedgerFor(f) # l => (Back(f) <=> Back(f)')
  BY <1>1 DEF Back, LedgerFor, TypeInv, TypeOK, HistoryType
<1>6. \A f : Truthful(f) => Truthful(f)'
  BY <1>1, <1>4, <1>5 DEF Truthful, Away
<1>7. \A q \in Proc : q # p => InHand(q)'
  <2> SUFFICES ASSUME NEW q \in Proc, q # p, pc'[q] # "idle" PROVE InHand(q)'
    BY DEF InHand
  <2>1. pc'[q] = pc[q] /\ doc'[q] = doc[q]
    BY DEF Answer, Go, local, TypeInv, TypeOK, RunType
  <2>2. InHand(q) /\ Truthful(doc[q])
    BY <2>1 DEF ReplugInv, InHand
  <2>3. pc[q] = "absent" => LedgerFor(doc[q]) # l
    BY <1>4, <2>2 DEF InHand, Truthful
  <2>4. Truthful(doc[q])' /\ (pc[q] = "absent" => Away(doc[q])')
    BY <1>1, <1>5, <1>6, <2>1, <2>2, <2>3 DEF InHand, Away, Truthful, Settled, Back, LedgerFor
  <2> QED BY <2>1, <2>2, <2>4 DEF InHand
<1>8. CASE pc[p] # "wait"
  <2>1. pc[p] = "idle" /\ pc'[p] = "idle"
    BY <1>2, <1>8 DEF local, LedgerInv, BootInv, TypeInv, TypeOK, RunType
  <2> QED BY <1>1, <1>6, <1>7, <2>1 DEF ReplugInv, InHand, TypeInv, TypeOK, HistoryType, DeviceType
<1>9. CASE pc[p] = "wait"
  <2>1. PICK route \in Route :
          Answer(p, route) /\ (route = "completed" => LedgerFor(fastboot[p]) \in finished')
    BY <1>9
  <2> DEFINE g == [doc[p] EXCEPT !.route = route]
  <2>2. pc'[p] = "answer" /\ doc'[p] = g /\ LedgerFor(doc[p])' = LedgerFor(doc[p])
    BY <1>3, <1>9, <2>1, AnswerShape
  <2>3. doc[p] \in File /\ doc[p].nonce = None /\ ~doc[p].passed /\ doc[p].kind = "intent"
    BY <1>9, NoNonce DEF DocKind
  <2>4. g.route = route /\ g.nonce = None /\ ~g.passed /\ g.kind = "intent"
    BY <2>3 DEF File
  <2>5. LedgerFor(g) = l
    BY <1>9, <2>2 DEF LedgerInv, BootInv, LedgerFor
  <2>6. \A q \in Proc : q # p /\ fastboot[q] # None => LedgerFor(fastboot[q]) # l
    BY <1>2 DEF LedgerInv, OneHolder, Holds
  <2> HIDE DEF g
  <2>7. Truthful(doc[p])'
    BY <1>3, <2>1, <2>2, <2>4, <2>5, <2>6 DEF Truthful, Settled, LedgerFor
  <2>8. InHand(p)'
    BY <2>2, <2>4, <2>7 DEF InHand, DocKind
  <2> QED BY <1>1, <1>6, <1>7, <2>8 DEF ReplugInv, TypeInv, TypeOK, HistoryType, DeviceType
<1> QED BY <1>8, <1>9

LEMMA PowerLossReplug ==
  ASSUME TypeInv, ReplugInv, PowerLoss
  PROVE  ReplugInv'
<1>1. /\ files' \subseteq files /\ UNCHANGED <<connected, plugs, finished>>
      /\ \A p \in Proc : pc'[p] = "idle" /\ fastboot'[p] = None
      /\ wroteAt' = [l \in Ledger |->
           IF \E p \in Proc : fastboot[p] # None /\ LedgerFor(fastboot[p]) = l
           THEN plugs ELSE wroteAt[l]]
  BY DEF PowerLoss, device
<1>2. \A f \in files : Settled(f) => Settled(f)' /\ wroteAt'[LedgerFor(f)] = wroteAt[LedgerFor(f)]
  BY <1>1 DEF Settled, LedgerFor, TypeInv, TypeOK, HistoryType
<1>3. \A f \in files : Truthful(f) => Truthful(f)'
  BY <1>1, <1>2 DEF Truthful, Away, Back, LedgerFor
<1>4. \A l \in Ledger : wroteAt'[l] <= plugs'
  BY <1>1 DEF ReplugInv, TypeInv, TypeOK, DeviceType
<1> QED BY <1>1, <1>3, <1>4 DEF ReplugInv, InHand

\* Clock and cable: who is away is away until it is back.
LEMMA WorldReplug ==
  ASSUME TypeInv, ReplugInv, SetClock \/ Plug \/ Unplug \/ UNCHANGED vars
  PROVE  ReplugInv'
<1>1. UNCHANGED <<files, pc, doc, fastboot, finished, wroteAt>>
  BY DEF SetClock, Plug, Unplug, vars, disk, local, history
<1>2. /\ (plugs' = plugs /\ (connected' => connected)) \/ plugs' = plugs + 1
      /\ plugs \in Nat
  BY DEF SetClock, Plug, Unplug, vars, device, TypeInv, TypeOK, DeviceType
<1>3. \A l \in Ledger : wroteAt[l] \in Nat /\ wroteAt[l] <= plugs
  BY DEF ReplugInv, TypeInv, TypeOK, HistoryType
<1>4. \A f : LedgerFor(f) \in Ledger => (Back(f) => Back(f)') /\ (Away(f) => Away(f)')
  BY <1>1, <1>2, <1>3 DEF Back, Away, LedgerFor
<1>5. \A f : Settled(f) <=> Settled(f)'
  BY <1>1 DEF Settled, LedgerFor
<1>6. \A f \in File : (Truthful(f) => Truthful(f)') /\ (Away(f) => Away(f)')
  BY <1>4, <1>5, FileLedger DEF Truthful
<1>7. \A p \in Proc : InHand(p)'
  BY <1>1, <1>6 DEF InHand, ReplugInv, TypeInv, DocInv
<1>8. \A f \in files' : Truthful(f)'
  BY <1>1, <1>6 DEF ReplugInv, TypeInv, TypeOK, DiskType
<1> QED BY <1>1, <1>2, <1>3, <1>7, <1>8 DEF ReplugInv

LEMMA ReplugStep == TypeInv /\ LedgerInv /\ ReplugInv /\ [Next]_vars => ReplugInv'
<1> SUFFICES ASSUME TypeInv, LedgerInv, ReplugInv, [Next]_vars PROVE ReplugInv'
  OBVIOUS
<1>1. ASSUME NEW p \in Proc, Refuse(p) \/ Kill(p) PROVE ReplugInv'
  BY <1>1, EndReplug DEF Refuse, Kill
<1>2. ASSUME NEW p \in Proc, NEW ok \in BOOLEAN, FastbootEnds(p, ok) PROVE ReplugInv'
  <2>1. fastboot[p] \in File /\ Ended(p)
    BY <1>2 DEF FastbootEnds, TypeInv, TypeOK, RunType
  <2>2. finished \subseteq finished' /\ (ok => LedgerFor(fastboot[p]) \in finished')
    BY <1>2 DEF FastbootEnds
  <2>3. \/ /\ pc[p] = "wait"
           /\ \E route \in Route :
                /\ Answer(p, route)
                /\ route = "completed" => LedgerFor(fastboot[p]) \in finished'
        \/ pc[p] # "wait" /\ UNCHANGED local
    BY <1>2, <2>2 DEF FastbootEnds, Route
  <2> QED BY <2>1, <2>2, <2>3, EndedReplug
<1>3. ASSUME NEW p \in Proc, KillFastboot(p) PROVE ReplugInv'
  <2>1. fastboot[p] \in File /\ Ended(p) /\ finished \subseteq finished'
    BY <1>3 DEF KillFastboot, TypeInv, DocInv
  <2>2. /\ pc[p] = "wait"
        /\ \E route \in Route :
             /\ Answer(p, route)
             /\ route = "completed" => LedgerFor(fastboot[p]) \in finished'
    BY <1>3 DEF KillFastboot, Route
  <2> QED BY <2>1, <2>2, EndedReplug
<1>4. ASSUME NEW p \in Proc, Deploy(p) PROVE ReplugInv'
  BY <1>3, <1>4, DeployReplug, SpawnReplug, SpawnFailsReplug DEF Deploy
<1>5. CASE SetClock \/ Plug \/ Unplug \/ UNCHANGED vars
  BY <1>5, WorldReplug
<1> QED
  BY <1>1, <1>2, <1>4, <1>5, RevalidateReplug, SyncReplug, PowerLossReplug DEF Next

\* A postwrite report that has passed speaks of a write that ran to its end, of a
\* handset that came back after it, and of no write under way (PassMeansReplug;
\* arm_replug, revalidate).
THEOREM PassIsReplug == Spec => []PassMeansReplug
<1>1. ReplugInv => PassMeansReplug
  <2> SUFFICES ASSUME ReplugInv, NEW f \in OfKind("post"), f.passed
               PROVE  /\ LedgerFor(f) \in finished
                      /\ \A p \in Proc : fastboot[p] # None => LedgerFor(fastboot[p]) # LedgerFor(f)
                      /\ wroteAt[LedgerFor(f)] < plugs
    BY DEF PassMeansReplug
  <2>1. Truthful(f)
    BY DEF ReplugInv, OfKind
  <2> QED BY <2>1 DEF Truthful, Settled, Back
<1> QED BY TypeInit, TypeStep, LedgerInit, LedgerStep, ReplugInit, ReplugStep, <1>1, PTL DEF Spec

-----------------------------------------------------------------------------
(* Tokens                                                                  *)

\* The run has consumed a token and not reported yet.
Bearer(p) ==
  \/ pc[p] \in {"requery", "final"}
  \/ pc[p] = "sync" /\ doc[p].kind = "used"

UsedUp(S, n) == \E f \in S : f.kind = "used" /\ f.nonce = n

TokenInv ==
  /\ \A p \in Proc :
       /\ Bearer(p) => UsedUp(files, doc[p].nonce)
       /\ pc[p] \in {"requery", "final"} => UsedUp(durable, doc[p].nonce)
  /\ \A p, q \in Proc : p # q /\ Bearer(p) /\ Bearer(q) => doc[p].nonce # doc[q].nonce
  /\ \A f \in files : f.kind = "post" =>
       /\ UsedUp(durable, f.nonce)
       /\ \A p \in Proc : Bearer(p) => doc[p].nonce # f.nonce
  /\ OneReportPerToken

LEMMA TokenInit == Init => TokenInv
BY DEF Init, TokenInv, Bearer, OneReportPerToken, OfKind

\* Steps of runs that bear no token when they are done, and report on none.
LEMMA NoBearer ==
  ASSUME TypeInv, TokenInv, NEW p \in Proc, Apart(p), Grows, ~Bearer(p)',
         \A f \in files' : f.kind = "post" => f \in files
  PROVE  TokenInv'
<1>1. \A n : (UsedUp(files, n) => UsedUp(files', n)) /\ (UsedUp(durable, n) => UsedUp(durable', n))
  BY DEF UsedUp, Grows
<1>2. \A q \in Proc : Bearer(q)' => q # p /\ Bearer(q) /\ doc'[q] = doc[q] /\ pc'[q] = pc[q]
  BY DEF Bearer, Apart
<1>3. \A q \in Proc : pc'[q] \in {"requery", "final"} => Bearer(q)'
  BY DEF Bearer
<1>4. OneReportPerToken'
  BY DEF OneReportPerToken, OfKind, TokenInv
<1> QED BY <1>1, <1>2, <1>3, <1>4 DEF TokenInv, UsedUp

\* Steps of a run that bears its token on.
LEMMA StillBearer ==
  ASSUME TypeInv, TokenInv, NEW p \in Proc, Apart(p), Grows, UNCHANGED files, Bearer(p),
         doc'[p].nonce = doc[p].nonce, UsedUp(durable', doc[p].nonce)
  PROVE  TokenInv'
<1>1. \A n : UsedUp(durable, n) => UsedUp(durable', n)
  BY DEF UsedUp, Grows
<1>2. \A q \in Proc : Bearer(q)' => Bearer(q) /\ doc'[q].nonce = doc[q].nonce
  BY DEF Bearer, Apart
<1>3. \A q \in Proc : q # p => pc'[q] = pc[q]
  BY DEF Apart
<1>4. OneReportPerToken'
  BY DEF OneReportPerToken, OfKind, TokenInv
<1>5. \A q \in Proc :
        /\ Bearer(q)' => UsedUp(files, doc[q].nonce)'
        /\ pc'[q] \in {"requery", "final"} => UsedUp(durable, doc[q].nonce)'
  <2> TAKE q \in Proc
  <2>1. CASE q = p
    BY <1>2, <2>1 DEF TokenInv, UsedUp
  <2>2. CASE q # p
    BY <1>1, <1>2, <1>3, <2>2 DEF TokenInv, UsedUp, Apart
  <2> QED BY <2>1, <2>2
<1>6. \A f \in files' : f.kind = "post" =>
        /\ UsedUp(durable, f.nonce)'
        /\ \A q \in Proc : Bearer(q)' => doc'[q].nonce # f.nonce
  BY <1>1, <1>2 DEF TokenInv, UsedUp
<1> QED BY <1>2, <1>4, <1>5, <1>6 DEF TokenInv

LEMMA LeaveToken ==
  ASSUME TypeInv, TokenInv, NEW p \in Proc, NEW g, g.kind # "post", Leave(p, g)
  PROVE  TokenInv'
BY LeaveShape, NoBearer DEF Bearer

LEMMA LinkToken ==
  ASSUME TypeInv, TokenInv, NEW p \in Proc, NEW g, g.kind \notin {"post", "used"}, Link(p, g)
  PROVE  TokenInv'
BY LinkShape, NoBearer DEF Bearer

LEMMA AdvanceToken ==
  ASSUME TypeInv, TokenInv, NEW p \in Proc, NEW g,
         NEW next \in PC \ {"requery", "final", "sync"}, Advance(p, g, next)
  PROVE  TokenInv'
BY AdvanceShape, NoBearer DEF Bearer

LEMMA EndToken ==
  ASSUME TypeInv, TokenInv, NEW p \in Proc, End(p),
         UNCHANGED <<now, device, disk, fastboot, history>>
  PROVE  TokenInv'
BY EndShape, NoBearer DEF Bearer

LEMMA SyncToken ==
  ASSUME TypeInv, TokenInv, NEW p \in Proc, Sync(p)
  PROVE  TokenInv'
<1>1. /\ Apart(p) /\ Grows /\ UNCHANGED <<files, doc>>
      /\ pc[p] = "sync" /\ pc'[p] = After(doc[p].kind) /\ durable' = durable \cup {doc[p]}
      /\ doc[p].kind \in Keyed
  BY SyncShape
<1>2. CASE doc[p].kind = "used"
  <2>1. UsedUp(durable', doc[p].nonce) /\ Bearer(p)
    BY <1>1, <1>2 DEF UsedUp, Bearer
  <2> QED BY <1>1, <2>1, StillBearer
<1>3. CASE doc[p].kind # "used"
  <2>1. ~Bearer(p)'
    BY <1>1, <1>3 DEF Bearer, After, Keyed
  <2> QED BY <1>1, <2>1, NoBearer
<1> QED BY <1>2, <1>3

LEMMA DeployToken ==
  ASSUME TypeInv, TokenInv, ReplugInv, NEW p \in Proc, Deploy(p)
  PROVE  TokenInv'
<1> USE DEF TypeInv, TypeOK
<1>1. ASSUME NEW f \in Profile, StartPreflight(p, f) PROVE TokenInv'
  BY <1>1, AdvanceToken DEF StartPreflight, PC
<1>2. CASE Preflight(p)
  <2>1. doc[p].kind # "post"
    BY <1>2, NoNonce DEF Preflight, DocKind
  <2> QED BY <1>2, <2>1, LeaveToken DEF Preflight
<1>3. CASE Approve(p)
  <2>1. PICK d \in files : Leave(p, [d EXCEPT !.kind = "approval", !.approved = now])
    BY <1>3 DEF Approve, OfKind
  <2> DEFINE g == [d EXCEPT !.kind = "approval", !.approved = now]
  <2>2. g.kind # "post" /\ Leave(p, g)
    BY <2>1 DEF DiskType, File
  <2> HIDE DEF g
  <2> QED BY <2>2, LeaveToken
<1>4. CASE CheckExecute(p) \/ QueryExecute(p)
  BY <1>4, AdvanceToken DEF CheckExecute, QueryExecute, PC
<1>5. CASE ConsumeClaim(p)
  <2> DEFINE g == [doc[p] EXCEPT !.kind = "claim"]
  <2>1. g.kind \notin {"post", "used"} /\ Link(p, g)
    BY <1>5 DEF ConsumeClaim, DocInv, File
  <2> HIDE DEF g
  <2> QED BY <2>1, LinkToken
<1>6. CASE PublishAttempt(p)
  <2> DEFINE g == [doc[p] EXCEPT !.kind = "attempt", !.attempted = now]
  <2>1. g.kind \notin {"post", "used"} /\ Link(p, g)
    BY <1>6 DEF PublishAttempt, DocInv, File
  <2> HIDE DEF g
  <2> QED BY <2>1, LinkToken
<1>7. CASE PublishIntent(p)
  <2> DEFINE g == [doc[p] EXCEPT !.kind = "intent"]
  <2>1. g.kind \notin {"post", "used"} /\ Link(p, g)
    BY <1>7 DEF PublishIntent, DocInv, File
  <2> HIDE DEF g
  <2> QED BY <2>1, LinkToken
<1>8. CASE PublishReport(p)
  <2> DEFINE g == [doc[p] EXCEPT !.kind = "report", !.reported = now]
  <2>1. g.kind # "post" /\ Leave(p, g)
    BY <1>8 DEF PublishReport, DocInv, File
  <2> HIDE DEF g
  <2> QED BY <2>1, LeaveToken
<1>9. CASE Spawn(p)
  <2>1. Apart(p) /\ Grows /\ UNCHANGED files /\ pc'[p] = "wait"
    BY <1>9 DEF Spawn, Go, disk, Apart, Grows, Past, RunType
  <2> QED BY <2>1, NoBearer DEF Bearer
<1>10. CASE SpawnFails(p) \/ KillFastboot(p)
  <2>1. Answer(p, "unknown") /\ pc[p] # "idle" /\ UNCHANGED <<files, durable>>
    BY <1>10 DEF SpawnFails, KillFastboot, Ended, disk
  <2>2. \A q \in Proc : q # p => fastboot'[q] = fastboot[q]
    BY <1>10 DEF SpawnFails, KillFastboot, Ended, RunType
  <2>3. Apart(p) /\ Grows /\ pc'[p] = "answer"
    BY <2>1, <2>2, AnswerShape DEF Grows
  <2> QED BY <2>1, <2>3, NoBearer DEF Bearer
<1> QED BY <1>1, <1>2, <1>3, <1>4, <1>5, <1>6, <1>7, <1>8, <1>9, <1>10 DEF Deploy

LEMMA FastbootEndsToken ==
  ASSUME TypeInv, TokenInv, LedgerInv, NEW p \in Proc, NEW ok \in BOOLEAN, FastbootEnds(p, ok)
  PROVE  TokenInv'
<1>1. UNCHANGED <<files, durable>> /\ \A q \in Proc : q # p => fastboot'[q] = fastboot[q]
  BY DEF FastbootEnds, Ended, disk, TypeInv, TypeOK, RunType
<1>2. pc[p] \in {"idle", "wait"}
  BY DEF FastbootEnds, LedgerInv, BootInv, TypeInv, TypeOK, RunType
<1>3. Apart(p) /\ pc'[p] \in {"idle", "answer"}
  <2>1. CASE pc[p] = "wait"
    <3>1. PICK route : Answer(p, route)
      BY <2>1 DEF FastbootEnds
    <3> QED BY <1>1, <2>1, <3>1, AnswerShape
  <2>2. CASE pc[p] = "idle"
    BY <1>1, <2>2 DEF FastbootEnds, local, Apart, Past
  <2> QED BY <1>2, <2>1, <2>2
<1> QED BY <1>1, <1>3, NoBearer DEF Grows, Bearer

LEMMA RevalidateToken ==
  ASSUME TypeInv, TokenInv, ReplugInv, NEW p \in Proc, Revalidate(p)
  PROVE  TokenInv'
<1> USE DEF TypeInv, TypeOK
<1>1. CASE AuditArm(p) \/ ObserveAbsence(p) \/ CheckToken(p)
  BY <1>1, AdvanceToken DEF AuditArm, ObserveAbsence, CheckToken, PC
<1>2. CASE PublishToken(p)
  <2>1. PICK n \in Nonce :
          Leave(p, [doc[p] EXCEPT !.kind = "token", !.armed = now, !.nonce = n])
    BY <1>2 DEF PublishToken
  <2> DEFINE g == [doc[p] EXCEPT !.kind = "token", !.armed = now, !.nonce = n]
  <2>2. g.kind # "post" /\ Leave(p, g)
    BY <1>2, <2>1 DEF PublishToken, DocInv, File
  <2> HIDE DEF g
  <2> QED BY <2>2, LeaveToken
<1>3. CASE ConsumeToken(p)
  <2>1. \A f \in OfKind("used") : f.nonce # doc[p].nonce
    BY <1>3 DEF ConsumeToken
  <2> DEFINE g == [doc[p] EXCEPT !.kind = "used"]
  <2>2. g.kind = "used" /\ g.nonce = doc[p].nonce /\ Link(p, g)
    BY <1>3 DEF ConsumeToken, DocInv, File
  <2> HIDE DEF g
  <2>3. /\ Apart(p) /\ Grows /\ UNCHANGED durable /\ pc'[p] = "sync" /\ doc'[p] = g
        /\ files' = files \cup {g}
    BY <2>2, LinkShape
  <2>4. ~UsedUp(files, g.nonce) /\ ~UsedUp(durable, g.nonce)
    BY <2>1, <2>2 DEF UsedUp, OfKind, DiskType
  <2>5. \A q \in Proc : q # p =>
          /\ pc'[q] = pc[q] /\ doc'[q] = doc[q] /\ (Bearer(q)' <=> Bearer(q))
          /\ Bearer(q) => doc[q].nonce # g.nonce
    BY <2>3, <2>4 DEF Apart, Bearer, TokenInv
  <2>6. \A f \in files' : f.kind = "post" => f \in files /\ f.nonce # g.nonce
    BY <2>2, <2>3, <2>4 DEF TokenInv
  <2>7. OneReportPerToken'
    BY <2>6 DEF OneReportPerToken, OfKind, TokenInv
  <2>8. \A n : UsedUp(files, n) => UsedUp(files', n)
    BY <2>3 DEF UsedUp
  <2>9. UsedUp(files', g.nonce)
    BY <2>2, <2>3 DEF UsedUp
  <2> QED BY <2>3, <2>5, <2>6, <2>7, <2>8, <2>9 DEF TokenInv, UsedUp
<1>4. ASSUME NEW passed \in BOOLEAN, Requery(p, passed) PROVE TokenInv'
  <2> DEFINE g == [doc[p] EXCEPT !.passed = passed]
  <2>1. g.nonce = doc[p].nonce /\ Advance(p, g, "final") /\ pc[p] = "requery"
    BY <1>4 DEF Requery, DocInv, File
  <2> HIDE DEF g
  <2>2. /\ Apart(p) /\ Grows /\ UNCHANGED <<files, durable>>
        /\ pc'[p] = "final" /\ doc'[p] = g
    BY <2>1, AdvanceShape
  <2>3. Bearer(p) /\ UsedUp(durable', doc[p].nonce)
    BY <2>1, <2>2 DEF Bearer, TokenInv
  <2> QED BY <2>1, <2>2, <2>3, StillBearer
<1>5. CASE PublishPost(p)
  <2> DEFINE v == doc[p].passed /\ doc[p].used <= now /\ now <= doc[p].armed + ReplugTTL
  <2> DEFINE g == [doc[p] EXCEPT !.kind = "post", !.passed = v]
  <2>1. g.kind = "post" /\ g.nonce = doc[p].nonce /\ Leave(p, g) /\ pc[p] = "final"
    BY <1>5 DEF PublishPost, DocInv, File
  <2> HIDE DEF g
  <2>2. /\ Apart(p) /\ Grows /\ pc'[p] = "idle"
        /\ files' = files \cup {g} /\ durable' = durable \cup {g}
    BY <2>1, LeaveShape
  <2>3. Bearer(p) /\ UsedUp(durable, g.nonce)
    BY <2>1 DEF Bearer, TokenInv
  <2>4. \A q \in Proc : Bearer(q)' => q # p /\ Bearer(q) /\ doc'[q] = doc[q] /\ pc'[q] = pc[q]
    BY <2>2 DEF Bearer, Apart
  <2>5. \A q \in Proc : Bearer(q)' => doc'[q].nonce # g.nonce
    BY <2>1, <2>3, <2>4 DEF TokenInv
  <2>6. \A f \in files : f.kind = "post" => f.nonce # g.nonce
    BY <2>1, <2>3 DEF TokenInv
  <2>7. OneReportPerToken'
    BY <2>2, <2>6 DEF OneReportPerToken, OfKind, TokenInv
  <2>8. \A n : (UsedUp(files, n) => UsedUp(files', n)) /\ (UsedUp(durable, n) => UsedUp(durable', n))
    BY <2>2 DEF UsedUp
  <2>9. \A q \in Proc : pc'[q] \in {"requery", "final"} => Bearer(q)'
    BY DEF Bearer
  <2> QED BY <2>2, <2>3, <2>4, <2>5, <2>7, <2>8, <2>9 DEF TokenInv, UsedUp
<1> QED BY <1>1, <1>2, <1>3, <1>4, <1>5 DEF Revalidate

LEMMA TokenStep == TypeInv /\ LedgerInv /\ ReplugInv /\ TokenInv /\ [Next]_vars => TokenInv'
<1> SUFFICES ASSUME TypeInv, LedgerInv, ReplugInv, TokenInv, [Next]_vars PROVE TokenInv'
  OBVIOUS
<1>1. ASSUME NEW p \in Proc, Refuse(p) \/ Kill(p) PROVE TokenInv'
  BY <1>1, EndToken DEF Refuse, Kill
<1>2. CASE SetClock \/ Plug \/ Unplug \/ UNCHANGED vars
  <2>1. UNCHANGED <<files, durable, pc, doc>>
    BY <1>2 DEF SetClock, Plug, Unplug, vars, disk, local
  <2> QED BY <2>1 DEF TokenInv, Bearer, UsedUp, OneReportPerToken, OfKind
<1>3. CASE PowerLoss
  <2>1. /\ files' \subseteq files /\ durable \subseteq durable'
        /\ \A p \in Proc : pc'[p] = "idle"
    BY <1>3 DEF PowerLoss, TypeInv, TypeOK, DiskType
  <2>2. \A p \in Proc : ~Bearer(p)'
    BY <2>1 DEF Bearer
  <2> QED BY <2>1, <2>2 DEF TokenInv, UsedUp, OneReportPerToken, OfKind
<1> QED
  BY <1>1, <1>2, <1>3, DeployToken, RevalidateToken, SyncToken, FastbootEndsToken DEF Next

\* A replug token answers for one postwrite report, whoever races for it and
\* whatever dies (OneReportPerToken, _consume_token).
THEOREM TokenSpentOnce == Spec => []OneReportPerToken
<1>1. TokenInv => OneReportPerToken
  BY DEF TokenInv
<1> QED
  BY TypeInit, TypeStep, LedgerInit, LedgerStep, ReplugInit, ReplugStep, TokenInit, TokenStep,
     <1>1, PTL DEF Spec

-----------------------------------------------------------------------------
(* Refinement of WriteTicket                                               *)

\* Only the files linked and synced in two steps can be lost.
LostInv == \A f \in files : f.kind \notin Keyed => f \in durable

LEMMA LostInit == Init => LostInv
BY DEF Init, LostInv

\* What a step does to the disk: nothing, a link, a publication, a sync or a loss
\* of power.
LEMMA DiskSteps ==
  ASSUME [Next]_vars
  PROVE  \/ UNCHANGED <<files, durable>>
         \/ \E p \in Proc : (\E g : Link(p, g)) \/ (\E g : Leave(p, g)) \/ Sync(p)
         \/ PowerLoss
<1>1. ASSUME NEW p \in Proc, Deploy(p) \/ Revalidate(p)
      PROVE  UNCHANGED <<files, durable>> \/ (\E g : Link(p, g)) \/ (\E g : Leave(p, g))
  BY <1>1 DEF Deploy, Revalidate, StartPreflight, Preflight, Approve, CheckExecute,
       ConsumeClaim, QueryExecute, PublishAttempt, PublishIntent, Spawn, SpawnFails,
       KillFastboot, PublishReport, AuditArm, ObserveAbsence, PublishToken, CheckToken,
       ConsumeToken, Requery, PublishPost, Advance, Ended, disk
<1>2. ASSUME NEW p \in Proc, Refuse(p) \/ Kill(p) \/ \E ok \in BOOLEAN : FastbootEnds(p, ok)
      PROVE  UNCHANGED <<files, durable>>
  BY <1>2 DEF Refuse, Kill, FastbootEnds, Ended, disk
<1>3. CASE SetClock \/ Plug \/ Unplug \/ UNCHANGED vars
  BY <1>3 DEF SetClock, Plug, Unplug, vars, disk
<1> QED BY <1>1, <1>2, <1>3 DEF Next

LEMMA LostStep == TypeInv /\ LostInv /\ [Next]_vars => LostInv'
<1> SUFFICES ASSUME TypeInv, LostInv, [Next]_vars PROVE LostInv'
  OBVIOUS
<1>1. CASE UNCHANGED <<files, durable>>
  BY <1>1 DEF LostInv
<1>2. ASSUME NEW p \in Proc, NEW g, Link(p, g) PROVE LostInv'
  <2>1. files' = files \cup {g} /\ durable' = durable /\ pc'[p] = "sync" /\ doc'[p] = g
    BY <1>2, LinkShape
  <2>2. g.kind \in Keyed
    BY <2>1, TypeStep DEF TypeInv, DocInv
  <2> QED BY <2>1, <2>2 DEF LostInv
<1>3. ASSUME NEW p \in Proc, NEW g, Leave(p, g) PROVE LostInv'
  BY <1>3, LeaveShape DEF LostInv
<1>4. ASSUME NEW p \in Proc, Sync(p) PROVE LostInv'
  BY <1>4, SyncShape DEF LostInv
<1>5. CASE PowerLoss
  BY <1>5 DEF LostInv, PowerLoss
<1> QED BY <1>1, <1>2, <1>3, <1>4, <1>5, DiskSteps

\* Publications that are neither an attempt nor a report do not show.
LEMMA OtherFile ==
  ASSUME NEW g, g.kind \notin {"attempt", "report"}, durable' = durable \cup {g}
  PROVE  DurableLedgers("attempt")' = DurableLedgers("attempt") /\ Verdicts' = Verdicts
<1>1. \A k : {f \in durable' : f.kind = k} = {f \in durable : f.kind = k} \/ k = g.kind
  OBVIOUS
<1>2. {f \in durable' : f.kind = "attempt"} = {f \in durable : f.kind = "attempt"}
  BY <1>1
<1>3. {f \in durable' : f.kind = "report"} = {f \in durable : f.kind = "report"}
  BY <1>1
<1> QED BY <1>2, <1>3 DEF DurableLedgers, Verdicts, LedgerFor

LEMMA SameDisk ==
  UNCHANGED durable => DurableLedgers("attempt")' = DurableLedgers("attempt") /\ Verdicts' = Verdicts
BY DEF DurableLedgers, Verdicts, LedgerFor

LEMMA LedgersAre ==
  /\ \A l : l \in DurableLedgers("attempt") <=>
       \E f \in durable : f.kind = "attempt" /\ LedgerFor(f) = l
  /\ \A l : l \in DurableLedgers("attempt")' <=>
       \E f \in durable' : f.kind = "attempt" /\ LedgerFor(f) = l
BY DEF DurableLedgers, LedgerFor

LEMMA LeaveTicket ==
  ASSUME TypeInv, NEW p \in Proc, NEW g, g.kind \notin {"attempt", "report"}, Leave(p, g)
  PROVE  UNCHANGED LedgerTicket!vars
BY LeaveShape, OtherFile DEF LedgerTicket!vars

\* Steps that leave disk, writes and ends alone.
LEMMA HiddenTicket ==
  UNCHANGED <<durable, writes, finished>> => UNCHANGED LedgerTicket!vars
BY SameDisk DEF LedgerTicket!vars

LEMMA PowerLossTicket ==
  ASSUME TypeInv, LostInv, PowerLoss
  PROVE  [LedgerTicket!Next]_(LedgerTicket!vars)
<1> DEFINE new == DurableLedgers("attempt")' \ DurableLedgers("attempt")
<1>1. durable \subseteq durable' /\ durable' \subseteq files /\ UNCHANGED <<writes, finished>>
  BY DEF PowerLoss, TypeInv, TypeOK, DiskType
<1>2. {f \in durable' : f.kind = "report"} = {f \in durable : f.kind = "report"}
  BY <1>1 DEF LostInv, Keyed
<1>3. Verdicts' = Verdicts
  BY <1>2 DEF Verdicts, LedgerFor
<1>4. DurableLedgers("attempt") \subseteq DurableLedgers("attempt")'
  BY <1>1, LedgersAre
<1>5. DurableLedgers("attempt")' \subseteq Ledger
  BY <1>1, LedgersAre, FileLedger DEF TypeInv, TypeOK, DiskType
<1>6. /\ new \cap DurableLedgers("attempt") = {}
      /\ DurableLedgers("attempt")' = DurableLedgers("attempt") \cup new
  BY <1>4
<1>7. LedgerTicket!Spend(new)
  BY <1>1, <1>3, <1>6 DEF LedgerTicket!Spend
<1>8. new \in SUBSET Ledger
  BY <1>5
<1> HIDE DEF new
<1> QED BY <1>7, <1>8 DEF LedgerTicket!Next

LEMMA SyncTicket ==
  ASSUME TypeInv, NEW p \in Proc, Sync(p)
  PROVE  [LedgerTicket!Next]_(LedgerTicket!vars)
<1> DEFINE l == LedgerFor(doc[p])
<1>1. /\ UNCHANGED <<writes, finished>> /\ durable' = durable \cup {doc[p]}
      /\ doc[p].kind \in Keyed /\ doc[p] \in File
  BY SyncShape
<1>2. CASE doc[p].kind # "attempt"
  BY <1>1, <1>2, OtherFile DEF Keyed, LedgerTicket!vars
<1>3. CASE doc[p].kind = "attempt"
  <2>1. {f \in durable' : f.kind = "report"} = {f \in durable : f.kind = "report"}
    BY <1>1, <1>3
  <2>2. Verdicts' = Verdicts
    BY <2>1 DEF Verdicts, LedgerFor
  <2>3. DurableLedgers("attempt")' = DurableLedgers("attempt") \cup {l}
    <3>1. \A x : x \in DurableLedgers("attempt")' <=> x \in DurableLedgers("attempt") \/ x = l
      BY <1>1, <1>3, LedgersAre
    <3> QED BY <3>1
  <2>4. l \in Ledger
    BY <1>1, FileLedger
  <2>5. CASE l \in DurableLedgers("attempt")
    BY <1>1, <2>2, <2>3, <2>5 DEF LedgerTicket!vars
  <2>6. CASE l \notin DurableLedgers("attempt")
    <3>1. LedgerTicket!Spend({l})
      BY <1>1, <2>2, <2>3, <2>6 DEF LedgerTicket!Spend
    <3> QED BY <2>4, <3>1 DEF LedgerTicket!Next
  <2> QED BY <2>5, <2>6
<1> QED BY <1>2, <1>3

LEMMA SpawnTicket ==
  ASSUME TypeInv, LedgerInv, NEW p \in Proc, Spawn(p)
  PROVE  [LedgerTicket!Next]_(LedgerTicket!vars)
<1> DEFINE l == LedgerFor(doc[p])
<1>1. /\ pc[p] = "spawn" /\ UNCHANGED <<durable, finished>>
      /\ writes' = [writes EXCEPT ![l] = @ + 1]
  BY DEF Spawn, disk
<1>2. l \in Ledger
  BY <1>1, FileLedger DEF TypeInv, DocInv
<1>3. writes[l] = 0 /\ Known(durable, "attempt", p)
  BY <1>1 DEF LedgerInv, BootInv, RunsKnown, Past
<1>4. l \in DurableLedgers("attempt")
  BY <1>3, LedgersAre, SameLedger DEF Known
<1>5. writes' = [writes EXCEPT ![l] = 1]
  BY <1>1, <1>2, <1>3
<1>6. LedgerTicket!Start(l)
  BY <1>1, <1>3, <1>4, <1>5, SameDisk DEF LedgerTicket!Start
<1> QED BY <1>2, <1>6 DEF LedgerTicket!Next

LEMMA FinishTicket ==
  ASSUME TypeInv, LedgerInv, NEW p \in Proc, NEW ok \in BOOLEAN, FastbootEnds(p, ok)
  PROVE  [LedgerTicket!Next]_(LedgerTicket!vars)
<1> DEFINE l == LedgerFor(fastboot[p])
<1>1. fastboot[p] # None /\ UNCHANGED <<durable, writes>>
  BY DEF FastbootEnds, Ended, disk
<1>2. l \in Ledger /\ writes[l] = 1
  BY <1>1, FileLedger DEF TypeInv, TypeOK, RunType, LedgerInv, BootInv
<1>3. CASE ok
  <2>1. finished' = finished \cup {l}
    BY <1>3 DEF FastbootEnds
  <2>2. LedgerTicket!Finish(l)
    BY <1>1, <1>2, <2>1, SameDisk DEF LedgerTicket!Finish
  <2> QED BY <1>2, <2>2 DEF LedgerTicket!Next
<1>4. CASE ~ok
  <2>1. finished' = finished
    BY <1>4 DEF FastbootEnds
  <2> QED BY <1>1, <2>1, HiddenTicket
<1> QED BY <1>3, <1>4

LEMMA ReportTicket ==
  ASSUME TypeInv, LedgerInv, ReplugInv, NEW p \in Proc, PublishReport(p)
  PROVE  [LedgerTicket!Next]_(LedgerTicket!vars)
<1> DEFINE g == [doc[p] EXCEPT !.kind = "report", !.reported = now]
<1> DEFINE l == LedgerFor(doc[p])
<1>1. pc[p] = "answer" /\ Leave(p, g)
  BY DEF PublishReport
<1>2. doc[p] \in File /\ Truthful(doc[p]) /\ doc[p].route \in Route
  BY <1>1 DEF TypeInv, DocInv, ReplugInv, InHand
<1>3. g.kind = "report" /\ LedgerFor(g) = l /\ g.route = doc[p].route
  BY <1>2 DEF File, LedgerFor
<1>4. l \in Ledger /\ Known(durable, "attempt", p)
  BY <1>1, <1>2, FileLedger DEF LedgerInv, RunsKnown, Past
<1>5. l \in DurableLedgers("attempt")
  BY <1>4, LedgersAre, SameLedger DEF Known
<1>6. durable' = durable \cup {g} /\ UNCHANGED <<writes, finished>>
  BY <1>1, LeaveShape
<1> HIDE DEF g
<1>7. DurableLedgers("attempt")' = DurableLedgers("attempt")
  <2>1. {f \in durable' : f.kind = "attempt"} = {f \in durable : f.kind = "attempt"}
    BY <1>3, <1>6
  <2> QED BY <2>1 DEF DurableLedgers, LedgerFor
<1>8. Verdicts' = Verdicts \cup {<<l, doc[p].route>>}
  <2>1. \A v : v \in Verdicts' <=>
          \E f \in durable \cup {g} : f.kind = "report" /\ v = <<LedgerFor(f), f.route>>
    BY <1>6, Zenon DEF Verdicts, LedgerFor
  <2>2. \A v : v \in Verdicts <=>
          \E f \in durable : f.kind = "report" /\ v = <<LedgerFor(f), f.route>>
    BY Zenon DEF Verdicts
  <2>3. \A v : v \in Verdicts' <=> v \in Verdicts \/ v = <<l, doc[p].route>>
    BY <1>3, <2>1, <2>2, Zenon
  <2> QED BY <2>3, Zenon
<1>9. doc[p].route = "completed" => l \in finished
  BY <1>2 DEF Truthful, Settled
<1>10. doc[p].route \in LedgerTicket!Verdict /\ doc[p].route # "refused"
  BY <1>2 DEF Route, LedgerTicket!Verdict
<1>11. LedgerTicket!Publish(l, doc[p].route)
  BY <1>5, <1>6, <1>7, <1>8, <1>9, <1>10 DEF LedgerTicket!Publish
<1> QED BY <1>4, <1>10, <1>11 DEF LedgerTicket!Next

LEMMA DeployTicket ==
  ASSUME TypeInv, LedgerInv, ReplugInv, NEW p \in Proc, Deploy(p)
  PROVE  [LedgerTicket!Next]_(LedgerTicket!vars)
<1>1. CASE Preflight(p)
  <2>1. doc[p].kind = "preflight"
    BY <1>1, NoNonce DEF Preflight, DocKind
  <2> QED BY <1>1, <2>1, LeaveTicket DEF Preflight
<1>2. CASE Approve(p)
  <2>1. PICK d \in files : Leave(p, [d EXCEPT !.kind = "approval", !.approved = now])
    BY <1>2 DEF Approve, OfKind
  <2> DEFINE g == [d EXCEPT !.kind = "approval", !.approved = now]
  <2>2. g.kind \notin {"attempt", "report"} /\ Leave(p, g)
    BY <2>1 DEF TypeInv, TypeOK, DiskType, File
  <2> HIDE DEF g
  <2> QED BY <2>2, LeaveTicket
<1>3. CASE \/ \E f \in Profile : StartPreflight(p, f)
           \/ CheckExecute(p) \/ ConsumeClaim(p) \/ QueryExecute(p) \/ PublishAttempt(p)
           \/ PublishIntent(p) \/ SpawnFails(p) \/ KillFastboot(p)
  <2>1. UNCHANGED <<durable, writes, finished>>
    BY <1>3 DEF StartPreflight, CheckExecute, ConsumeClaim, QueryExecute, PublishAttempt,
         PublishIntent, SpawnFails, KillFastboot, Advance, Link, Ended, disk, history
  <2> QED BY <2>1, HiddenTicket
<1> QED BY <1>1, <1>2, <1>3, SpawnTicket, ReportTicket DEF Deploy

LEMMA RevalidateTicket ==
  ASSUME TypeInv, ReplugInv, NEW p \in Proc, Revalidate(p)
  PROVE  UNCHANGED LedgerTicket!vars
<1>1. CASE PublishToken(p)
  <2>1. PICK n \in Nonce :
          Leave(p, [doc[p] EXCEPT !.kind = "token", !.armed = now, !.nonce = n])
    BY <1>1 DEF PublishToken
  <2> DEFINE g == [doc[p] EXCEPT !.kind = "token", !.armed = now, !.nonce = n]
  <2>2. g.kind \notin {"attempt", "report"} /\ Leave(p, g)
    BY <1>1, <2>1 DEF PublishToken, TypeInv, DocInv, File
  <2> HIDE DEF g
  <2> QED BY <2>2, LeaveTicket
<1>2. CASE PublishPost(p)
  <2> DEFINE v == doc[p].passed /\ doc[p].used <= now /\ now <= doc[p].armed + ReplugTTL
  <2> DEFINE g == [doc[p] EXCEPT !.kind = "post", !.passed = v]
  <2>1. g.kind \notin {"attempt", "report"} /\ Leave(p, g)
    BY <1>2 DEF PublishPost, TypeInv, DocInv, File
  <2> HIDE DEF g
  <2> QED BY <2>1, LeaveTicket
<1>3. CASE \/ AuditArm(p) \/ ObserveAbsence(p) \/ CheckToken(p) \/ ConsumeToken(p)
           \/ \E passed \in BOOLEAN : Requery(p, passed)
  <2>1. UNCHANGED <<durable, writes, finished>>
    BY <1>3 DEF AuditArm, ObserveAbsence, CheckToken, ConsumeToken, Requery, Advance, Link,
         disk, history
  <2> QED BY <2>1, HiddenTicket
<1> QED BY <1>1, <1>2, <1>3 DEF Revalidate

LEMMA TicketInit == Init => LedgerTicket!Init
BY DEF Init, LedgerTicket!Init, DurableLedgers, Verdicts

LEMMA TicketStep ==
  TypeInv /\ LedgerInv /\ ReplugInv /\ LostInv /\ [Next]_vars
    => [LedgerTicket!Next]_(LedgerTicket!vars)
<1> SUFFICES ASSUME TypeInv, LedgerInv, ReplugInv, LostInv, [Next]_vars
             PROVE  [LedgerTicket!Next]_(LedgerTicket!vars)
  OBVIOUS
<1>1. ASSUME NEW p \in Proc, Refuse(p) \/ Kill(p) PROVE UNCHANGED LedgerTicket!vars
  BY <1>1, HiddenTicket DEF Refuse, Kill, disk, history
<1>2. CASE SetClock \/ Plug \/ Unplug \/ UNCHANGED vars
  BY <1>2, HiddenTicket DEF SetClock, Plug, Unplug, vars, disk, history
<1> QED
  BY <1>1, <1>2, DeployTicket, RevalidateTicket, SyncTicket, FinishTicket, PowerLossTicket
     DEF Next

\* The programs keep WriteTicket's promise for every pair of ledgers: however many
\* runs race, whatever is killed and whenever the power goes, at most one fastboot
\* is started, after a durable attempt, and reports say what is so (LedgerTicketSpec).
THEOREM KeepsTheLedgerTicket == Spec => LedgerTicketSpec
<1>1. Init /\ [][Next]_vars => [](TypeInv /\ LedgerInv /\ ReplugInv /\ LostInv)
  BY TypeInit, TypeStep, LedgerInit, LedgerStep, ReplugInit, ReplugStep, LostInit, LostStep, PTL
<1> QED BY <1>1, TicketInit, TicketStep, PTL DEF Spec, LedgerTicketSpec, LedgerTicket!Spec

-----------------------------------------------------------------------------
(* What the ticket's promise comes to                                       *)

\* The invariant of WriteTicket.
TicketInv ==
  /\ writes \in [Ledger -> {0, 1}]
  /\ \A l \in Ledger :
       /\ writes[l] = 1 => l \in DurableLedgers("attempt")
       /\ l \in finished => writes[l] = 1
       /\ <<l, "completed">> \in Verdicts => l \in finished

LEMMA TicketSafe == LedgerTicketSpec => []TicketInv
<1>1. LedgerTicket!Init => TicketInv
  BY DEF LedgerTicket!Init, TicketInv
<1>2. TicketInv /\ [LedgerTicket!Next]_(LedgerTicket!vars) => TicketInv'
  <2> SUFFICES ASSUME TicketInv, [LedgerTicket!Next]_(LedgerTicket!vars) PROVE TicketInv'
    OBVIOUS
  <2> USE DEF TicketInv
  <2>1. ASSUME NEW T \in SUBSET Ledger, LedgerTicket!Spend(T) PROVE TicketInv'
    BY <2>1 DEF LedgerTicket!Spend
  <2>2. ASSUME NEW l \in Ledger, LedgerTicket!Close(l) PROVE TicketInv'
    BY <2>2 DEF LedgerTicket!Close
  <2>3. ASSUME NEW l \in Ledger, LedgerTicket!Start(l) PROVE TicketInv'
    BY <2>3 DEF LedgerTicket!Start
  <2>4. ASSUME NEW l \in Ledger, LedgerTicket!Finish(l) PROVE TicketInv'
    BY <2>4 DEF LedgerTicket!Finish
  <2>5. ASSUME NEW l \in Ledger, NEW v \in LedgerTicket!Verdict, LedgerTicket!Publish(l, v)
        PROVE  TicketInv'
    BY <2>5 DEF LedgerTicket!Publish
  <2>6. CASE UNCHANGED LedgerTicket!vars
    BY <2>6 DEF LedgerTicket!vars
  <2> QED BY <2>1, <2>2, <2>3, <2>4, <2>5, <2>6 DEF LedgerTicket!Next
<1> QED BY <1>1, <1>2, PTL DEF LedgerTicketSpec, LedgerTicket!Spec

\* One fastboot for each pair of ledgers, after an attempt that no power loss
\* takes away, and a durable report of a completed write is about a write that
\* ran to its end.
OneWrite ==
  \A l \in Ledger :
    /\ writes[l] <= 1
    /\ writes[l] = 1 => \E a \in durable : a.kind = "attempt" /\ LedgerFor(a) = l
    /\ \A r \in durable : r.kind = "report" /\ r.route = "completed" /\ LedgerFor(r) = l
                            => l \in finished /\ writes[l] = 1

\* Runs that race for one approval, are killed or lose the power never write
\* twice nor report more than was done: it follows from the ticket's promise.
THEOREM WritesOnce == Spec => []OneWrite
<1>1. TicketInv => OneWrite
  <2> SUFFICES ASSUME TicketInv, NEW l \in Ledger
               PROVE  /\ writes[l] <= 1
                      /\ writes[l] = 1 =>
                           \E a \in durable : a.kind = "attempt" /\ LedgerFor(a) = l
                      /\ \A r \in durable :
                           r.kind = "report" /\ r.route = "completed" /\ LedgerFor(r) = l
                             => l \in finished /\ writes[l] = 1
    BY DEF OneWrite
  <2>1. writes[l] \in {0, 1}
    BY DEF TicketInv
  <2>2. writes[l] = 1 => \E a \in durable : a.kind = "attempt" /\ LedgerFor(a) = l
    BY DEF TicketInv, DurableLedgers
  <2>3. ASSUME NEW r \in durable, r.kind = "report", r.route = "completed", LedgerFor(r) = l
        PROVE  l \in finished /\ writes[l] = 1
    BY <2>3 DEF TicketInv, Verdicts
  <2> QED BY <2>1, <2>2, <2>3
<1> QED BY <1>1, KeepsTheLedgerTicket, TicketSafe, PTL
=============================================================================
