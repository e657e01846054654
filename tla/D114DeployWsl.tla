--------------------------- MODULE D114DeployWsl ---------------------------
(***************************************************************************)
(* The D114 userdata deployment from WSL,                                  *)
(* scripts/lmi_p2_d114/deploy_userdata_wsl.py, and the check after it,     *)
(* postwrite_revalidate_wsl.py.                                            *)
(*                                                                         *)
(* Everything these programs remember is a chain of files, each published  *)
(* once by link(2) and then made durable by fsync(2) of its directory: a   *)
(* preflight, its approval, the consumed claim, the attempt, the intent,   *)
(* the execute report; and after the write a replug token, its             *)
(* consumption and the postwrite report.  Three of the names are keys: a   *)
(* claim is named after its approval, an attempt after the candidate, in   *)
(* ledger directories that the profile names, and a consumption after its  *)
(* token.  No lock is taken.                                               *)
(*                                                                         *)
(* Runs may be killed at any step and the host may lose power, which may   *)
(* lose links that are not durable yet.  fastboot is started in a session  *)
(* of its own and outlives a killed run.  The wall clock may be set.       *)
(*                                                                         *)
(* A file is a record with all that its chain says so far; its hash is the *)
(* record.  Names that the caller chooses are not modelled: that one is    *)
(* taken already is among the reasons a run may refuse for at any step, as *)
(* are the contents of profiles, policies, images and device answers.      *)
(* local-audit changes no state that another mode reads.  A deploy-once is *)
(* a preflight, an approve and an execute of one run in a row; here each   *)
(* of them takes any file of the right kind, the run's own among them.     *)
(***************************************************************************)
EXTENDS Naturals

CONSTANTS
  Proc,        \* runs of the two programs
  Profile,     \* private WSL profiles
  Ledger,      \* pairs of ledger directories
  LedgerOf,    \* the ledgers each profile names
  Nonce,       \* replug nonces; a bound on their number too
  None,
  TTL,         \* APPROVAL_TTL_SECONDS
  MaxAge,      \* PREFLIGHT_MAX_AGE_SECONDS
  ReplugTTL,   \* REPLUG_TTL_SECONDS
  MaxTime,     \* bound: last value of the clock
  MaxTicks,    \* bound: how often the clock changes
  MaxPlugs     \* bound: how often the handset appears in fastboot

ASSUME DeployAssumption ==
  /\ LedgerOf \in [Profile -> Ledger]
  /\ {TTL, MaxAge, ReplugTTL, MaxTime, MaxTicks, MaxPlugs} \subseteq Nat

VARIABLES
  now,        \* int(time.time())
  ticks,      \* how often it has changed
  connected,  \* `fastboot devices` lists the handset
  plugs,      \* how often it has appeared
  files,      \* published files
  durable,    \* the ones whose directory entry is on the disk
  pc,         \* where each run is
  doc,        \* the last file the run has loaded or published
  fastboot,   \* the intent under which its fastboot is writing
  writes,     \* history: writes started for each ledger
  finished,   \* history: ledgers whose write ran to its end
  wroteAt     \* history: plugs when a write for the ledger last ended

device == <<ticks, connected, plugs>>
disk == <<files, durable>>
local == <<pc, doc>>
history == <<writes, finished, wroteAt>>
vars == <<now, device, disk, local, fastboot, history>>

Time == 1 .. MaxTime
Stamp == 0 .. MaxTime
Route == {"completed", "unknown"}

\* The files in the order of their chain; a field not reached yet is 0 or None.
Kind == {"preflight", "approval", "claim", "attempt", "intent", "report",
         "token", "used", "post"}
File == [kind : Kind, profile : Profile,
         checked : Stamp, approved : Stamp, claimed : Stamp, attempted : Stamp,
         reported : Stamp, route : Route \cup {None},
         armed : Stamp, nonce : Nonce \cup {None}, used : Stamp, passed : BOOLEAN]

\* None is nothing else.
ASSUME NoneAssumption ==
  /\ None \notin File
  /\ None \notin Nonce \cup Route

PC == {"idle", "preflight", "claim", "query", "recheck", "intent", "spawn", "wait",
       "answer", "arm", "absent", "consume", "requery", "final", "sync"}

OfKind(k) == {f \in files : f.kind = k}
LedgerFor(f) == LedgerOf[f.profile]
SameApproval(f, g) ==
  f.profile = g.profile /\ f.checked = g.checked /\ f.approved = g.approved

Init ==
  /\ now \in Time
  /\ ticks = 0
  /\ connected = FALSE
  /\ plugs = 0
  /\ files = {}
  /\ durable = {}
  /\ pc = [p \in Proc |-> "idle"]
  /\ doc = [p \in Proc |-> None]
  /\ fastboot = [p \in Proc |-> None]
  /\ writes = [l \in Ledger |-> 0]
  /\ finished = {}
  /\ wroteAt = [l \in Ledger |-> 0]

-----------------------------------------------------------------------------
(* Steps of a run.                                                         *)

Idle(p) == pc[p] = "idle" /\ fastboot[p] = None

Go(p, next) == pc' = [pc EXCEPT ![p] = next]

\* _publish: the file is there for everyone, but not yet durable.
Link(p, f) ==
  /\ files' = files \cup {f}
  /\ doc' = [doc EXCEPT ![p] = f]
  /\ Go(p, "sync")
  /\ UNCHANGED <<now, device, durable, fastboot, history>>

End(p) == Go(p, "idle") /\ doc' = [doc EXCEPT ![p] = None]

\* The publication that ends a run: what has been lost before it is durable has
\* as good as not been published.
Leave(p, f) ==
  /\ files' = files \cup {f}
  /\ durable' = durable \cup {f}
  /\ End(p)
  /\ UNCHANGED <<now, device, fastboot, history>>

\* A step that takes the run and its file along and publishes nothing.
Advance(p, d, next) ==
  /\ doc' = [doc EXCEPT ![p] = d]
  /\ Go(p, next)
  /\ UNCHANGED <<now, device, disk, fastboot, history>>

\* Where a run goes on once a file of the kind is durable.
After(kind) ==
  CASE kind = "claim" -> "query"
    [] kind = "attempt" -> "intent"
    [] kind = "intent" -> "spawn"
    [] kind = "used" -> "requery"

\* An intent that is linked but never synced.
SyncUnlessIntent(p) ==
  /\ pc[p] = "sync"
  /\ durable' = IF doc[p].kind = "intent" THEN durable ELSE durable \cup {doc[p]}
  /\ Go(p, After(doc[p].kind))
  /\ UNCHANGED <<now, device, files, doc, fastboot, history>>

\* _publish: fsync of the directory.
Sync(p) ==
  /\ pc[p] = "sync"
  /\ durable' = durable \cup {doc[p]}
  /\ Go(p, After(doc[p].kind))
  /\ UNCHANGED <<now, device, files, doc, fastboot, history>>

\* A DeployError or an OSError; whatever has been published stays.
Refuse(p) ==
  /\ pc[p] \notin {"idle", "wait"}
  /\ End(p)
  /\ UNCHANGED <<now, device, disk, fastboot, history>>

\* SIGKILL: no finally clause runs, and fastboot goes on.
Kill(p) ==
  /\ pc[p] = "wait"
  /\ End(p)
  /\ UNCHANGED <<now, device, disk, fastboot, history>>

-----------------------------------------------------------------------------
(* preflight and approve.                                                  *)

\* The time of a preflight is read before the handset is queried.
StartPreflight(p, f) ==
  /\ Idle(p)
  /\ Advance(p, [kind |-> "preflight", profile |-> f, checked |-> now, approved |-> 0,
                 claimed |-> 0, attempted |-> 0, reported |-> 0, route |-> None,
                 armed |-> 0, nonce |-> None, used |-> 0, passed |-> FALSE], "preflight")

\* query_device passes every gate, and the report is published.
Preflight(p) == pc[p] = "preflight" /\ connected /\ Leave(p, doc[p])

\* _validate_preflight
PreflightFresh(d, t) == d.checked <= t /\ t - d.checked <= MaxAge

\* _validate_approval
ApprovalFresh(d, t) == d.approved <= t /\ t <= d.approved + TTL

Approve(p) ==
  \E d \in OfKind("preflight") :
    /\ Idle(p)
    /\ PreflightFresh(d, now)
    /\ Leave(p, [d EXCEPT !.kind = "approval", !.approved = now])

-----------------------------------------------------------------------------
(* execute.                                                                *)

Claimed(d) == \E f \in OfKind("claim") : SameApproval(f, d)
Attempted(d) == \E f \in OfKind("attempt") : LedgerFor(f) = LedgerFor(d)

\* Outputs are absent, preflight and approval are fresh at initial_now.
CheckExecute(p) ==
  \E d \in OfKind("approval") :
    /\ Idle(p)
    /\ ~Claimed(d) /\ ~Attempted(d)
    /\ PreflightFresh(d, now) /\ ApprovalFresh(d, now)
    /\ Advance(p, [d EXCEPT !.claimed = now], "claim")

\* _consume_claim: link(2) does not replace a file.
ConsumeClaim(p) ==
  /\ pc[p] = "claim"
  /\ ~Claimed(doc[p])
  /\ Link(p, [doc[p] EXCEPT !.kind = "claim"])

QueryExecute(p) == pc[p] = "query" /\ connected /\ Advance(p, doc[p], "recheck")

\* An attempt that replaces the one that is there.
AttemptReplaced(p) ==
  /\ pc[p] = "recheck"
  /\ PreflightFresh(doc[p], now) /\ ApprovalFresh(doc[p], now)
  /\ Link(p, [doc[p] EXCEPT !.kind = "attempt", !.attempted = now])

\* Preflight and approval are fresh at final_now too; _publish_candidate_attempt.
PublishAttempt(p) ==
  /\ pc[p] = "recheck"
  /\ PreflightFresh(doc[p], now) /\ ApprovalFresh(doc[p], now)
  /\ ~Attempted(doc[p])
  /\ Link(p, [doc[p] EXCEPT !.kind = "attempt", !.attempted = now])

PublishIntent(p) == pc[p] = "intent" /\ Link(p, [doc[p] EXCEPT !.kind = "intent"])

\* run_bounded: Popen has started fastboot.
Spawn(p) ==
  /\ pc[p] = "spawn"
  /\ fastboot' = [fastboot EXCEPT ![p] = doc[p]]
  /\ writes' = [writes EXCEPT ![LedgerFor(doc[p])] = @ + 1]
  /\ Go(p, "wait")
  /\ UNCHANGED <<now, device, disk, doc, finished, wroteAt>>

\* execute: route, from CommandResult.
Answer(p, route) ==
  /\ doc' = [doc EXCEPT ![p].route = route]
  /\ Go(p, "answer")

\* run_bounded: Popen fails; started is False.
SpawnFails(p) ==
  /\ pc[p] = "spawn"
  /\ Answer(p, "unknown")
  /\ UNCHANGED <<now, device, disk, fastboot, history>>

Ended(p) ==
  /\ fastboot' = [fastboot EXCEPT ![p] = None]
  /\ wroteAt' = [wroteAt EXCEPT ![LedgerFor(fastboot[p])] = plugs]
  /\ UNCHANGED <<now, device, disk, writes>>

\* fastboot exits by itself; a run that is still there reads its transcript.
FastbootEnds(p, ok) ==
  /\ fastboot[p] # None
  /\ ok => connected
  /\ finished' = IF ok THEN finished \cup {LedgerFor(fastboot[p])} ELSE finished
  /\ IF pc[p] = "wait"
     THEN \E route \in {"unknown"} \cup (IF ok THEN {"completed"} ELSE {}) : Answer(p, route)
     ELSE UNCHANGED local
  /\ Ended(p)

\* WRITE_TIMEOUT_SECONDS have passed, or MAX_OUTPUT_BYTES have been read: killpg.
KillFastboot(p) ==
  /\ pc[p] = "wait"
  /\ Answer(p, "unknown")
  /\ UNCHANGED finished
  /\ Ended(p)

PublishReport(p) ==
  /\ pc[p] = "answer"
  /\ Leave(p, [doc[p] EXCEPT !.kind = "report", !.reported = now])

-----------------------------------------------------------------------------
(* postwrite_revalidate_wsl.py: arm-replug and revalidate.                 *)

\* _validate_execute_report and _audit_lineage.
LineageHolds(d) ==
  /\ d.route = "completed"
  /\ \E c \in OfKind("claim"), a \in OfKind("attempt"), i \in OfKind("intent"),
        r \in OfKind("report") :
       /\ \A f \in {c, a, i, r} : SameApproval(f, d)
       /\ c.claimed = d.claimed /\ a.attempted = d.attempted /\ i.attempted = d.attempted
       /\ r.reported = d.reported /\ r.route = d.route
  /\ d.claimed <= d.attempted /\ d.attempted <= d.reported

AuditArm(p) ==
  \E d \in OfKind("report") :
    /\ Idle(p)
    /\ LineageHolds(d)
    /\ Advance(p, d, "arm")

\* An arm-replug that does not look at the answer.
AbsenceIgnored(p) == pc[p] = "arm" /\ Advance(p, doc[p], "absent")

\* _strict_absence: `fastboot devices` lists nothing.
ObserveAbsence(p) == pc[p] = "arm" /\ ~connected /\ Advance(p, doc[p], "absent")

PublishToken(p) ==
  /\ pc[p] = "absent"
  /\ \E n \in {n \in Nonce : \A f \in files : f.nonce # n} :
       Leave(p, [doc[p] EXCEPT !.kind = "token", !.armed = now, !.nonce = n])

\* _validate_token
TokenFresh(d, t) == d.reported <= d.armed /\ d.armed <= t /\ t <= d.armed + ReplugTTL

\* revalidate, at initial_now.
CheckToken(p) ==
  \E d \in OfKind("token") :
    /\ Idle(p)
    /\ LineageHolds(d) /\ TokenFresh(d, now)
    /\ Advance(p, [d EXCEPT !.used = now], "consume")

\* A consumption that replaces the one that is there.
ConsumeAgain(p) == pc[p] = "consume" /\ Link(p, [doc[p] EXCEPT !.kind = "used"])

\* _consume_token: the name is the token's with a suffix.
ConsumeToken(p) ==
  /\ pc[p] = "consume"
  /\ \A f \in OfKind("used") : f.nonce # doc[p].nonce
  /\ Link(p, [doc[p] EXCEPT !.kind = "used"])

Requery(p, passed) ==
  /\ pc[p] = "requery"
  /\ passed => connected
  /\ Advance(p, [doc[p] EXCEPT !.passed = passed], "final")

\* final_now is neither before initial_now nor past the token's end.
PublishPost(p) ==
  /\ pc[p] = "final"
  /\ LET ok == doc[p].used <= now /\ now <= doc[p].armed + ReplugTTL IN
       Leave(p, [doc[p] EXCEPT !.kind = "post", !.passed = @ /\ ok])

-----------------------------------------------------------------------------
(* What happens around the runs.                                           *)

SetClock ==
  /\ ticks < MaxTicks
  /\ now' \in Time \ {now}
  /\ ticks' = ticks + 1
  /\ UNCHANGED <<connected, plugs, disk, local, fastboot, history>>

Plug ==
  /\ ~connected /\ plugs < MaxPlugs
  /\ connected' = TRUE
  /\ plugs' = plugs + 1
  /\ UNCHANGED <<now, ticks, disk, local, fastboot, history>>

Unplug ==
  /\ connected
  /\ connected' = FALSE
  /\ UNCHANGED <<now, ticks, plugs, disk, local, fastboot, history>>

\* The host loses power: every process ends, and any link that is not durable
\* may be gone.
PowerLoss ==
  /\ \E lost \in SUBSET (files \ durable) : files' = files \ lost
  /\ durable' = files'
  /\ pc' = [p \in Proc |-> "idle"]
  /\ doc' = [p \in Proc |-> None]
  /\ fastboot' = [p \in Proc |-> None]
  /\ wroteAt' = [l \in Ledger |->
       IF \E p \in Proc : fastboot[p] # None /\ LedgerFor(fastboot[p]) = l
       THEN plugs ELSE wroteAt[l]]
  /\ UNCHANGED <<now, device, writes, finished>>

Deploy(p) ==
  \/ \E f \in Profile : StartPreflight(p, f)
  \/ Preflight(p) \/ Approve(p)
  \/ CheckExecute(p) \/ ConsumeClaim(p) \/ QueryExecute(p)
  \/ PublishAttempt(p) \/ PublishIntent(p) \/ Spawn(p) \/ SpawnFails(p)
  \/ KillFastboot(p) \/ PublishReport(p)

Revalidate(p) ==
  \/ AuditArm(p) \/ ObserveAbsence(p) \/ PublishToken(p)
  \/ CheckToken(p) \/ ConsumeToken(p) \/ PublishPost(p)
  \/ \E passed \in BOOLEAN : Requery(p, passed)

Next ==
  \/ \E p \in Proc :
       \/ Deploy(p) \/ Revalidate(p) \/ Sync(p) \/ Refuse(p) \/ Kill(p)
       \/ \E ok \in BOOLEAN : FastbootEnds(p, ok)
  \/ SetClock \/ Plug \/ Unplug \/ PowerLoss

Spec == Init /\ [][Next]_vars

-----------------------------------------------------------------------------
DeviceType ==
  /\ now \in Time
  /\ ticks \in 0 .. MaxTicks
  /\ connected \in BOOLEAN
  /\ plugs \in 0 .. MaxPlugs

DiskType == files \subseteq File /\ durable \subseteq files

RunType ==
  /\ pc \in [Proc -> PC]
  /\ doc \in [Proc -> File \cup {None}]
  /\ fastboot \in [Proc -> File \cup {None}]

HistoryType ==
  /\ writes \in [Ledger -> Nat]
  /\ finished \subseteq Ledger
  /\ wroteAt \in [Ledger -> 0 .. MaxPlugs]

TypeOK == DeviceType /\ DiskType /\ RunType /\ HistoryType

\* The programs implement WriteTicket with one ticket for each pair of ledgers: it
\* is spent when the attempt is durable (execute, _publish_candidate_attempt).
DurableLedgers(k) == {LedgerFor(f) : f \in {g \in durable : g.kind = k}}
Verdicts == {<<LedgerFor(f), f.route>> : f \in {g \in durable : g.kind = "report"}}

LedgerTicket == INSTANCE WriteTicket WITH
  Ticket <- Ledger, spent <- DurableLedgers("attempt"), closed <- {},
  started <- writes, finished <- finished, verdicts <- Verdicts

LedgerTicketSpec == LedgerTicket!Spec

\* Once fastboot has run, claim, attempt and intent of one approval are on the
\* disk, so that no power loss makes the write one that nobody knows of (_publish).
WriteOnRecord ==
  \A l \in Ledger : writes[l] > 0 =>
    \E c, a, i \in durable :
      /\ c.kind = "claim" /\ a.kind = "attempt" /\ i.kind = "intent"
      /\ SameApproval(c, a) /\ SameApproval(a, i) /\ LedgerFor(i) = l

\* A passed postwrite report: the write ran to its end, none is running, and the
\* handset went away and came back after it (arm_replug, revalidate).
PassMeansReplug ==
  \A f \in OfKind("post") : f.passed =>
    /\ LedgerFor(f) \in finished
    /\ \A p \in Proc : fastboot[p] # None => LedgerFor(fastboot[p]) # LedgerFor(f)
    /\ wroteAt[LedgerFor(f)] < plugs

\* A replug token gives one postwrite report, even to two runs that have both
\* validated it and across a loss of power (_consume_token).
OneReportPerToken ==
  \A f, g \in OfKind("post") : f.nonce = g.nonce => f = g
=============================================================================
