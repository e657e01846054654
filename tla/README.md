# TLA+ verification of the lmi (Redmi K30 Pro) bring-up tooling

This directory models the parts of the repository that decide, on the host and
on the device, whether a device-changing action may happen, and in what order
its steps take effect.  `PROJECT.json` is the machine-readable index: components,
runs, mutants, the map from definitions to source lines, findings, hazards and
theorems.

## 1. Inventory of the system

Three approval machines exist side by side (`docs/adr/0001`), each with its own
durable evidence:

| Part | Source | State | Operations |
|---|---|---|---|
| Governance engine | `scripts/bringup_loop.py` | active record, replay guards, claims ledger, archive, policy, flock | new, claim, preflight, result, observe, archive, authorize-profile, validate |
| D110 session gate | `scripts/lmi_d110_session.py`, `scripts/72_stage_downstream_ssh_wifi_test.sh` | session grant, pending and consumed receipts, execute lock, clock | --authorize-session, --execute, --revoke-session |
| D114 userdata deploy, Windows | `scripts/lmi_p2_d114/deploy_userdata.py`, `deploy_userdata_helper.ps1` | preflight reports, approval claims, consumed markers, intent journal, device lock, reports | preflight, approve, execute, postwrite, recover-intent |
| D114 userdata deploy, WSL | `scripts/lmi_p2_d114/deploy_userdata_wsl.py`, `postwrite_revalidate_wsl.py` | one chain of no-replace files, claim and attempt ledgers, replug tokens | preflight, approve, execute, deploy-once; arm-replug, revalidate |

On the handset three small C programs keep the display session alive and leave
nothing behind when it ends:

| Part | Source | State | Operations |
|---|---|---|---|
| Child supervisor | `files/lmi-p2/lmi-child-supervisor.c` | none of its own; the kernel's process tree | drain, has_adopted, peek_exit_code, reap_anchor |
| Display handoff | `files/lmi-p2/lmi-display-handoff.c` | anchor PID, stop flag, exit code | wait for devices, fork the VT session, supervise, last drain |
| Terminal bridge | `files/lmi-p2/lmi-terminal-bridge.c` | anchor PID, raw mode, flags of SIGWINCH and stop | start the shell, copy, resize, stop, clean up |

The P1 chain turns curated packages and the developer's checkouts into a
candidate image, in three stages that each publish under a name:

| Part | Source | State | Operations |
|---|---|---|---|
| Offline cache | `scripts/lmi_p1/offline_cache.py`, `offline_cache_calibration.py` | quarantine and published directory of each of three slots, the attestation, the calibration's authorization and bundle | promote; prepare and execute a calibration, install its candidate |
| Seal packer | `scripts/lmi_p1_seal_pack.py` | one temporary and one published stream file | preflight, derive, write, rename, derive again, commit or clean up |
| Seal installer and policy | `scripts/lmi_p1_seal_installer.py`, `scripts/lmi_p1/seal.py` | the store's seals, its lock, the active-policy file | install, activate, rollback, read the active seal |
| Root launcher, sealed entry | `scripts/lmi_p1_root_launcher.py`, `scripts/lmi_p1_cli.py` | run directories, launcher lock | launch the active seal, prune old runs, look again before and after the build |
| Sealed build | `scripts/lmi_p1/build.py`, `artifact_semantics.py`, `inputs.py`, `pmaports.py`, `common.py` | private copies, pmbootstrap's chroots, exported images, semantic report, manifest | copy inputs, two installs, finalize, export, inspect, freeze, return or clean up |

The rest of the repository is not modelled:

| Part | Source | What it does |
|---|---|---|
| P1 acquisition, kernel inputs | `scripts/lmi_p1/` (acquisition and kernel modules) | curates an acquisition and kernel artifacts, which are the initial state of the models above |
| D114 image preparation | `scripts/lmi_p2_d114/inject_rootfs_candidate.sh`, `assemble_userdata_image.py`, `generate.py` | loop mounts and their cleanup, image assembly, generated files |
| D114 postwrite check from Windows | `scripts/lmi_p2_d114/postwrite_revalidate.py`, `..._helper.ps1` | the same check as the one from WSL, over a PowerShell helper |
| Transcript parser | `scripts/lmi_p2_d114/fastboot_transcript.py` | reads fastboot's output; here its verdict is a choice |
| On-screen keyboard, launcher | `files/lmi-p2/lmi-weston-osk.c`, `lmi-*-state.c`, `lmi-session-launcher.c` | modifier and layer state, one-shot launch |
| Device lifecycle scripts | `files/lmi-p2*/`, `files/lmi-p3/` | accounts, configuration, ADSP start, audio route |
| Weston trial | `files/lmi-weston-sixrow/`, `scripts/lmi_weston_sixrow/` | stage, try and roll back a compositor |
| Release tooling | `scripts/lmi_release_pins.py`, `lmi_cli_installer.py`, `lib/release_checks.sh` | pins, installer, static checks |
| Numbered scripts | `scripts/NN_*.sh` | download, build, pack, probe; no durable state of their own |

**How they interact.**  The host programs share nothing but the file system, the
handset and the clock.  Governance prints a command that an operator runs; it
never runs it.  The D110 script holds a `flock` whose descriptor its children
inherit.  The Windows deployment is two processes on two kernels joined by files
and a pipe; the WSL one is a single process with a fastboot child.  On the
handset the programs interact with the kernel's process tree only.  The P1
programs meet in directories: a promotion publishes the cache a build reads, a
packer the stream an installer reads, an installer the seal an administrator
activates and a launcher starts.  Locks are held within a program, never from
one stage to the next, so each stage looks again at what the one before left.

**What is hard.**  Several host processes over one set of files; crashes and, for
the WSL deployment and the P1 stores, losses of power between the writes of one
transaction; a name that stands for something else than when it was checked;
inputs that their owner goes on editing while they are read;
decisions taken on state read before a prompt, a device query or a subprocess;
deadlines; children that outlive whoever started them; PIDs that are reused;
evidence that must be neither lost nor used twice.  `PROJECT.json` lists these
hazards at their lines, each with the properties that watch it.

**What makes each part correct.**  Governance: a device command is printed at
most once per claim, only as the owner authorised it, never without its audit
trail.  D110: one boot action at a time, under one grant with the same bindings,
within its receipt.  Both D114 deployments: at most one write under a one-use
approval, always on record before it starts, and reports that no later step
makes wrong.  Offline cache and seal store: a published name stands for one
whole tree for good, and a success is of what was authorised.  Sealed build: what
is returned was built from pinned copies, and its required images have the bytes
that were inspected together.  Display: only own processes are signalled, a clean exit leaves
nothing running, and a stop request always takes effect.

## 2. Modules

| Module | Models |
|---|---|
| `Governance` | `bringup_loop.py` |
| `D110Session` | script 72 and `lmi_d110_session.py` together |
| `WriteTicket` | abstract: what a one-use approval of a write promises |
| `D114Deploy` | `deploy_userdata.py` with `deploy_userdata_helper.ps1` |
| `D114DeployWsl` | `deploy_userdata_wsl.py` with `postwrite_revalidate_wsl.py` |
| `ChildSupervisor` | the library, and the process tree it works on |
| `DisplayHandoff`, `TerminalBridge` | the two programs over `ChildSupervisor` (EXTENDS) |
| `PublishOnce` | abstract: what a directory that is filled in private and renamed promises |
| `OfflineCache` | promotion and calibration, composed: a calibration promotes twice, production once |
| `SealStore` | packer, installer, policy administrator, launcher and sealed entry over one store |
| `SealedBuild` | one candidate build |
| `MC*` | constants, symmetry and initial contents for TLC |
| `*Proofs` | theorems |

### Governance
A process per invocation with a program counter `pc` and its locals; the files
`active`, `guards`, `ledger`, `archived`, `policy`, `profiles` and the lock are
variables.  Steps are cut where another process, a hand edit or a crash can come
in between: the claim writes guard, ledger line and record one after the other
(`_claim`), `authorize-profile` previews without the lock and checks again under
it.  A rewrite compares the file with what was read (`CompareActive`,
`AuthCompare`) and renames over it in a step of its own (`ClaimCommit`,
`AuthRecord`).  Disturbances are actions: a restored active record (`rewind`), a
torn ledger line (`tear`), an owner who takes a half-claimed record away (`audit`,
while no invocation holds the lock), edits of artifacts, profiles, policy and
HEAD.  A hash is the content it is the hash of.

`tail` is a torn line at the end of `claims.log`.  It has no newline, so the next
append is glued to it (`Glued`): the parser takes the last value of a key, so the
new operation, target and hash count unless the tear is inside a key, but
`experiment_id` comes first in a line and fuses with what was torn.

What the model shows and the properties do not forbid:

* a glued line goes under the torn claim's id, or under none, so the ledger may
  have no line with the id of a printed command, although
  `notes/bringup-claims/README.md` speaks of one line for each consumed receipt;
* an edit of `policy.json` that the owner makes after the last comparison
  (`bringup_loop.py` 543-550) and before the rename (553) is overwritten.

### D110Session
Script and Python helper as one process, since the script waits for each call.
The lock is the set of processes that hold its descriptor, running boot actions
of killed scripts included.  Grants are bound to helper, boot and tool; receipts
are linked and unlinked in two steps.  Assumed: a monotone clock, at most one
second between the margin check and the exec, and a punctual `timeout(1)`.
`timeout(1)` takes zero seconds for no limit at all, so `Timeout` has at least
one, and that `TypeOK` holds says that it is never given less.

### D114Deploy
`pc` is the Python run, `hpc` its helper, and either dies at any step.  The
journal of a claim goes from initial to transition or terminal, or is malformed
by a torn write.  The flash boundary is step by step: CreateProcess suspended,
transition record and flush, second window check with ResumeThread; a failed
write or flush leaves no record, part of one or all of it.  Assumed: one
clock for both sides, the second window check and ResumeThread taken together, a
job that ends fastboot when the helper dies, a punctual write timeout, and an
outer timeout longer than the helper's own (1800 s against 120 s and 300 s).

### D114DeployWsl
A file is a record of all that its chain says so far (`preflight` to `report`,
then `token`, `used`, `post`).  `Link` is link(2), visible but not durable;
`Sync` is the fsync of the directory; `PowerLoss` ends every process and loses
any set of links not yet durable.  `Kill` leaves fastboot running, since it has a
session of its own.  The wall clock may be set to any value, the cable may come
and go.  The eleven device queries are one step; names the caller chooses are
part of `Refuse`; deploy-once is its three modes in a row; a publication that ends
a run is durable at once, because losing it then equals never having made it.

### ChildSupervisor, DisplayHandoff, TerminalBridge
Processes of the tree fork, exit and collect their children at any time, also
between the steps of a library call; free PIDs may go to strangers (`Other`).
The list of children is read in one step, their states one by one.  Assumed: a
process that got SIGKILL forks no more; an orphan goes to the launcher or to
the parent of the process that died (a subreaper below the launcher); attempts
are counted, the pauses between them are not timed.  `pc` and `ret`, where main
is and what it returns, belong to the program and are declared with the library,
so that both programs promise the same `CleanExit`.

### OfflineCache
Three slots (`store`, and a calibration's `first` and `replay`), each with the
directory its quarantine's name (`q`) and its published name (`p`) stand for now,
`dir`, and after a loss of power, `durable`.  A run holds its attestation, what it
copied (`recs`) and, from `BindQuarantine` on, a descriptor (`held`); everything
else it does by name, so that between two of its steps the operator may clear the
quarantine (`RemoveQuarantine`), another run may make one of the same name, and
files may be edited.  `Rename` is renameat2 without replacement; `ValidatePublished`,
`ValidateFails` and `Rollback` are what follows it; a run that dies in between
leaves a name nobody has vouched for (`Unsettled`).  Of the package files the
model keeps one of each class the checks treat alike.  The calibration copies
its snapshot, promotes it twice, binds both outputs to it and writes two
candidates and a receipt; `InstallCandidate` is the reviewer who installs them.

A run whose quarantine was cleared goes on writing, by name, into the one made
in its place, so a published tree may have a member its manifest does not list:
`PublishedIsComplete` asks for the recorded ones.  The rename back may be done and
its fsync fail: the run then ends with an error like any run that stops there.
Clearing a quarantine is one step, since the documentation rules out that its
owner changes it meanwhile.

### SealStore
A seal is named by the digest of its manifest, here by the manifest.  `pack`,
`inst`, `adm` and `lau` are the processes.  The checkouts change at any time
(`Edit`, `CommitWork`), so the two derivations of a packer, and its reads of each
member, may see different contents; termination signals, blocked while the file is
made, committed or removed, interrupt it anywhere else.  Store and policy have locks of their
own, and an fsync that fails after a rename has its own path in each program.
The model shows three things worth knowing that the properties do not forbid:
an edit reverted between the two derivations gives a stream whose content is not
that of the commit it names; activation does not hold the store lock, so the
active name may be of a generation whose installer then fails its last fsync and
withdraws it; and a policy change that reports a failed sync is visible
nevertheless.  Errors of unlink in the packer's cleanup are not modelled, and
what a crash leaves under temporary names is read by nothing.  An installer whose
removal of a withdrawn seal fails part-way (1383-1388 go on without a word)
leaves what one killed there leaves.  Runs are pruned in the order they were made;
the launcher goes by the directories' times.

### SealedBuild
One process, since a build runs alone, against everything it cannot lock: inputs
edited before they are copied, files changed inside the chroots or the export
directory, external commands that fail.  A file's `serial` stands for its bytes,
its `mark` for its identity (inode and times).  A change from outside leaves a
fresh mark; it may bring fresh bytes (`Altered`) or those the build made or
inspected (`Restored`).  The last comparison with the report (`BindToReport`)
goes by digests alone, so a file may be changed, hashed into `build.log`, and
restored: the result is then returned with a log that names other bytes.
`ReturnedIsInspected` says just that: what is returned is what was inspected, and
the log is right about every file whose mark is still the report's.

`Required` images are read, judged and compared; `Optional` ones (`dtbo` stands
for them all) are listed, frozen and returned without a look inside.  Reading,
judging, writing notes and freezing are separate steps, in the code's order, and
`CleanUp` is the exit path of each.  Staging the finalizer copies many files and
may break off: its directory is then there and nobody knows of it (`finalizer` is
`unknown`), since `build.py` 4714 has not assigned it when 5011 looks.  Removing
the directory may fail too (`stuck`).  `LeavesNothingMounted` lets both be left by
a build that fails, never by one that returns.

Files are taken to be unwritten once they are 0444, the candidate's copies to be
private, and `export --no-install` to mount nothing.  A text note changed by hand
between its writing and its freezing would be recorded by the manifest as it is
(only the images are compared with the report); such edits are not actions, so
`NotesDescribeImage` is about the build's own order.  A build that is killed
leaves its chroots up; kills are not modelled.

## 3. Runs

All passing runs finish within five minutes with two workers.  A property that
has two parts is their conjunction: `ActionAlone` is one boot action at a time and
no revocation under it, `WithinDeadlines` receipt and session, `WriteInTime` the
approved window and quiet after the timeout, `WritesLoseNothing` the policy and
the active record, `NothingLeft` shell and terminal modes, `SignalsServed` stop
and resize.

| Run | Instance | Checks |
|---|---|---|
| `claims` | 2 processes, 2 experiments, 2 profile texts, restores, torn lines, audits, edits | `AtMostOneIssue`, `ClaimsOnRecord`, `RepeatIsGuarded`, `IssuedAsAuthorized`, `PartialClaimIsFinal`, `WritesLoseNothing` |
| `liveness` | 2 processes, 1 experiment, all commands, no disturbances | `InvocationsEnd` |
| `new_evidence` | 1 process, 3 experiments | violates `RepeatBringsNewEvidence` |
| `sessions` | 2 runs, 1 thread, 2 helpers, tools, receipts and boots, 3 time steps | `ActionAlone`, `OneActionPerReceipt`, `BoundToGrant`, `WithinDeadlines`, `LockComesFree` |
| `deploy` | 2 runs and helpers, 1 claim, 2 time steps | `RefusedMeansUntouched`, `WriteInTime`, `TicketSpec`, `DeviceComesFree` |
| `deploy_wsl` | 2 runs, 1 profile, 1 token, 2 plugs, 1 change of the clock | `WriteOnRecord`, `PassMeansReplug`, `OneReportPerToken`, `LedgerTicketSpec` |
| `handoff` | anchor and 2 more PIDs, 1+2 attempts | `OnlyOwnSignalled`, `DrainedMeansEmpty`, `CleanExit`, `StopsInTime` |
| `bridge` | anchor and 2 more PIDs, 1 resize, 1 chunk | `NothingLeft`, `SignalsServed` |
| `bridge_output` | anchor and 1 more PID | violates `OutputDelivered` |
| `cache_promotion` | 2 promotions, or one and a calibration; 5 directories, 1 edit, 2 removals, 1 fault | `PublishedIsComplete`, `SuccessIsAttested`, `ReceiptIsReproduced`, `PublishOnceSpec` |
| `seal_store` | every pair of programs that meet; 3 installed seals, 4 foreign streams, 1 run kept, 2 edits, 1 fault | `PublishedInstalls`, `InterruptLeavesNothing`, `RunsKept`, `ActiveMovesAsAsked`, `StorePublishOnce` |
| `sealed_build` | 2 cache members, 4 package sets, 2 edits, 2 changes, 2 failures | `CopiesArePinned`, `ReturnedIsInspected`, `NotesDescribeImage`, `NothingUnlisted`, `LeavesNothingMounted` |

**What the constraints leave out.**  Three runs join questions that need
different disturbances, and a CONSTRAINT keeps them from multiplying.  `claims`
(`Stages`): edits of the tree and the owner's authorisation happen around the
first experiment; repeats, archives, restores and torn lines in the tree as
committed; an audit is followed up where it is of a claim that tore the ledger.
`sessions` (`MeetUndisturbed`): two invocations meet in the first
second with nothing replaced; replacements and later time are for one of them
with one receipt.  `deploy` (`OneInvocationInTime`): the clock runs only while one
invocation does.  The theorems of section 5 have no such constraint.

**Why the bounds are enough to meet the hazards.**  Races are between two
invocations, so two processes reach every one of them; a killed run and a later
one are two as well.  Two experiments are needed for a repeat, three for a
repeat of a repeat.  Two helpers, tools and boots give every mismatch of a
binding.  The clock runs past the longest deadline of each instance.  In
`deploy_wsl` the second plug is the replug; one change of the clock makes every
file stale or future-dated.  Three PIDs are an anchor, its child and a
grandchild or stranger.  In `cache_promotion` two removals let a quarantine be
cleared, made again by another run and cleared once more, and five directories
are never used up at once by two runs and their published trees.  In
`seal_store` two edits are an edit and its reversal, or one before each
derivation; two installed seals of one generation and an older schema give every
refusal of the policy.  In `sealed_build` two changes are one that a check sees
and one after it; two failures are a command and the cleanup after it.

**Deadlock** is checked everywhere but in the display, cache, seal and build
runs, whose programs end.

**Fairness.**  Governance: an invocation that can step does (`WF`), and a waiter
for the lock gets it if it is free again and again (`SF`, flock with finitely
many waiters); nothing is assumed of an owner at the prompt, of edits or
crashes.  D110: the script steps on or stops, and a boot
action ends because `timeout(1)` ends it.  D114 from Windows: time passes and the
helper steps; nothing is assumed of fastboot, which is why `DeviceComesFree`
depends on the timeout.  Display: the launcher or bridge steps; nothing is
assumed of supervised processes, which may ignore signals and fork for ever.
The P1 models state no fairness: their programs promise what they leave behind
whenever they stop, not that they get to an end.

## 4. Findings

* `new_evidence`: the refusal text of `_check_repeat_guard` demands "new
  evidence" for a repeat, but nothing compares the cited report with the ones
  cited before: two repeats are claimed on one report.
* `bridge_output`: the bridge ends as soon as it sees that the shell has exited,
  without reading what is still in the PTY; the native test expects that output
  and sees the echo of its own input.

## 5. Theorems

Checked by TLAPS for every number of processes, claims, ledgers, PIDs,
directories, seals and edits, and every value of the bounds.  Assumptions are
the named ASSUMEs of the modules: constants that are natural numbers are, and
`None` is no member of the set it is added to.  Two theorems need one thing more
and say so: `LauncherCountsDown` and `BridgeCountsDown` assume that there are
finitely many PIDs, without which a drain's list of children has no end.

| Module | Theorems (property) | Inductive invariant |
|---|---|---|
| `GovernanceProofs` | `TypeCorrect`, `NeverReissued` (`AtMostOneIssue`), `PartialClaimStops` (`PartialClaimIsFinal`), `AuditTrail` (`ClaimsOnRecord`), `EvidenceKept` (`EvidenceAppendOnly`), `WritesAuthorized` (`IssuedAsAuthorized`), `RepeatsAreGuarded` (`RepeatIsGuarded`), `NothingLost` (`WritesLoseNothing`), `InvocationsCountDown` | `TypeInv` adds what each step's locals hold; `OwnOK`: a process past its guard owns that guard; `RecordInv`: what a process or a file says of a claim is backed by guard and ledger, for which `TornOK` and `LinesOK` say that a torn tail is of a claim that stopped and that no line puts another action under a live id; `LockedInv`: the lock holder's record fits the active one and its request the policy, or (`LateInv`) the owner has edited the policy since it was compared; `AuthorityInv`: every policy in memory or on disk lists only what was confirmed; `RepeatInv`: of two clashing claims past their checks one cites; `OwnerInv`: the lock's owner is at a step of its own command that ends in giving it back |
| `D110SessionProofs` | `TypeCorrect`, `OneBoot`, `GrantOutlivesAction`, `DeadlineKept`, `ActionKeepsGate` (`ActionAlone`), `ReceiptUsedOnce` (`OneActionPerReceipt`), `GrantCoversAction` (`BoundToGrant`), `DeadlinesHold` (`WithinDeadlines`), `GateComesFree` | `LockInv`: a script in its critical part and a running action hold the lock, and there is one holder; `AttemptInv`: what the run in progress knows of its receipt and grant still holds, since nobody else has the lock; `NoneLeaked`: no descriptor outlives its process |
| `D114DeployProofs` | `TypeCorrect`, `OneAtTheHandset` (`OneDeviceUser`), `RefusalHolds` (`RefusedMeansUntouched`), `FlashOnRecord` (`FlashIsJournalled`), `WritingKeepsTime` (`WriteInTime`), `KeepsTheTicket` (`TicketSpec`), `ReportsNeverContradict`, `DeviceCountsDown` | `LockInv`, and `ClaimInv`: a claim has one owner after its marker, and its journal, flash count and reports agree; `TimeInv`: a claim is issued before its launch, a flash runs in its window and its timeout, and a claim given up on is past both; `HolderInv`: who has the device lock is still to close it |
| `D114DeployWslProofs` | `TypeCorrect`, `WriteKnown` (`WriteOnRecord`), `PassIsReplug` (`PassMeansReplug`), `TokenSpentOnce` (`OneReportPerToken`), `KeepsTheLedgerTicket` (`LedgerTicketSpec`), `WritesOnce` | `LedgerInv`: who is past its attempt is the only one for its ledger and has its chain on the disk; `ReplugInv`: what a file says of write and cable stays true; `TokenInv`; `LostInv`: only keyed files can be lost |
| `SupervisorProofs`, the handoff (instance `Handoff`) | `TypeCorrect`, `NoStrangerSignalled` (`OnlyOwnSignalled`), `DrainIsComplete` (`DrainedMeansEmpty`), `ReapNeverRefused` (`ReapIsReady`), `NothingLeftBehind` (`CleanExit`), `LauncherCountsDown` | `LibInv`, of the library alone: `TreeInv`, parents of live processes live and there are no cycles; `SnapshotInv`, a listed child is still a child; `DrainInv`, what each test of a drain has settled.  `HandoffInv` adds where main is and what it knows of the anchor |
| `SupervisorProofs`, the bridge | `TerminalLeftClean` (`NothingLeft`), `BridgeTypeCorrect`, `BridgeSignalsItsOwn` (`OnlyOwnSignalled`), `BridgeDrainIsComplete` (`DrainedMeansEmpty`), `BridgeCountsDown`, `ResizeRemembered` | `LibInv` again, and `BridgeInv`: which call is under way at each place of main and the loop, where the terminal has its own settings, and that an ending with a promise has an empty tree behind it |
| `OfflineCacheProofs` | `PublishedWhole` (`PublishedIsComplete`), `SuccessAsAttested` (`SuccessIsAttested`), `ReceiptBacked` (`ReceiptIsReproduced`), `CachesArePublishedOnce` (`PublishOnceSpec`), `VouchedStaysPublished` | `NamesInv`: a directory is of one slot, a durable name is current, one run per slot is between rename and checks; `HeldInv`: what was read back stays whole; `SettledInv`: a name nobody is undecided about is vouched for; `CleanInv`, `CopiedInv`: only indexed packages are attested or copied; `CandidateInv`: candidates stand beside two such promotions |
| `SealStoreProofs` | `StreamInstalls` (`PublishedInstalls`), `RefusedPackerIsGone` (`InterruptLeavesNothing`), `PolicyMovesAsAsked` (`ActiveMovesAsAsked`), `OwnRunKept` (`RunsKept`), `SealsArePublishedOnce` (`StorePublishOnce`), `KeptStaysPublished` | `PackInv`: a packer's locals describe the file it owns; `PolicyInv`: what an administrator compared still holds; `RunsInv`: a builder's run directory is the newest; `InstallInv`: one installer has the lock, what was reported stays whole |
| `SealedBuildProofs` | `ChrootsComeDown` (`LeavesNothingMounted`), `WorksOnPinnedCopies` (`CopiesArePinned`), `InspectedIsReturned` (`ReturnedIsInspected`), `NotesAreTrue` (`NotesDescribeImage`), `ListingIsComplete` (`NothingUnlisted`) | `MountInv`, `CopyInv`, `ShapeInv` (no mark or serial is from the future) and `FactInv`: what each phase established of images, report and notes still holds or a later check will see that it does not |

The argument is the same each time: the initial states satisfy the invariant,
each action preserves it (one lemma per kind of step, and general lemmas for
what a step leaves alone), and it implies the property.  In the cache the
weight is on two lemmas: `WholeStays`, that no step takes a recorded member from
a directory in use, and `VouchedStays`, that a name vouched for keeps
standing for it, which needs `NamesInv` since every other run writes by name.

Four theorems are refinements.  The two D114 ones map each step to one of
`WriteTicket` or to none; in the WSL one a loss of power may spend several
tickets at once, which is why `Spend` takes a set.  The two P1 ones map to
`PublishOnce`: a rename is `Appear`, a check or sync that passes is `Settle`, a
rollback, removal or withdrawal is `Retract`, a loss of power is `Lose`, and
everything else, every edit and kill included, is no step at all.

Four more theorems read these refinements backwards: they prove an invariant or
action property of the abstract specification, a page of it, and carry it to the
program.  `ReportsNeverContradict`: the reports of one claim agree, whoever wrote
them and in whatever order.  `WritesOnce`: one write for each pair of ledgers,
and no durable report of more.  `VouchedStaysPublished` and
`KeptStaysPublished`: what was vouched for is never replaced, withdrawn or
changed.  None of them looks at a step of the program.

**Two programs, one library.**  `SupervisorProofs` proves `LibInv` for every
launcher that makes the library's calls, and a bound `CallLeft` on the steps a
call can still take, whatever the tree does meanwhile.  Handoff and bridge are
then proved from what a call promises.  The bridge's weight is on its three
drains: the one of escaped children spares the shell, the other two end the whole
tree, one of them before the terminal was touched, and a failure anywhere still
has to put the terminal back.

**Countdowns.**  A liveness property has two halves: something that only goes
down, and somebody who goes on.  The first half is safety and is proved for every
instance, each time as a natural number that every step of the program lowers
and that no step of anyone else raises:

* `InvocationsCountDown` (of `InvocationsEnd`): steps left to an invocation, at
  most eleven; who owns the lock is at a step of its own that waits for nobody.
* `GateComesFree` (of `LockComesFree`): steps until the holders have closed the
  lock, at most 13 each; it is open exactly while somebody is still to do so.
* `DeviceCountsDown` (of `DeviceComesFree`): steps of the helper and seconds of
  a fastboot that hangs, at most `9 + WriteTimeout`.
* `LauncherCountsDown` (of `StopsInTime`) and `BridgeCountsDown` (of
  `SignalsServed`): steps of launcher or bridge, from the bound on a call; only
  going round the loop with no stop requested raises it.
* `ResizeRemembered` (of `SignalsServed`): a change of the window that the PTY
  has not been told is flagged or about to be copied.

The other half, that the program is scheduled and that its next step is enabled,
stays with TLC.

**Only model-checked:** the liveness properties `InvocationsEnd`,
`LockComesFree`, `DeviceComesFree`, `StopsInTime` and `SignalsServed`
themselves, since the prover does neither fairness nor ENABLED.  Every safety
property and refinement that a passing run checks is also a theorem.  Type
correctness is no property of a run: the theorems `TypeCorrect` and
`BridgeTypeCorrect`, and the invariants of the P1 proofs, say it for every
instance.

## 6. Not modelled

Everything in the last table of section 1: it is pure input and output,
sequential shell, a stateless comparison or parser, or device code that the
plan has not reached.  Within the modelled programs: the contents of profiles,
policies, images and device answers (a validator is one predicate, of which
`map` names the function or its call; it passes or ends the run),
wording, formats and hashes, read-only modes, file permissions and ownership
checks, which end a run before it changes anything.

One hazard seen in the code is watched by no property: `lmi-display.initd` lets
OpenRC send SIGKILL five seconds after SIGTERM, and attempts are counted in the
display models, not timed, so they cannot tell whether the handoff's graceful
phase is over by then.

## 7. Plan

1. **D114 injection, launcher and assembly**: mounts, loop devices and their
   release on every exit path; then the postwrite check from Windows, composed
   with `D114DeployWsl`'s tokens.
2. **Device lifecycle**: account and configuration scripts, ADSP start, Weston
   transient supervisor, the CLI installer: repeatable after a crash at any line,
   with `PublishOnce` or a variant that replaces as the abstract specification.
3. **On-screen keyboard and session launcher**: modifier, layer and grab state
   as small machines, with reference definitions for the layout tables.
4. **Composition of the P1 stages**: a launcher's build as `SealedBuild`, its
   cache as `OfflineCache`'s published slot.
5. **Proofs**: of the parts above, with item 4 first: that a build which starts
   on a cache vouched for ends on the same one follows from
   `VouchedStaysPublished` and `CopiesArePinned` once the two are composed.
