----------------------------- MODULE SealStore -----------------------------
(***************************************************************************)
(* Sealed inputs of a production build, from the developer's checkouts to  *)
(* the returned result:                                                    *)
(*   - the packer writes one stream file from the checkouts and publishes  *)
(*     it without replacing anything (scripts/lmi_p1_seal_pack.py);        *)
(*   - the installer, as root, turns a stream file into one inactive       *)
(*     generation of the store (scripts/lmi_p1_seal_installer.py);         *)
(*   - the policy administrator names the active generation, by            *)
(*     compare-and-swap (scripts/lmi_p1/seal.py);                          *)
(*   - the launcher, as root, starts the build of the active generation in *)
(*     a run directory of its own (scripts/lmi_p1_root_launcher.py), and   *)
(*     the sealed entry point of scripts/lmi_p1_cli.py looks again before  *)
(*     the build and before its result is returned.                        *)
(*                                                                         *)
(* A seal is named by the digest of its manifest, so the model names it by *)
(* the manifest: the content of the checkouts, the commit they are said to *)
(* be at, the generation and whether its schema is the current one.        *)
(***************************************************************************)
EXTENDS Naturals, Sequences

CONSTANTS
    Content,        \* states of the checkouts
    Sound,          \* those whose source lock, cache and signer keys agree
    Packer, Installer, Admin, Launcher,     \* processes
    Crews,          \* the sets of processes that are ever started together
    PackGen,        \* the generation each packer is told to use
    Stray,          \* stream files that came from elsewhere
    Installed0,     \* the seals of the store at the start
    Output,         \* the name the packers publish under
    Retain,         \* the run directories kept
    None,
    MaxEdits,       \* bound: changes to the checkouts
    MaxFaults       \* bound: failed fsyncs, killed processes, power failures

Gen == 1 .. 9
Manifest == [content : Content, commit : Content, gen : Gen, current : BOOLEAN]
Stream == [man : Manifest, body : Content \union {None}]

ASSUME SealStoreAssumption ==
    /\ Sound \subseteq Content /\ None \notin Content
    /\ PackGen \in [Packer -> Gen]
    /\ Stray \subseteq Stream /\ Installed0 \subseteq Manifest
    /\ \A p \in Installed0 : p.content \in Sound
    /\ Retain \in Nat \ {0} /\ {MaxEdits, MaxFaults} \subseteq Nat

VARIABLES
    work,       \* the checkouts: their content and the commit they are at
    out,        \* the published stream file, or None
    whole,      \* seals of the store that are complete
    partial,    \* seals of the store that are being removed
    reported,   \* seals whose installer returned their name
    active,     \* the seal the active-policy file names, or None
    durable,    \* the value of active that a power failure cannot take back
    runs,       \* the owners of the run directories, oldest first
    pack, inst, adm, lau,       \* the processes
    edits, faults

vars == <<work, out, whole, partial, reported, active, durable, runs,
          pack, inst, adm, lau, edits, faults>>
store == <<whole, partial, reported>>
policy == <<active, durable>>

-----------------------------------------------------------------------------
(* What the validators accept.                                             *)

\* Every repository is at one commit, with index and checkout equal to it, and
\* the commits, entry point and version are those of the source lock.
Clean == work.content = work.commit

\* The checkouts' cache has exactly the members its manifest describes.
CacheVerified(content) == content \in Sound

\* The packages of the cache are signed by keys of the pinned checkouts.
SignerTrusted(content) == content \in Sound

\* The source lock names the checkouts' commits and digests.
SourceLockBinds(content) == content \in Sound

\* A manifest's members are one canonical, safe and complete layout.
ManifestWellFormed(m) == m.gen \in Gen

\* The installer reads the cache manifest from the stream and checks it
\* against the members around it.
OfflineContract(content) == CacheVerified(content) /\ SignerTrusted(content)

\* The installer's and the packer's schema.
CurrentSchema(m) == m.current

\* The directory named by p holds exactly the members its manifest lists, and
\* they satisfy the contracts again; the older schema is still accepted.
VerifySeal(p) ==
    /\ p \in whole
    /\ ManifestWellFormed(p)
    /\ OfflineContract(p.content) /\ SourceLockBinds(p.content)

\* The launcher has its own copy of the same checks.
VerifySealStandalone(p) ==
    /\ p \in whole
    /\ ManifestWellFormed(p)
    /\ OfflineContract(p.content) /\ SourceLockBinds(p.content)

-----------------------------------------------------------------------------
(* The packer.                                                             *)

PackIdle == [pc |-> "start", man |-> None, body |-> None, temp |-> FALSE]

\* The stream name must be free before anything else is done.
Preflight(k) ==
    /\ pack[k].pc = "start"
    /\ pack' = [pack EXCEPT ![k].pc = IF out = None THEN "derive" ELSE "refused"]
    /\ UNCHANGED <<work, out, store, policy, runs, inst, adm, lau, edits, faults>>

\* The provenance is derived from checkouts that match their commits.
Derive(k) ==
    /\ pack[k].pc = "derive"
    /\ pack' = [pack EXCEPT ![k] =
                 IF Clean
                   THEN [@ EXCEPT !.pc = "create", !.man =
                           [content |-> work.content, commit |-> work.commit,
                            gen |-> PackGen[k], current |-> TRUE]]
                   ELSE [@ EXCEPT !.pc = "refused"]]
    /\ UNCHANGED <<work, out, store, policy, runs, inst, adm, lau, edits, faults>>

\* The private file is made with termination signals blocked, and they are
\* let through once the cleanup knows its inode.
CreateTemporary(k) ==
    /\ pack[k].pc = "create"
    /\ pack' = [pack EXCEPT ![k] =
                 IF out = None THEN [@ EXCEPT !.pc = "inventory", !.temp = TRUE]
                               ELSE [@ EXCEPT !.pc = "refused"]]
    /\ UNCHANGED <<work, out, store, policy, runs, inst, adm, lau, edits, faults>>

\* Every member is hashed into the manifest, whose contracts must hold.
WriteManifest(k) ==
    /\ pack[k].pc = "inventory"
    /\ LET c == work.content
       IN  pack' = [pack EXCEPT ![k] =
             IF CacheVerified(c) /\ SignerTrusted(c) /\ SourceLockBinds(c)
               THEN [@ EXCEPT !.pc = "members", !.man.content = c]
               ELSE [@ EXCEPT !.pc = "cleanup"]]
    /\ UNCHANGED <<work, out, store, policy, runs, inst, adm, lau, edits, faults>>

\* Every member is read again into the stream and must still have the digest
\* the manifest records.
\* Mutant: the second read is not compared with the first.
WriteMembersUnchecked(k) ==
    /\ pack[k].pc = "members"
    /\ pack' = [pack EXCEPT ![k].body = work.content, ![k].pc = "rederive"]
    /\ UNCHANGED <<work, out, store, policy, runs, inst, adm, lau, edits, faults>>
WriteMembers(k) ==
    /\ pack[k].pc = "members"
    /\ pack' = [pack EXCEPT ![k].body = work.content, ![k].pc =
                 IF work.content = pack[k].man.content THEN "rederive" ELSE "cleanup"]
    /\ UNCHANGED <<work, out, store, policy, runs, inst, adm, lau, edits, faults>>

\* The provenance must come out the same again.
Rederive(k) ==
    /\ pack[k].pc = "rederive"
    /\ pack' = [pack EXCEPT ![k].pc =
                 IF Clean /\ work.commit = pack[k].man.commit THEN "rename" ELSE "cleanup"]
    /\ UNCHANGED <<work, out, store, policy, runs, inst, adm, lau, edits, faults>>

\* The synced file takes the output name unless something has it.
RenameNoReplace(k) ==
    /\ pack[k].pc = "rename"
    /\ IF out = None
         THEN /\ out' = [owner |-> k, man |-> pack[k].man, body |-> pack[k].body,
                         kept |-> FALSE]
              /\ pack' = [pack EXCEPT ![k].pc = "commit", ![k].temp = FALSE]
         ELSE /\ pack' = [pack EXCEPT ![k].pc = "cleanup"]
              /\ UNCHANGED out
    /\ UNCHANGED <<work, store, policy, runs, inst, adm, lau, edits, faults>>

\* The directory is synced, the output is still this packer's file, and the
\* termination signals are blocked again: from here the output stays.
Commit(k) ==
    /\ pack[k].pc = "commit"
    /\ IF out # None /\ out.owner = k
         THEN /\ out' = [out EXCEPT !.kept = TRUE]
              /\ pack' = [pack EXCEPT ![k] = [PackIdle EXCEPT !.pc = "done"]]
         ELSE /\ pack' = [pack EXCEPT ![k].pc = "cleanup"]
              /\ UNCHANGED out
    /\ UNCHANGED <<work, store, policy, runs, inst, adm, lau, edits, faults>>

Interruptible == {"inventory", "members", "rederive", "rename", "commit"}

\* A termination signal, or a failing call, inside the boundary.
Interrupt(k) ==
    /\ pack[k].pc \in Interruptible
    /\ pack' = [pack EXCEPT ![k].pc = "cleanup"]
    /\ UNCHANGED <<work, out, store, policy, runs, inst, adm, lau, edits, faults>>

\* With signals blocked, whatever this packer made is unlinked under either
\* name.
\* Mutant: only the private name is unlinked.
UnlinkTemporaryOnly(k) ==
    /\ pack[k].pc = "cleanup"
    /\ pack' = [pack EXCEPT ![k] = [PackIdle EXCEPT !.pc = "refused"]]
    /\ UNCHANGED <<work, out, store, policy, runs, inst, adm, lau, edits, faults>>
UnlinkOurs(k) ==
    /\ pack[k].pc = "cleanup"
    /\ out' = IF out # None /\ out.owner = k THEN None ELSE out
    /\ pack' = [pack EXCEPT ![k] = [PackIdle EXCEPT !.pc = "refused"]]
    /\ UNCHANGED <<work, store, policy, runs, inst, adm, lau, edits, faults>>

-----------------------------------------------------------------------------
(* The installer.                                                          *)

InstIdle == [pc |-> "start", file |-> None, owner |-> None]

\* Standard input is a stream file: the published one, or one from elsewhere.
OpenInput(i) ==
    /\ inst[i].pc = "start"
    /\ \/ \E s \in Stray :
            inst' = [inst EXCEPT ![i] = [pc |-> "lock", file |-> s, owner |-> None]]
       \/ /\ out # None
          /\ inst' = [inst EXCEPT ![i] =
                [pc |-> "lock", file |-> [man |-> out.man, body |-> out.body],
                 owner |-> out.owner]]
    /\ UNCHANGED <<work, out, store, policy, runs, pack, adm, lau, edits, faults>>

HoldsStore(i) == inst[i].pc \in {"manifest", "fill", "publish", "sync", "withdraw", "remove"}

InstallerEnds(i, how) == [inst EXCEPT ![i] = [InstIdle EXCEPT !.pc = how]]

\* One installation at a time: the lock is tried, not waited for.
LockStore(i) ==
    /\ inst[i].pc = "lock"
    /\ inst' = IF \E j \in Installer \ {i} : HoldsStore(j)
                 THEN InstallerEnds(i, "refused")
                 ELSE [inst EXCEPT ![i].pc = "manifest"]
    /\ UNCHANGED <<work, out, store, policy, runs, pack, adm, lau, edits, faults>>

\* The manifest is read and its name must not exist in the store, in
\* whatever state.
ReadManifest(i) ==
    /\ inst[i].pc = "manifest"
    /\ LET m == inst[i].file.man
       IN  inst' = IF /\ CurrentSchema(m) /\ ManifestWellFormed(m)
                      /\ m \notin whole \union partial
                     THEN [inst EXCEPT ![i].pc = "fill"]
                     ELSE InstallerEnds(i, "refused")
    /\ UNCHANGED <<work, out, store, policy, runs, pack, adm, lau, edits, faults>>

\* Every member must have its digest and nothing may follow; the contracts
\* are checked; the manifest is written last and all of it read back and
\* synced.  This happens in a private directory, which a failure removes.
FillIncoming(i) ==
    /\ inst[i].pc = "fill"
    /\ LET f == inst[i].file
       IN  inst' = IF /\ f.body = f.man.content
                      /\ SourceLockBinds(f.man.content) /\ OfflineContract(f.man.content)
                     THEN [inst EXCEPT ![i].pc = "publish"]
                     ELSE InstallerEnds(i, "refused")
    /\ UNCHANGED <<work, out, store, policy, runs, pack, adm, lau, edits, faults>>

\* The input file must be the file that was opened, still under one name, and
\* the private directory becomes the generation.
PublishSeal(i) ==
    /\ inst[i].pc = "publish"
    /\ IF inst[i].owner = None \/ (out # None /\ out.owner = inst[i].owner)
         THEN /\ whole' = whole \union {inst[i].file.man}
              /\ inst' = [inst EXCEPT ![i].pc = "sync"]
         ELSE /\ inst' = InstallerEnds(i, "refused")
              /\ UNCHANGED whole
    /\ UNCHANGED <<work, out, partial, reported, policy, runs, pack, adm, lau, edits, faults>>

\* Only a synced store makes the generation count as installed.
SyncStore(i) ==
    /\ inst[i].pc = "sync"
    /\ reported' = reported \union {inst[i].file.man}
    /\ inst' = InstallerEnds(i, "done")
    /\ UNCHANGED <<work, out, whole, partial, policy, runs, pack, adm, lau, edits, faults>>

\* Mutant: the name is returned before the store is synced, and taken back
\* when that fails.
SyncStoreLateFails(i) ==
    /\ inst[i].pc = "sync" /\ faults < MaxFaults
    /\ faults' = faults + 1
    /\ reported' = reported \union {inst[i].file.man}
    /\ inst' = [inst EXCEPT ![i].pc = "withdraw"]
    /\ UNCHANGED <<work, out, whole, partial, policy, runs, pack, adm, lau, edits>>
SyncStoreFails(i) ==
    /\ inst[i].pc = "sync" /\ faults < MaxFaults
    /\ faults' = faults + 1
    /\ inst' = [inst EXCEPT ![i].pc = "withdraw"]
    /\ UNCHANGED <<work, out, store, policy, runs, pack, adm, lau, edits>>

\* A generation that did not count is removed member by member.
Withdraw(i) ==
    /\ inst[i].pc = "withdraw"
    /\ whole' = whole \ {inst[i].file.man}
    /\ partial' = partial \union {inst[i].file.man}
    /\ inst' = [inst EXCEPT ![i].pc = "remove"]
    /\ UNCHANGED <<work, out, reported, policy, runs, pack, adm, lau, edits, faults>>

RemoveTree(i) ==
    /\ inst[i].pc = "remove"
    /\ partial' = partial \ {inst[i].file.man}
    /\ inst' = InstallerEnds(i, "refused")
    /\ UNCHANGED <<work, out, whole, reported, policy, runs, pack, adm, lau, edits, faults>>

-----------------------------------------------------------------------------
(* The policy administrator.                                               *)

Operation == {"activate", "rollback"}
AdmIdle == [pc |-> "start", op |-> None, target |-> None, expect |-> None]
HoldsPolicy(a) == adm[a].pc \in {"target", "compare", "swap", "sync"}
AdminEnds(a, how) == [adm EXCEPT ![a] = [AdmIdle EXCEPT !.pc = how]]

\* The command names the target and the policy believed to be active; a
\* rollback has to name one.
Command(a) ==
    /\ adm[a].pc = "start"
    /\ \E op \in Operation, t \in whole \union partial,
         e \in whole \union {None} :
            /\ op = "rollback" => e # None
            /\ adm' = [adm EXCEPT ![a] =
                         [pc |-> "lock", op |-> op, target |-> t, expect |-> e]]
    /\ UNCHANGED <<work, out, store, policy, runs, pack, inst, lau, edits, faults>>

\* The lock of the active policy's directory is waited for.
\* Mutant: it is shared.
LockPolicyShared(a) ==
    /\ adm[a].pc = "lock"
    /\ adm' = [adm EXCEPT ![a].pc = "target"]
    /\ UNCHANGED <<work, out, store, policy, runs, pack, inst, lau, edits, faults>>
LockPolicy(a) ==
    /\ adm[a].pc = "lock"
    /\ ~ \E b \in Admin \ {a} : HoldsPolicy(b)
    /\ adm' = [adm EXCEPT ![a].pc = "target"]
    /\ UNCHANGED <<work, out, store, policy, runs, pack, inst, lau, edits, faults>>

VerifyTarget(a) ==
    /\ adm[a].pc = "target"
    /\ adm' = IF /\ VerifySeal(adm[a].target)
                 /\ adm[a].op = "activate" => CurrentSchema(adm[a].target)
                THEN [adm EXCEPT ![a].pc = "compare"]
                ELSE AdminEnds(a, "refused")
    /\ UNCHANGED <<work, out, store, policy, runs, pack, inst, lau, edits, faults>>

\* The active policy is the expected one, and its verified generation is
\* older than the target's, or newer for a rollback.
CompareGenerations(a) ==
    /\ adm[a].pc = "compare"
    /\ LET t == adm[a].target.gen
           fits == IF active = None
                     THEN adm[a].op = "activate"
                     ELSE /\ VerifySeal(active)
                          /\ IF adm[a].op = "activate" THEN active.gen < t
                                                       ELSE t < active.gen
       IN  adm' = IF active = adm[a].expect /\ fits
                    THEN [adm EXCEPT ![a].pc = "swap"]
                    ELSE AdminEnds(a, "refused")
    /\ UNCHANGED <<work, out, store, policy, runs, pack, inst, lau, edits, faults>>

\* A synced temporary file is renamed over the active-policy file.
SwapActive(a) ==
    /\ adm[a].pc = "swap"
    /\ active' = adm[a].target
    /\ adm' = [adm EXCEPT ![a].pc = "sync"]
    /\ UNCHANGED <<work, out, store, durable, runs, pack, inst, lau, edits, faults>>

\* The directory is synced and the file must read back as the target.
SyncPolicy(a) ==
    /\ adm[a].pc = "sync"
    /\ durable' = active
    /\ adm' = AdminEnds(a, IF active = adm[a].target THEN "done" ELSE "refused")
    /\ UNCHANGED <<work, out, store, active, runs, pack, inst, lau, edits, faults>>

\* A failure here is reported, and the new name stays.
SyncPolicyFails(a) ==
    /\ adm[a].pc = "sync" /\ faults < MaxFaults
    /\ faults' = faults + 1
    /\ adm' = AdminEnds(a, "refused")
    /\ UNCHANGED <<work, out, store, policy, runs, pack, inst, lau, edits>>

-----------------------------------------------------------------------------
(* The launcher, and the sealed entry point it becomes.                    *)

LauIdle == [pc |-> "start", want |-> None]
HoldsRuns(l) ==
    lau[l].pc \in {"verify", "prune", "exec", "entry", "build", "gate", "return"}
LauncherEnds(l, how) == [lau EXCEPT ![l] = [LauIdle EXCEPT !.pc = how]]

\* The request must ask for the policy that is active.
ReadRequest(l) ==
    /\ lau[l].pc = "start"
    /\ \E p \in whole : lau' = [lau EXCEPT ![l] = [pc |-> "active", want |-> p]]
    /\ UNCHANGED <<work, out, store, policy, runs, pack, inst, adm, edits, faults>>

ReadActive(l) ==
    /\ lau[l].pc = "active"
    /\ lau' = IF active = lau[l].want THEN [lau EXCEPT ![l].pc = "lock"]
                                     ELSE LauncherEnds(l, "refused")
    /\ UNCHANGED <<work, out, store, policy, runs, pack, inst, adm, edits, faults>>

\* One sealed build at a time; the build inherits the lock.
\* Mutant: the descriptor is closed by execve.
LockRunsClosed(l) ==
    /\ lau[l].pc = "lock"
    /\ lau' = IF \E m \in Launcher \ {l} : lau[m].pc \in {"verify", "prune", "exec"}
                THEN LauncherEnds(l, "refused")
                ELSE [lau EXCEPT ![l].pc = "verify"]
    /\ UNCHANGED <<work, out, store, policy, runs, pack, inst, adm, edits, faults>>
LockRuns(l) ==
    /\ lau[l].pc = "lock"
    /\ lau' = IF \E m \in Launcher \ {l} : HoldsRuns(m)
                THEN LauncherEnds(l, "refused")
                ELSE [lau EXCEPT ![l].pc = "verify"]
    /\ UNCHANGED <<work, out, store, policy, runs, pack, inst, adm, edits, faults>>

VerifyActive(l) ==
    /\ lau[l].pc = "verify"
    /\ lau' = IF VerifySealStandalone(lau[l].want) THEN [lau EXCEPT ![l].pc = "prune"]
                                                   ELSE LauncherEnds(l, "refused")
    /\ UNCHANGED <<work, out, store, policy, runs, pack, inst, adm, edits, faults>>

\* The run directories after the removal of one of them.
RemoveRun(n) == runs' = SubSeq(runs, 1, n - 1) \o SubSeq(runs, n + 1, Len(runs))

\* All but the newest Retain - 1 run directories are removed, one by one from
\* the newest of them on.
PruneRun(l) ==
    /\ lau[l].pc = "prune" /\ Len(runs) >= Retain
    /\ RemoveRun(Len(runs) - Retain + 1)
    /\ UNCHANGED <<work, out, store, policy, pack, inst, adm, lau, edits, faults>>

\* A run tree that cannot be walked safely stops the launch.
PruneRefuses(l) ==
    /\ lau[l].pc = "prune" /\ Len(runs) >= Retain /\ faults < MaxFaults
    /\ faults' = faults + 1
    /\ lau' = LauncherEnds(l, "refused")
    /\ UNCHANGED <<work, out, store, policy, runs, pack, inst, adm, edits>>

CreateRun(l) ==
    /\ lau[l].pc = "prune" /\ Len(runs) < Retain
    /\ runs' = Append(runs, l)
    /\ lau' = [lau EXCEPT ![l].pc = "exec"]
    /\ UNCHANGED <<work, out, store, policy, pack, inst, adm, edits, faults>>

\* The request is written into the run, and the process becomes the build.
Exec(l) ==
    /\ lau[l].pc = "exec"
    /\ lau' = [lau EXCEPT ![l].pc = "entry"]
    /\ UNCHANGED <<work, out, store, policy, runs, pack, inst, adm, edits, faults>>

\* When that fails, the run directory is removed again.
ExecFails(l) ==
    /\ lau[l].pc = "exec" /\ faults < MaxFaults
    /\ faults' = faults + 1
    /\ \E n \in DOMAIN runs : runs[n] = l /\ RemoveRun(n)
    /\ lau' = LauncherEnds(l, "refused")
    /\ UNCHANGED <<work, out, store, policy, pack, inst, adm, edits>>

\* The entry point reads the request back from its run directory, and looks
\* again at the active policy and at the seal it is executing from.
EnterBuild(l) ==
    /\ lau[l].pc = "entry"
    /\ lau' = IF active = lau[l].want /\ VerifySeal(lau[l].want)
                THEN [lau EXCEPT ![l].pc = "build"] ELSE LauncherEnds(l, "refused")
    /\ UNCHANGED <<work, out, store, policy, runs, pack, inst, adm, edits, faults>>

\* The build itself (module SealedBuild) succeeds or fails.
FinishBuild(l) ==
    /\ lau[l].pc = "build"
    /\ \/ lau' = [lau EXCEPT ![l].pc = "gate"]
       \/ lau' = LauncherEnds(l, "failed")
    /\ UNCHANGED <<work, out, store, policy, runs, pack, inst, adm, edits, faults>>

\* The result is returned only if the policy is still active before and after
\* the artifacts are checked again.
GateResult(l) ==
    /\ lau[l].pc \in {"gate", "return"}
    /\ IF active # lau[l].want
         THEN lau' = LauncherEnds(l, "refused")
         ELSE \/ lau[l].pc = "gate" /\ lau' = [lau EXCEPT ![l].pc = "return"]
              \/ lau[l].pc = "return" /\ lau' = LauncherEnds(l, "done")
    /\ UNCHANGED <<work, out, store, policy, runs, pack, inst, adm, edits, faults>>

-----------------------------------------------------------------------------
(* Around them.                                                            *)

\* The checkouts are edited or committed by their owner; only a packer that
\* has still to read them could tell.
Packing == \E k \in Packer :
    pack[k].pc \in {"start", "derive", "create", "inventory", "members", "rederive"}

Edit ==
    /\ Packing /\ edits < MaxEdits /\ edits' = edits + 1
    /\ \E c \in Content \ {work.content} : work' = [work EXCEPT !.content = c]
    /\ UNCHANGED <<out, store, policy, runs, pack, inst, adm, lau, faults>>

CommitWork ==
    /\ Packing /\ ~ Clean /\ edits < MaxEdits /\ edits' = edits + 1
    /\ work' = [work EXCEPT !.commit = work.content]
    /\ UNCHANGED <<out, store, policy, runs, pack, inst, adm, lau, faults>>

Ended == {"start", "done", "refused", "failed", "killed"}

\* A process is killed where no handler runs.
Kill(r) ==
    /\ faults < MaxFaults /\ faults' = faults + 1
    /\ \/ r \in Packer /\ pack[r].pc \notin Ended
          /\ pack' = [pack EXCEPT ![r] = [PackIdle EXCEPT !.pc = "killed"]]
          /\ UNCHANGED <<inst, adm, lau>>
       \/ r \in Installer /\ inst[r].pc \notin Ended
          /\ inst' = InstallerEnds(r, "killed") /\ UNCHANGED <<pack, adm, lau>>
       \/ r \in Admin /\ adm[r].pc \notin Ended
          /\ adm' = AdminEnds(r, "killed") /\ UNCHANGED <<pack, inst, lau>>
       \/ r \in Launcher /\ lau[r].pc \notin Ended
          /\ lau' = LauncherEnds(r, "killed") /\ UNCHANGED <<pack, inst, adm>>
    /\ UNCHANGED <<work, out, store, policy, runs, edits>>

\* The power goes: processes are gone, and what was renamed but not synced
\* may be gone too.
PowerFailure ==
    /\ faults < MaxFaults /\ faults' = faults + 1
    /\ \E lost \in SUBSET ((whole \union partial) \ reported) :
            whole' = whole \ lost /\ partial' = partial \ lost
    /\ active' \in {active, durable}
    /\ durable' = active'
    /\ out' \in {out, IF out # None /\ ~ out.kept THEN None ELSE out}
    /\ pack' = [k \in Packer |-> [PackIdle EXCEPT !.pc = "killed"]]
    /\ inst' = [i \in Installer |-> [InstIdle EXCEPT !.pc = "killed"]]
    /\ adm' = [a \in Admin |-> [AdmIdle EXCEPT !.pc = "killed"]]
    /\ lau' = [l \in Launcher |-> [LauIdle EXCEPT !.pc = "killed"]]
    /\ UNCHANGED <<work, reported, runs, edits>>

Init ==
    /\ \E c \in Sound : work = [content |-> c, commit |-> c]
    /\ out = None
    /\ whole = Installed0 /\ partial = {} /\ reported = Installed0
    /\ active \in Installed0 \union {None} /\ durable = active
    /\ runs = [n \in 1 .. Retain |-> None]
    /\ edits = 0 /\ faults = 0
    /\ \E crew \in Crews :
        LET pc(r) == IF r \in crew THEN "start" ELSE "killed"
        IN  /\ pack = [k \in Packer |-> [PackIdle EXCEPT !.pc = pc(k)]]
            /\ inst = [i \in Installer |-> [InstIdle EXCEPT !.pc = pc(i)]]
            /\ adm = [a \in Admin |-> [AdmIdle EXCEPT !.pc = pc(a)]]
            /\ lau = [l \in Launcher |-> [LauIdle EXCEPT !.pc = pc(l)]]

PackStep(k) ==
    \/ Preflight(k) \/ Derive(k) \/ CreateTemporary(k) \/ WriteManifest(k)
    \/ WriteMembers(k) \/ Rederive(k) \/ RenameNoReplace(k) \/ Commit(k)
    \/ Interrupt(k) \/ UnlinkOurs(k)

InstallStep(i) ==
    \/ OpenInput(i) \/ LockStore(i) \/ ReadManifest(i) \/ FillIncoming(i)
    \/ PublishSeal(i) \/ SyncStore(i) \/ SyncStoreFails(i) \/ Withdraw(i)
    \/ RemoveTree(i)

AdminStep(a) ==
    \/ Command(a) \/ LockPolicy(a) \/ VerifyTarget(a) \/ CompareGenerations(a)
    \/ SwapActive(a) \/ SyncPolicy(a) \/ SyncPolicyFails(a)

LaunchStep(l) ==
    \/ ReadRequest(l) \/ ReadActive(l) \/ LockRuns(l) \/ VerifyActive(l)
    \/ PruneRun(l) \/ PruneRefuses(l) \/ CreateRun(l) \/ Exec(l) \/ ExecFails(l)
    \/ EnterBuild(l) \/ FinishBuild(l) \/ GateResult(l)

Next ==
    \/ \E k \in Packer : PackStep(k)
    \/ \E i \in Installer : InstallStep(i)
    \/ \E a \in Admin : AdminStep(a)
    \/ \E l \in Launcher : LaunchStep(l)
    \/ \E r \in Packer \union Installer \union Admin \union Launcher : Kill(r)
    \/ Edit \/ CommitWork \/ PowerFailure

Spec == Init /\ [][Next]_vars

-----------------------------------------------------------------------------
(* Properties.                                                             *)

PackerPc == Interruptible \union Ended \union {"derive", "create", "cleanup"}
InstallerPc ==
    Ended \union {"lock", "manifest", "fill", "publish", "sync", "withdraw", "remove"}
AdminPc == Ended \union {"lock", "target", "compare", "swap", "sync"}
LauncherPc ==
    Ended \union {"active", "lock", "verify", "prune", "exec", "entry", "build", "gate", "return"}

\* Every variable has its type.
TypeOK ==
    /\ work \in [content : Content, commit : Content]
    /\ out \in {None} \union
         [owner : Packer, man : Manifest, body : Content \union {None}, kept : BOOLEAN]
    /\ whole \subseteq Manifest /\ partial \subseteq Manifest /\ reported \subseteq Manifest
    /\ active \in Manifest \union {None} /\ durable \in Manifest \union {None}
    /\ runs \in Seq(Launcher \union {None})
    /\ pack \in [Packer -> [pc : PackerPc, man : Manifest \union {None},
                            body : Content \union {None}, temp : BOOLEAN]]
    /\ inst \in [Installer -> [pc : InstallerPc, file : Stream \union {None},
                               owner : Packer \union {None}]]
    /\ adm \in [Admin -> [pc : AdminPc, op : Operation \union {None},
                          target : Manifest \union {None}, expect : Manifest \union {None}]]
    /\ lau \in [Launcher -> [pc : LauncherPc, want : Manifest \union {None}]]
    /\ edits \in Nat /\ faults \in Nat

\* A published stream is one an installer can use: whole, as its manifest
\* records it, and within the contracts.  The checkouts may change between any
\* two reads of the packer, which reads every member twice.
PublishedInstalls ==
    out # None =>
        /\ out.body = out.man.content /\ CurrentSchema(out.man)
        /\ SourceLockBinds(out.man.content) /\ OfflineContract(out.man.content)

\* A packer that was interrupted, at any point up to its commit, or refused,
\* has left nothing under either name.
InterruptLeavesNothing ==
    \A k \in Packer :
        pack[k].pc = "refused" => ~ pack[k].temp /\ (out = None \/ out.owner # k)

\* The active generation moves only forward by an activation and only back by
\* a rollback that named the generation it replaces, whatever administrators
\* run at the same time; besides, a power failure may take back a move that
\* was not synced.
ActiveMovesAsAsked ==
    [][\/ active' = active
       \/ active' = durable /\ \A a \in Admin : adm'[a].pc = "killed"
       \/ \E a \in Admin :
            /\ adm[a].pc = "swap" /\ adm[a].target = active' /\ adm[a].expect = active
            /\ active # None =>
                 IF adm[a].op = "activate" THEN active.gen < active'.gen
                                           ELSE active'.gen < active.gen]_vars

\* A build keeps its own run directory until it ends, whatever other launches
\* prune, and the directories never outgrow their limit.
RunsKept ==
    /\ Len(runs) <= Retain
    /\ \A l \in Launcher :
        lau[l].pc \in {"exec", "entry", "build", "gate", "return"} =>
            \E n \in DOMAIN runs : runs[n] = l

\* A generation shows up in the store at once, is undecided until its
\* installer has synced it, and is there for good once its name was returned;
\* the same holds of the stream file.
StreamStage ==
    IF out = None THEN [stage |-> "absent", tree |-> None]
    ELSE IF out.kept THEN [stage |-> "settled", tree |-> out.man]
    ELSE [stage |-> "pending", tree |-> None]

SealStage(s) ==
    IF s \in reported /\ s \in whole THEN [stage |-> "settled", tree |-> s]
    ELSE IF s \in whole \union partial THEN [stage |-> "pending", tree |-> None]
    ELSE [stage |-> "absent", tree |-> None]

Stage(s) == IF s = Output THEN StreamStage ELSE SealStage(s)

Fresh == {s.man : s \in Stray} \union
    {[content |-> c, commit |-> d, gen |-> PackGen[k], current |-> TRUE] :
        c \in Sound, d \in Sound, k \in Packer}

Slots == (Fresh \ Installed0) \union {Output}

Publication == INSTANCE PublishOnce
    WITH Slot <- Slots, Tree <- Manifest, store <- [s \in Slots |-> Stage(s)]

StorePublishOnce == Publication!Spec
=============================================================================
