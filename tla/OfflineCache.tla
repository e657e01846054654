---------------------------- MODULE OfflineCache ----------------------------
(***************************************************************************)
(* The offline package cache of the sealed build: promotion of a curated   *)
(* acquisition into a published cache (scripts/lmi_p1/offline_cache.py),   *)
(* and the calibration that promotes a new acquisition twice to produce    *)
(* the attestation the next production promotion needs                     *)
(* (scripts/lmi_p1/offline_cache_calibration.py).                          *)
(*                                                                         *)
(* Runs are processes on one host.  A run names its quarantine and its     *)
(* published directory by path, so what a name stands for may change       *)
(* between two of its system calls: the operator clears a quarantine that  *)
(* looks abandoned, another run makes a new one under the same name, the   *)
(* curated files are edited, a run dies, the power goes.                   *)
(*                                                                         *)
(* Data: of the hundreds of members the model keeps four: what the profile *)
(* pins by digest (indexes, apk-tools-static, the kernel archive), an APK  *)
(* of the old acquisition, an APK only the new one has, and the signer     *)
(* keys.  A content is "good" (the bytes the profile or the signed index   *)
(* names) or "stray" (other bytes).                                        *)
(***************************************************************************)
EXTENDS Naturals

CONSTANTS
    Run,            \* the processes
    Calibration,    \* those that execute a calibration; the others promote
    Crews,          \* the sets of processes that are ever started together
    Inode,          \* directories a quarantine or published name can stand for
    None,
    MaxEdits,       \* bound: changes to curated files and pinned inputs
    MaxRemovals,    \* bound: quarantines the operator clears away
    MaxFaults       \* bound: failed fsyncs and power failures

ASSUME OfflineCacheAssumption ==
    /\ Calibration \subseteq Run /\ Crews \subseteq SUBSET Run
    /\ None \notin Inode
    /\ {MaxEdits, MaxRemovals, MaxFaults} \subseteq Nat

Curated == {"pinned", "base", "extra"}
Member == Curated \union {"key"}
Content == {"good", "stray", "absent"}
Files == [Member -> Content]
Nothing == [m \in Member |-> "absent"]

\* The curated acquisition the installed attestation was made for, and its
\* strict successor.
Old == [pinned |-> "good", base |-> "good", extra |-> "absent"]
New == [Old EXCEPT !.extra = "good"]

\* What the code compares with a recorded digest: the project's own files
\* (profile, replay report, promotion code), the trusted pmbootstrap checkout,
\* its signer keys, the host's OpenSSL, and the cache a calibration starts from.
Input == {"project", "checkout", "keys", "openssl", "base_cache"}

Slot == {"store", "first", "replay"}
Bundled == {"first", "replay"}

VARIABLES
    acq,        \* the curated acquisition
    drift,      \* the inputs that differ from their recorded digests
    attest,     \* the acquisition the installed production attestation is for
    draft,      \* the acquisition a calibration was prepared for, or None
    order,      \* the installed calibration authorization, or None
    bundle,     \* the calibration's bundle, None until a calibration makes it
    dir,        \* Slot -> the inodes its quarantine and published names stand for
    durable,    \* the same, as a power failure would leave it
    tree,       \* Inode -> what the directory holds
    run,        \* Run -> its program counter and what it holds in memory
    edits, removals, faults

vars == <<acq, drift, attest, draft, order, bundle, dir, durable, tree, run,
          edits, removals, faults>>

EmptyTree == [files |-> Nothing, boot |-> FALSE, man |-> None, synced |-> FALSE]

Running(r) == run[r].pc \notin {"start", "load", "done", "refused", "stuck"}

\* Between its rename and the end of its checks after it.
Unsettled(s) ==
    \E r \in Run : run[r].slot = s /\ run[r].pc \in {"validate", "rollback", "stuck"}

-----------------------------------------------------------------------------
(* What the validators accept.                                             *)

\* The listing is exactly the pinned indexes, archives and distfiles, and any
\* number of APKs; the paths found are those copied later.
Inventory(files) == {m \in Curated : files[m] # "absent"}

ListingExact(files) == files["pinned"] # "absent"

\* The loaded code is the attested code, the replay report the attestation
\* names is for the same acquisition and output, and the profile agrees.
AttestationSound == "project" \notin drift

\* A calibration's own functions, and those it takes from the promotion, are
\* the ones defined in the project's files.
CanonicalCode == "project" \notin drift

\* The current attestation loads, with exactly the reviewed runtime files.
BaseTrustSound == AttestationSound

\* The published cache the calibration starts from is the attested output.
BaseCacheSound == "base_cache" \notin drift

TrustedCheckoutSound == "checkout" \notin drift

SignerKeysSound == "keys" \notin drift

\* The pinned members have the bytes the profile names, and the copied keys
\* the digests the profile gives for the signers.
PinnedBytes(recs) == recs["pinned"] = "good"

\* apk.static, unpacked from its pinned package, has the pinned digest and is
\* signed by the pinned key, as the copied OpenSSL says.
ToolAuthentic(files) == files["pinned"] = "good" /\ files["key"] = "good"

\* The private copy of the host's OpenSSL has exactly the pinned files.
RuntimeClosureSound == "openssl" \notin drift

\* apk.static accepts an index under its repository's key alone, and every
\* entry of it is well formed.
IndexSigned(files) == files["pinned"] = "good" /\ files["key"] = "good"

\* The bytes of an APK are those some entry of a signed index describes.
ApkIndexed(content) == content # "stray"

\* apk-tools-static itself is accepted under exactly one pinned key.
PackageSigned(files) == files["pinned"] = "good" /\ files["key"] = "good"

\* Every index is signed, every APK of the cache is bound to exactly one
\* entry, and the one package outside the repositories is signed.
ArtifactsVerified(files) ==
    /\ IndexSigned(files)
    /\ \A m \in {"base", "extra"} : ApkIndexed(files[m])
    /\ PackageSigned(files)

\* Every member of a manifest is classified: the pinned ones, the signer keys
\* and the APKs its external records name.
ManifestValid(man) == man["pinned"] = "good" /\ man["key"] = "good"

\* The cache at inode i has nothing but its members and a manifest that
\* describes them all.
CacheExact(i) ==
    /\ ~tree[i].boot
    /\ tree[i].man # None
    /\ ManifestValid(tree[i].man)
    /\ tree[i].man = tree[i].files

\* The acquisition's identity: every member with its digest.
SameInventory(files, identity) == \A m \in Curated : files[m] = identity[m]

\* A calibration is only for an acquisition with more members than the
\* attested one.
StrictSuccessor(files) ==
    /\ {m \in Curated : attest[m] # "absent"} # {m \in Curated : files[m] # "absent"}
    /\ \A m \in Curated : attest[m] # "absent" => files[m] # "absent"

RunPc == {"start", "inventory", "mkdir", "copy", "pins", "bootstrap", "verify", "close",
          "manifest", "bind", "read", "publish", "rename", "validate", "rollback",
          "load", "bundle", "snapshot", "prepromote", "promoted", "inputs", "final",
          "candidate_replay", "candidate_attestation", "receipt",
          "done", "refused", "stuck"}

Acquisition == [Curated -> Content]
Names == [q : Inode \union {None}, p : Inode \union {None}]
Order == [names : Acquisition, edition : {1, 2}]
Bundle == [snap : Acquisition, replay : Acquisition \union {None},
           attest : Acquisition \union {None}, receipt : BOOLEAN]
Directory == [files : Files, boot : BOOLEAN, man : Files \union {None}, synced : BOOLEAN]
Process == [pc : RunPc, slot : Slot \union {None}, auth : Acquisition \union {None},
            todo : SUBSET Curated, recs : Files, held : Inode \union {None},
            order : Order \union {None}, base : Acquisition \union {None},
            seen : Files \union {None}]

\* What may be missing is told apart from its being None.
ASSUME NoneAssumption == None \notin Bundle \union Acquisition \union Order \union Files

TypeOK ==
    /\ acq \in Acquisition /\ drift \subseteq Input /\ attest \in Acquisition
    /\ draft \in Acquisition \union {None} /\ order \in Order \union {None}
    /\ bundle \in Bundle \union {None}
    /\ dir \in [Slot -> Names] /\ durable \in [Slot -> Names]
    /\ tree \in [Inode -> Directory]
    /\ run \in [Run -> Process]
    /\ edits \in 0..MaxEdits /\ removals \in 0..MaxRemovals /\ faults \in 0..MaxFaults

Init ==
    /\ acq \in {Old, New}
    /\ drift = {}
    /\ attest \in {Old, New}
    /\ draft = None /\ order = None
    /\ bundle = None
    /\ dir = [s \in Slot |-> [q |-> None, p |-> None]]
    /\ durable = dir
    /\ tree = [i \in Inode |-> EmptyTree]
    /\ \E crew \in Crews :
         run = [r \in Run |->
                [pc |-> IF r \notin crew THEN "refused"
                        ELSE IF r \in Calibration THEN "load" ELSE "start",
                 slot |-> None, auth |-> None, todo |-> {}, recs |-> Nothing,
                 held |-> None, order |-> None, base |-> None, seen |-> None]]
    /\ edits = 0 /\ removals = 0 /\ faults = 0

Goto(r, pc) == run' = [run EXCEPT ![r].pc = pc]

\* A process that has ended keeps only its fate and the slot it was filling.
Ended(v, pc) ==
    [pc |-> pc, slot |-> v.slot, auth |-> None, todo |-> {}, recs |-> Nothing,
     held |-> None, order |-> None, base |-> None, seen |-> None]

World == <<acq, drift, attest, draft, order>>
Disk == <<dir, durable, tree>>
Bounds == <<edits, removals, faults>>

-----------------------------------------------------------------------------
(* Promotion.  A production run is authorised by the installed attestation;*)
(* a calibration's two promotions have no authorization and a verifier the *)
(* calibration bootstrapped from the base cache.                           *)

LoadAuthorization(r) ==
    /\ run[r].pc = "start"
    /\ AttestationSound
    /\ run' = [run EXCEPT ![r] = [@ EXCEPT !.pc = "inventory", !.slot = "store",
                                           !.auth = attest]]
    /\ UNCHANGED <<World, bundle, Disk, Bounds>>

Source(r) == IF r \in Calibration THEN bundle.snap ELSE acq

\* Both names are absent, the listing is exact and, in production, the
\* acquisition is the attested one and the trusted checkout is unchanged.
CheckInputs(r) ==
    LET s == run[r].slot IN
    /\ run[r].pc = "inventory"
    /\ dir[s] = [q |-> None, p |-> None]
    /\ ListingExact(Source(r))
    /\ r \notin Calibration => /\ SameInventory(acq, run[r].auth)
                               /\ TrustedCheckoutSound
    /\ SignerKeysSound
    /\ run' = [run EXCEPT ![r] = [@ EXCEPT !.pc = "mkdir", !.recs = Nothing, !.held = None,
                                           !.todo = Inventory(Source(r))]]
    /\ UNCHANGED <<World, bundle, Disk, Bounds>>

\* A directory no name and no run refers to; the next mkdir gets it.
Free == {i \in Inode : /\ \A s \in Slot : i \notin {dir[s].q, dir[s].p,
                                                    durable[s].q, durable[s].p}
                       /\ \A r \in Run : run[r].held # i}

MakeQuarantine(r) ==
    LET s == run[r].slot
        i == CHOOSE j \in Free : TRUE
    IN
    /\ run[r].pc = "mkdir"
    /\ Free # {}
    /\ dir[s].q = None
    /\ dir' = [dir EXCEPT ![s].q = i]
    /\ tree' = [tree EXCEPT ![i] = EmptyTree]
    /\ Goto(r, "copy")
    /\ UNCHANGED <<World, bundle, durable, Bounds>>

\* One member, copied while its source stays the same, into whatever directory
\* the quarantine's name stands for now; the destination must be new.
CopyMember(r) ==
    LET m == CHOOSE n \in run[r].todo : TRUE
        q == dir[run[r].slot].q
    IN
    /\ run[r].pc = "copy"
    /\ run[r].todo # {}
    /\ q # None
    /\ Source(r)[m] # "absent"
    /\ tree[q].files[m] = "absent"
    /\ tree' = [tree EXCEPT ![q].files[m] = Source(r)[m]]
    /\ run' = [run EXCEPT ![r] = [run[r] EXCEPT !.todo = @ \ {m}, !.recs[m] = Source(r)[m]]]
    /\ UNCHANGED <<World, bundle, dir, durable, Bounds>>

\* The signer keys come from the trusted checkout and must have the digests
\* the profile pins.
CopyKeys(r) ==
    LET q == dir[run[r].slot].q IN
    /\ run[r].pc = "copy"
    /\ run[r].todo = {}
    /\ q # None
    /\ tree[q].files["key"] = "absent"
    /\ SignerKeysSound
    /\ tree' = [tree EXCEPT ![q].files["key"] = "good"]
    /\ run' = [run EXCEPT ![r] = [@ EXCEPT !.pc = "pins", !.recs["key"] = "good"]]
    /\ UNCHANGED <<World, bundle, dir, durable, Bounds>>

CheckPins(r) ==
    /\ run[r].pc = "pins"
    /\ PinnedBytes(run[r].recs)
    /\ Goto(r, IF r \in Calibration THEN "verify" ELSE "bootstrap")
    /\ UNCHANGED <<World, bundle, Disk, Bounds>>

\* Production authenticates apk.static from the quarantine itself, in a new
\* directory inside it.
BootstrapVerifier(r) ==
    LET q == dir[run[r].slot].q IN
    /\ run[r].pc = "bootstrap"
    /\ q # None
    /\ ToolAuthentic(tree[q].files) /\ RuntimeClosureSound
    /\ ~tree[q].boot
    /\ tree' = [tree EXCEPT ![q].boot = TRUE]
    /\ Goto(r, "verify")
    /\ UNCHANGED <<World, bundle, dir, durable, Bounds>>

\* The artifacts are verified where they are.
VerifyArtifacts(r) ==
    LET q == dir[run[r].slot].q IN
    /\ run[r].pc = "verify"
    /\ q # None
    /\ ArtifactsVerified(tree[q].files)
    /\ Goto(r, IF r \in Calibration THEN "manifest" ELSE "close")
    /\ UNCHANGED <<World, bundle, Disk, Bounds>>

\* A production run removes its verifier from the quarantine again.
CloseVerifier(r) ==
    LET q == dir[run[r].slot].q IN
    /\ run[r].pc = "close"
    /\ q # None
    /\ tree[q].boot
    /\ tree' = [tree EXCEPT ![q].boot = FALSE]
    /\ Goto(r, "manifest")
    /\ UNCHANGED <<World, bundle, dir, durable, Bounds>>

\* The manifest records what was copied, not what the quarantine holds now;
\* every directory of the quarantine is then synced.
WriteManifest(r) ==
    LET q == dir[run[r].slot].q IN
    /\ run[r].pc = "manifest"
    /\ q # None
    /\ SignerKeysSound
    /\ ManifestValid(run[r].recs)
    /\ tree[q].man = None
    /\ tree' = [tree EXCEPT ![q] = [@ EXCEPT !.man = run[r].recs, !.synced = TRUE]]
    /\ Goto(r, "bind")
    /\ UNCHANGED <<World, bundle, dir, durable, Bounds>>

\* From here on the run holds a descriptor of the directory.
BindQuarantine(r) ==
    /\ run[r].pc = "bind"
    /\ dir[run[r].slot].q # None
    /\ run' = [run EXCEPT ![r] = [@ EXCEPT !.pc = "read", !.held = dir[run[r].slot].q]]
    /\ UNCHANGED <<World, bundle, Disk, Bounds>>

\* Mutant: the output is not compared with the attestation.
ReadBackOnly(r) ==
    LET h == run[r].held IN
    /\ run[r].pc = "read"
    /\ dir[run[r].slot].q = h
    /\ CacheExact(h)
    /\ tree[h].man = run[r].recs
    /\ SignerKeysSound
    /\ Goto(r, "publish")
    /\ UNCHANGED <<World, bundle, Disk, Bounds>>

\* Every member is hashed again against the manifest, the manifest must be the
\* one this run wrote and, in production, the attested output.
ReadBack(r) ==
    LET h == run[r].held IN
    /\ run[r].pc = "read"
    /\ dir[run[r].slot].q = h
    /\ CacheExact(h)
    /\ tree[h].man = run[r].recs
    /\ r \notin Calibration => /\ SameInventory(tree[h].man, run[r].auth)
                               /\ TrustedCheckoutSound
    /\ SignerKeysSound
    /\ Goto(r, "publish")
    /\ UNCHANGED <<World, bundle, Disk, Bounds>>

CheckDestination(r) ==
    LET s == run[r].slot IN
    /\ run[r].pc = "publish"
    /\ dir[s].q = run[r].held
    /\ dir[s].p = None
    /\ Goto(r, "rename")
    /\ UNCHANGED <<World, bundle, Disk, Bounds>>

\* renameat2 with RENAME_NOREPLACE moves whatever the name stands for.
Rename(r) ==
    LET s == run[r].slot IN
    /\ run[r].pc = "rename"
    /\ dir[s].q # None
    /\ dir[s].p = None
    /\ dir' = [dir EXCEPT ![s] = [q |-> None, p |-> dir[s].q]]
    /\ Goto(r, "validate")
    /\ UNCHANGED <<World, bundle, durable, tree, Bounds>>

\* Mutant: the name is not compared with the directory that was read.
ValidateAnything(r) ==
    LET s == run[r].slot IN
    /\ run[r].pc = "validate"
    /\ durable' = [durable EXCEPT ![s] = dir[s]]
    /\ run' = [run EXCEPT ![r] = [@ EXCEPT !.recs = Nothing, !.pc =
                                    IF r \in Calibration THEN "promoted" ELSE "done"]]
    /\ UNCHANGED <<World, bundle, dir, tree, Bounds>>

\* Mutant: the parent directory is not synced.
ValidateUnsynced(r) ==
    LET s == run[r].slot IN
    /\ run[r].pc = "validate"
    /\ dir[s].p = run[r].held
    /\ run' = [run EXCEPT ![r] = [@ EXCEPT !.recs = Nothing, !.pc =
                                    IF r \in Calibration THEN "promoted" ELSE "done"]]
    /\ UNCHANGED <<World, bundle, Disk, Bounds>>

\* The published name must stand for the directory that was read, before and
\* after the parent is synced.
ValidatePublished(r) ==
    LET s == run[r].slot IN
    /\ run[r].pc = "validate"
    /\ dir[s].p = run[r].held
    /\ durable' = [durable EXCEPT ![s] = dir[s]]
    /\ run' = [run EXCEPT ![r] = [@ EXCEPT !.recs = Nothing, !.pc =
                                    IF r \in Calibration THEN "promoted" ELSE "done"]]
    /\ UNCHANGED <<World, bundle, dir, tree, Bounds>>

\* It does not, or the sync failed.
ValidateFails(r) ==
    LET s == run[r].slot IN
    /\ run[r].pc = "validate"
    /\ \/ dir[s].p # run[r].held /\ UNCHANGED faults
       \/ faults < MaxFaults /\ faults' = faults + 1
    /\ Goto(r, "rollback")
    /\ UNCHANGED <<World, bundle, Disk, edits, removals>>

\* The tree goes back under the quarantine's name if that is free, and the parent
\* is synced, which may fail.
Rollback(r) ==
    LET s == run[r].slot IN
    /\ run[r].pc = "rollback"
    /\ IF dir[s].q = None /\ dir[s].p # None
       THEN /\ dir' = [dir EXCEPT ![s] = [q |-> dir[s].p, p |-> None]]
            /\ \/ /\ durable' = [durable EXCEPT ![s] = dir'[s]]
                  /\ run' = [run EXCEPT ![r] = Ended(@, "refused")]
                  /\ UNCHANGED faults
               \/ /\ faults < MaxFaults /\ faults' = faults + 1
                  /\ run' = [run EXCEPT ![r] = Ended(@, "stuck")]
                  /\ UNCHANGED durable
       ELSE /\ run' = [run EXCEPT ![r] = Ended(@, "stuck")]
            /\ UNCHANGED <<dir, durable, faults>>
    /\ UNCHANGED <<World, bundle, tree, edits, removals>>

-----------------------------------------------------------------------------
(* Calibration.                                                            *)

\* The operator prepares a calibration: trust inputs and base cache are sound,
\* the acquisition is a successor of the attested one, and the draft is new.
PrepareCalibration ==
    /\ draft = None
    /\ BaseTrustSound /\ TrustedCheckoutSound /\ SignerKeysSound /\ BaseCacheSound
    /\ ListingExact(acq) /\ StrictSuccessor(acq)
    /\ bundle = None
    /\ draft' = acq
    /\ UNCHANGED <<acq, drift, attest, order, bundle, Disk, run, Bounds>>

\* After review the draft becomes the authorization.
InstallAuthorization ==
    /\ order = None
    /\ draft # None
    /\ order' = [names |-> draft, edition |-> 1]
    /\ UNCHANGED <<acq, drift, attest, draft, bundle, Disk, run, Bounds>>

\* The authorization is held open, everything it names is compared with the
\* current files, and the bundle's path must be new.
LoadExecutionState(r) ==
    /\ run[r].pc = "load"
    /\ order # None
    /\ CanonicalCode /\ BaseTrustSound
    /\ TrustedCheckoutSound /\ SignerKeysSound
    /\ BaseCacheSound
    /\ ListingExact(acq) /\ StrictSuccessor(acq)
    /\ SameInventory(acq, order.names)
    /\ bundle = None
    /\ run' = [run EXCEPT ![r] = [@ EXCEPT !.pc = "bundle", !.auth = order.names,
                                           !.order = order, !.base = attest]]
    /\ UNCHANGED <<World, bundle, Disk, Bounds>>

CreateBundle(r) ==
    /\ run[r].pc = "bundle"
    /\ bundle = None
    /\ bundle' = [snap |-> [m \in Curated |-> "absent"],
                  replay |-> None, attest |-> None, receipt |-> FALSE]
    /\ run' = [run EXCEPT ![r] = [@ EXCEPT !.pc = "snapshot", !.todo = Inventory(acq)]]
    /\ UNCHANGED <<World, Disk, Bounds>>

\* One member, copied relative to held descriptors.
CopySnapshotMember(r) ==
    LET m == CHOOSE n \in run[r].todo : TRUE IN
    /\ run[r].pc = "snapshot"
    /\ run[r].todo # {}
    /\ acq[m] # "absent"
    /\ bundle' = [bundle EXCEPT !.snap[m] = acq[m]]
    /\ run' = [run EXCEPT ![r].todo = @ \ {m}]
    /\ UNCHANGED <<World, Disk, Bounds>>

\* The copy must have the authorised identity; its files are held open.
HoldSnapshot(r) ==
    /\ run[r].pc = "snapshot"
    /\ run[r].todo = {}
    /\ SameInventory(bundle.snap, run[r].auth)
    /\ run' = [run EXCEPT ![r] = [@ EXCEPT !.pc = "prepromote", !.slot = "first"]]
    /\ UNCHANGED <<World, bundle, Disk, Bounds>>

\* The held files and the names in the snapshot are those of HoldSnapshot.
SnapshotUnchanged(r) == SameInventory(bundle.snap, run[r].auth)

\* A verifier is bootstrapped from the base cache, outside the quarantine.
StartPromotion(r) ==
    /\ run[r].pc = "prepromote"
    /\ SnapshotUnchanged(r)
    /\ BaseCacheSound /\ RuntimeClosureSound
    /\ Goto(r, "inventory")
    /\ UNCHANGED <<World, bundle, Disk, Bounds>>

\* The published cache is read back in full.
Revalidated(s) ==
    /\ dir[s].p # None
    /\ CacheExact(dir[s].p)
    /\ SignerKeysSound

\* Its members are those of the snapshot and the profile's signer keys.
BoundToSnapshot(s) ==
    /\ SameInventory(tree[dir[s].p].man, bundle.snap)
    /\ tree[dir[s].p].man["key"] = "good"

\* After each promotion; after the second the two manifests must be identical.
BindOutput(r) ==
    LET s == run[r].slot
        man == tree[dir[s].p].man
    IN
    /\ run[r].pc = "promoted"
    /\ SnapshotUnchanged(r)
    /\ Revalidated(s) /\ BoundToSnapshot(s)
    /\ s = "replay" => man = run[r].seen
    /\ run' = [run EXCEPT ![r] = [@ EXCEPT !.pc = IF s = "first" THEN "prepromote" ELSE "inputs",
                                           !.slot = "replay", !.held = None,
                                           !.seen = IF s = "first" THEN man ELSE None]]
    /\ UNCHANGED <<World, bundle, Disk, Bounds>>

\* Authorization, attestation, checkout, base cache and acquisition are still
\* those the run began with.
RevalidateInputs(r) ==
    /\ run[r].pc = "inputs"
    /\ order = run[r].order
    /\ attest = run[r].base
    /\ BaseTrustSound /\ TrustedCheckoutSound /\ SignerKeysSound /\ BaseCacheSound
    /\ StrictSuccessor(acq) /\ SameInventory(acq, run[r].auth)
    /\ Goto(r, "final")
    /\ UNCHANGED <<World, bundle, Disk, Bounds>>

FinalRevalidation(r) ==
    /\ run[r].pc = "final"
    /\ SnapshotUnchanged(r)
    /\ \A s \in Bundled : Revalidated(s) /\ BoundToSnapshot(s)
    /\ tree[dir["first"].p].man = tree[dir["replay"].p].man
    /\ Goto(r, "candidate_replay")
    /\ UNCHANGED <<World, bundle, Disk, Bounds>>

\* Mutant: the receipt is written before the attestation it speaks of.
WriteReceiptEarly(r) ==
    /\ run[r].pc = "candidate_replay"
    /\ bundle.replay = None
    /\ bundle' = [bundle EXCEPT !.replay = run[r].auth, !.receipt = TRUE]
    /\ Goto(r, "candidate_attestation")
    /\ UNCHANGED <<World, Disk, Bounds>>

\* Each file is staged, synced, renamed without replacement and read back.
WriteCandidateReplay(r) ==
    /\ run[r].pc = "candidate_replay"
    /\ bundle.replay = None
    /\ bundle' = [bundle EXCEPT !.replay = run[r].auth]
    /\ Goto(r, "candidate_attestation")
    /\ UNCHANGED <<World, Disk, Bounds>>

WriteCandidateAttestation(r) ==
    /\ run[r].pc = "candidate_attestation"
    /\ bundle.attest = None
    /\ bundle' = [bundle EXCEPT !.attest = run[r].auth]
    /\ Goto(r, "receipt")
    /\ UNCHANGED <<World, Disk, Bounds>>

WriteReceipt(r) ==
    /\ run[r].pc = "receipt"
    /\ ~bundle.receipt
    /\ bundle' = [bundle EXCEPT !.receipt = TRUE]
    /\ run' = [run EXCEPT ![r] = Ended(@, "done")]
    /\ UNCHANGED <<World, Disk, Bounds>>

-----------------------------------------------------------------------------
(* What ends a run early, and what happens around the runs.                *)

Fate(r) == IF run[r].pc \in {"validate", "rollback"} THEN "stuck" ELSE "refused"

\* A check or a system call fails, or the process dies.  Before the rename it
\* leaves everything as it is; a process that dies after it leaves the tree
\* under the published name.
Stop(r) ==
    /\ Running(r)
    /\ run' = [run EXCEPT ![r] = Ended(@, Fate(r))]
    /\ UNCHANGED <<World, bundle, Disk, Bounds>>

\* Every run dies.  A parent directory shows its last synced entries or its
\* current ones; a tree that was not synced may be empty.
PowerLoss ==
    /\ faults < MaxFaults
    /\ faults' = faults + 1
    /\ \E lost \in SUBSET {s \in Slot : durable[s] # dir[s]} :
          dir' = [s \in Slot |-> IF s \in lost THEN durable[s] ELSE dir[s]]
    /\ durable' = dir'
    /\ tree' = [i \in Inode |-> IF tree[i].synced THEN tree[i] ELSE EmptyTree]
    /\ run' = [r \in Run |-> IF Running(r) THEN Ended(run[r], Fate(r)) ELSE run[r]]
    /\ UNCHANGED <<World, bundle, edits, removals>>

\* The operator clears away a quarantine that was left behind, or seems so.
RemoveQuarantine(s) ==
    /\ removals < MaxRemovals
    /\ dir[s].q # None
    /\ dir' = [dir EXCEPT ![s].q = None]
    /\ removals' = removals + 1
    /\ UNCHANGED <<World, bundle, durable, tree, run, edits, faults>>

\* A curated file, a snapshot file or a pinned input changes.
Edit ==
    /\ edits < MaxEdits
    /\ edits' = edits + 1
    /\ \/ /\ \E m \in Curated, c \in Content :
                /\ acq[m] # c /\ (c = "stray" \/ m = "extra")
                /\ acq' = [acq EXCEPT ![m] = c]
          /\ UNCHANGED <<drift, bundle, order>>
       \/ /\ \E i \in Input : drift' = IF i \in drift THEN drift \ {i} ELSE drift \union {i}
          /\ UNCHANGED <<acq, bundle, order>>
       \/ /\ bundle # None
          /\ \E m \in Curated : bundle.snap[m] = "good"
                                /\ bundle' = [bundle EXCEPT !.snap[m] = "stray"]
          /\ UNCHANGED <<acq, drift, order>>
       \/ /\ order # None /\ order.edition = 1 /\ order' = [order EXCEPT !.edition = 2]
          /\ UNCHANGED <<acq, drift, bundle>>
    /\ UNCHANGED <<attest, draft, Disk, run, removals, faults>>

\* The reviewed candidates of a completed calibration become the production
\* attestation and its replay report.
InstallCandidate ==
    /\ bundle # None
    /\ bundle.receipt
    /\ attest # bundle.attest
    /\ attest' = bundle.attest
    /\ UNCHANGED <<acq, drift, draft, order, bundle, Disk, run, Bounds>>

Promote(r) ==
    \/ CheckInputs(r) \/ MakeQuarantine(r) \/ CopyMember(r) \/ CopyKeys(r)
    \/ CheckPins(r) \/ BootstrapVerifier(r) \/ VerifyArtifacts(r) \/ CloseVerifier(r)
    \/ WriteManifest(r) \/ BindQuarantine(r) \/ ReadBack(r) \/ CheckDestination(r) \/ Rename(r)
    \/ ValidatePublished(r) \/ ValidateFails(r) \/ Rollback(r)

Calibrate(r) ==
    \/ LoadExecutionState(r) \/ CreateBundle(r) \/ CopySnapshotMember(r) \/ HoldSnapshot(r)
    \/ StartPromotion(r) \/ BindOutput(r) \/ RevalidateInputs(r) \/ FinalRevalidation(r)
    \/ WriteCandidateReplay(r) \/ WriteCandidateAttestation(r) \/ WriteReceipt(r)

Next ==
    \/ \E r \in Run : LoadAuthorization(r) \/ Promote(r) \/ Calibrate(r) \/ Stop(r)
    \/ PowerLoss
    \/ \E s \in Slot : RemoveQuarantine(s)
    \/ Edit
    \/ PrepareCalibration \/ InstallAuthorization \/ InstallCandidate

Spec == Init /\ [][Next]_vars

-----------------------------------------------------------------------------
(* Properties.                                                             *)

Acceptable(files) ==
    /\ files["pinned"] = "good" /\ files["key"] = "good" /\ files["base"] # "stray"
    /\ files["extra"] # "stray"

\* Every member the manifest of i records is there, with the recorded bytes.
Complete(i) ==
    /\ tree[i].man # None
    /\ \A m \in Member : tree[i].man[m] # "absent" => tree[i].files[m] = tree[i].man[m]
    /\ Acceptable(tree[i].man)

\* Whoever finds a published cache finds all of it: outside the moment between
\* a run's rename and the end of its checks (and the runs that stopped in that
\* moment), the published name stands for a directory that has every member
\* its manifest records, each one the signed indexes describe
\* (_publish_bound_quarantine, read_offline_cache_manifest), although every
\* name may have been given to another directory since the run last looked.
\* It may hold more: a run whose quarantine was cleared away goes on writing
\* into the one made in its place.
PublishedIsComplete ==
    \A s \in Slot :
        dir[s].p # None /\ ~Unsettled(s) => Complete(dir[s].p) /\ durable[s].p = dir[s].p

\* A production run that reports success published exactly the acquisition of
\* the attestation it loaded (expected_output, acquisition identity), whatever
\* became of the curated files, the quarantine's name and the attestation
\* while it ran, and a power failure does not take that back.
SuccessIsAttested ==
    \A r \in Run \ Calibration :
        run[r].pc = "done" =>
            /\ dir["store"].p = run[r].held /\ durable["store"].p = run[r].held
            /\ Complete(run[r].held)
            /\ SameInventory(tree[run[r].held].man, run[r].auth)

\* A candidate attestation exists only beside two complete promotions of the
\* authorised acquisition that record the same members, and a receipt only
\* beside both candidates (_execute_canonical_transaction), although the
\* acquisition, the snapshot and every input can be edited in between.
ReceiptIsReproduced ==
    bundle # None =>
        /\ bundle.receipt => bundle.attest # None
        /\ bundle.attest # None =>
             /\ bundle.replay = bundle.attest
             /\ \A s \in Bundled : /\ dir[s].p # None
                                   /\ Complete(dir[s].p)
                                   /\ SameInventory(tree[dir[s].p].man, bundle.attest)

\* The three published names, each as a slot that is filled once.
Shown ==
    [s \in Slot |->
        [stage |-> IF dir[s].p = None THEN "absent"
                   ELSE IF Unsettled(s) THEN "pending" ELSE "settled",
         tree |-> IF dir[s].p = None \/ Unsettled(s) THEN None ELSE tree[dir[s].p].man]]

Published == INSTANCE PublishOnce WITH Tree <- {t \in Files : Acceptable(t)}, store <- Shown

\* A cache that was published and vouched for is never replaced, changed or
\* taken away again.
PublishOnceSpec == Published!Spec
=============================================================================
