---------------------------- MODULE SealedBuild ----------------------------
(***************************************************************************)
(* One candidate build of scripts/lmi_p1/build.py: private copies of the   *)
(* pinned inputs are made, pmbootstrap is driven through two installs and  *)
(* an image finalizer, the exported images are copied and inspected by     *)
(* scripts/lmi_p1/artifact_semantics.py, and the set is frozen under one   *)
(* manifest.  Between any two steps something outside may change what the  *)
(* next step reads; any external command may fail.                         *)
(*                                                                         *)
(* A file is abstracted to what the checks of the build tell apart.  Its   *)
(* "serial" stands for its bytes and its "mark" for its identity on disk,  *)
(* inode and times: both zero as the build made it.  A change behind the   *)
(* build's back leaves a fresh mark, but may bring earlier bytes back.     *)
(***************************************************************************)
EXTENDS Naturals, FiniteSets

CONSTANTS
    Member,         \* files of the offline cache
    Pkgs,           \* package sets an install may come out with
    None,
    MaxEdits,       \* bound: changes while the inputs are copied
    MaxChanges,     \* bound: changes of a whole build after which no more follow
    MaxFails        \* bound: external commands that fail

\* A package set: the version of the pinned packages, the rest, and whether it
\* is within the package policy.
ASSUME SealedBuildAssumption ==
    /\ Pkgs \subseteq [ssh : Nat, rest : Nat, allowed : BOOLEAN]
    /\ IsFiniteSet(Member) /\ None \notin Pkgs
    /\ {MaxEdits, MaxChanges, MaxFails} \subseteq Nat

Tree == {"project", "pmaports", "pmbootstrap"}
Input == Member \union Tree
Component == {"vmlinuz", "initramfs", "dtb"}

\* The exported images: those the build cannot do without, which are the ones it
\* inspects, and one that stands for those it takes along where they are there.
Required == Component \union {"boot", "userdata"}
Optional == {"dtbo"}
Exported == Required \union Optional

\* What an inspection can find wrong with each file.
Flaw == [dtbo |-> {},
         vmlinuz |-> {"kernel"}, initramfs |-> {"archive"}, dtb |-> {"tree"},
         boot |-> {"header", "cmdline"},
         userdata |-> {"partition", "superblock", "unclean", "content", "layout", "ssh",
                       "management", "account", "package"}]

VARIABLES
    pc,
    sealed,     \* a build from a verified seal, or an unsealed development build
    input,      \* the inputs where they lie: "pinned", "edited", or a repository
                \* "moved" to another commit
    copy,       \* the build's own copies, or None
    repo,       \* the local APK repository
    rootfs,     \* the root file system: packages, constraints, UUIDs, identity
    pins,       \* what the build remembers of it
    made,       \* the images and boot files pmbootstrap made
    opened,     \* marks of the export targets, as opened
    export,     \* the export directory's images
    stray,      \* the export directory has an unexpected member
    report,     \* the semantic report: the identity and bytes of what was inspected
    notes,      \* the text files beside the images
    logged,     \* the digests in the build log
    frozen,     \* "no", "files", "all"
    manifest,   \* the artifact manifest: what it says of the images and notes
    policy,     \* the seal's policy is still the active one
    chroot,     \* pmbootstrap's chroots are mounted
    finalizer,  \* its staging directory: "none", "known", "unknown" to the build,
                \* or "stuck" after a removal that failed
    clean,      \* clean_shutdown
    tried,      \* a shutdown was tried after the last other command
    changes, fails

inputs == <<input, copy>>
guest == <<repo, rootfs, made>>
images == <<opened, export, stray>>
verdict == <<report, notes, logged, frozen, manifest>>
session == <<chroot, finalizer, clean, tried>>
env == <<sealed, policy, changes, fails>>
vars == <<pc, sealed, input, copy, repo, rootfs, pins, made, opened, export, stray,
          report, notes, logged, frozen, manifest, policy, chroot, finalizer, clean,
          tried, changes, fails>>

NoFiles == [f \in Exported |-> None]

\* A digest tells bytes apart, and nothing else.
Digest(file) == IF file = None THEN None ELSE [file EXCEPT !.mark = 0]
Digests(files) == [f \in Exported |-> Digest(files[f])]

-----------------------------------------------------------------------------
(* Private copies of the inputs.                                           *)

Refuse(ok, next) == pc' = IF ok THEN next ELSE "failed"

\* A repository's working tree, index and commit are those of the provenance.
AtSealedCommit(t) == input[t] = "pinned"

\* The cache holds exactly what its manifest lists, and the manifest is the one
\* the seal and the source lock name.
CacheAsSealed == \A m \in Member : input[m] = "pinned"

\* A private capability, made from a verified seal, stands for the privilege.
Authorized == sealed => AtSealedCommit("project") /\ AtSealedCommit("pmbootstrap")

\* A repository can be checked out if it is at the expected commit; what its
\* working tree holds does not matter.
CanCheckOut(t) == input[t] # "moved"
CheckedOut == "pinned"

\* A tree's source lock and kernel recipe are the expected ones.
SourceLockAgrees(tree) == tree = "pinned"
KernelRecipeAgrees(tree) == tree = "pinned"

\* A stage is the pinned commit with the listed packages and patch, and no
\* other physical difference.
StageValid(tree) == tree = "pinned"

\* The same files, modes and bytes on disk.
SameTree(a, b) == a = b

\* A sealed build is authorised by its seal alone: every repository at the
\* commit of the seal and the cache as the source lock records it.
Authorize ==
    /\ pc = "start"
    /\ Refuse(Authorized /\ (sealed => CacheAsSealed),
              IF sealed THEN "seed" ELSE "checkout")
    /\ UNCHANGED <<inputs, guest, pins, images, verdict, session, env>>

\* The cache is verified once more, and the private directories are made.
BeginSeed ==
    /\ pc = "seed"
    /\ Refuse(CacheAsSealed, "copy")
    /\ UNCHANGED <<inputs, guest, pins, images, verdict, session, env>>

\* A file's digest and size are the manifest's.
MemberMatches(content) == content = "pinned"

\* One cache file is copied, and hashed as it is copied.
SeedMember(m) ==
    /\ pc = "copy" /\ copy[m] = None
    /\ copy' = [copy EXCEPT ![m] = input[m]]
    /\ Refuse(MemberMatches(input[m]), "copy")
    /\ UNCHANGED <<input, guest, pins, images, verdict, session, env>>

\* All copies are hashed again, and the cache is verified a last time.
VerifySeed ==
    /\ pc = "copy" /\ \A m \in Member : copy[m] # None
    /\ Refuse(\A m \in Member : MemberMatches(copy[m]) /\ MemberMatches(input[m]),
              "checkout")
    /\ UNCHANGED <<inputs, guest, pins, images, verdict, session, env>>

\* The project is checked out by its commit, whatever its working tree holds,
\* and its source lock and kernel recipe are those the seal names.
CheckoutProject ==
    /\ pc = "checkout"
    /\ copy' = [copy EXCEPT !["project"] = CheckedOut]
    /\ Refuse(/\ CanCheckOut("project")
              /\ SourceLockAgrees(CheckedOut) /\ KernelRecipeAgrees(CheckedOut),
              "pmaports")
    /\ UNCHANGED <<input, guest, pins, images, verdict, session, env>>

\* pmaports is checked out by commit, and gets the project's packages and patch.
PreparePmaports ==
    /\ pc = "pmaports"
    /\ copy' = [copy EXCEPT !["pmaports"] = CheckedOut]
    /\ Refuse(CanCheckOut("pmaports") /\ StageValid(CheckedOut), "compare")
    /\ UNCHANGED <<input, guest, pins, images, verdict, session, env>>

\* The tree the build was given must be that same stage, byte for byte.
ComparePmaports ==
    /\ pc = "compare"
    /\ Refuse(/\ StageValid(input["pmaports"])
              /\ SameTree(input["pmaports"], copy["pmaports"]), "pmbootstrap")
    /\ UNCHANGED <<inputs, guest, pins, images, verdict, session, env>>

\* pmbootstrap's checkout must be clean and at its pinned commit,
CheckPmbootstrap ==
    /\ pc = "pmbootstrap"
    /\ Refuse(AtSealedCommit("pmbootstrap"), "clone")
    /\ UNCHANGED <<inputs, guest, pins, images, verdict, session, env>>

\* which its entry point, filters and status are compared with.
CheckoutIntact(tree) == tree = "pinned"

\* It is then cloned by commit.
\* Mutant: the working tree is copied instead.
CopyPmbootstrap ==
    /\ pc = "clone"
    /\ copy' = [copy EXCEPT !["pmbootstrap"] = input["pmbootstrap"]]
    /\ pc' = "version"
    /\ UNCHANGED <<input, guest, pins, images, verdict, session, env>>
ClonePmbootstrap ==
    /\ pc = "clone"
    /\ copy' = [copy EXCEPT !["pmbootstrap"] = CheckedOut]
    /\ Refuse(CheckoutIntact(CheckedOut), "version")
    /\ UNCHANGED <<input, guest, pins, images, verdict, session, env>>

-----------------------------------------------------------------------------
(* Driving pmbootstrap.  From its first command on, an error goes through  *)
(* the cleanup.                                                            *)

Check(ok, next) == pc' = IF ok THEN next ELSE "cleanup"

\* Commands that may work inside the chroots.
Mounting == {"version", "build", "index", "install1", "install2", "finalize"}
Commands == {"export"} \union Mounting

\* A command that fails or times out may leave the chroots mounted.
CommandFails ==
    /\ pc \in Commands /\ fails < MaxFails
    /\ fails' = fails + 1
    /\ chroot' \in IF pc \in Mounting THEN {chroot, TRUE} ELSE {chroot}
    /\ tried' = FALSE
    /\ pc' = IF pc = "finalize" THEN "shutdown_failed" ELSE "cleanup"
    /\ UNCHANGED <<inputs, guest, pins, images, verdict, finalizer, clean, sealed,
                   policy, changes>>

\* The version and the package checksums are what is pinned.
CheckVersion ==
    /\ pc = "version"
    /\ chroot' \in {chroot, TRUE} /\ tried' = FALSE
    /\ pc' = IF sealed THEN "status" ELSE "build"
    /\ UNCHANGED <<inputs, guest, pins, images, verdict, finalizer, clean, env>>

\* A file named by the source lock is copied from the project's checkout.
LockedFile == copy["project"] = "pinned"

\* What the repository's index says of kernels.
IndexNamesKernel == repo # "no kernel"

\* An index that names the pinned kernel, and is never installed from, keeps
\* pmbootstrap from building one.
StageStatus ==
    /\ pc = "status"
    /\ repo' = "status"
    /\ Check(LockedFile, "build")
    /\ UNCHANGED <<inputs, rootfs, made, pins, images, verdict, session, env>>

BuildPackages ==
    /\ pc = "build"
    /\ chroot' = TRUE /\ tried' = FALSE
    /\ repo' = IF repo = "status" THEN repo ELSE "with kernel"
    /\ pc' = IF sealed THEN "index" ELSE "install1"
    /\ UNCHANGED <<inputs, rootfs, made, pins, images, verdict, finalizer, clean, env>>

\* The index is rebuilt from the packages that are there.
Index ==
    /\ pc = "index"
    /\ repo' = IF repo = "status" THEN "no kernel" ELSE repo
    /\ chroot' \in {chroot, TRUE} /\ tried' = FALSE
    /\ pc' = "kernel"
    /\ UNCHANGED <<inputs, rootfs, made, pins, images, verdict, finalizer, clean, env>>

\* The pinned kernel package and its signer's key join a repository that has
\* no kernel of its own.
StageKernel ==
    /\ pc = "kernel"
    /\ repo' = IF IndexNamesKernel THEN repo ELSE "pinned kernel"
    /\ Check(~ IndexNamesKernel /\ LockedFile, "install1")
    /\ UNCHANGED <<inputs, rootfs, made, pins, images, verdict, session, env>>

\* An install's outcome is pmbootstrap's: its packages, one thing that may be
\* wrong with it, and what it did to the world file's constraints.
Wrong == {"kernel", "keys", "sshd", "ssh", "networkmanager", "unudhcpd"}
Installed(round) ==
    [pkgs : Pkgs, wrong : Wrong \union {None},
     world : {"conflict", "loose", "kernel loose", "pinned"},
     uuid : {round}, identity : {None}]

\* The root file system alone, so that it can be inspected and pinned,
Install1 ==
    /\ pc = "install1"
    /\ rootfs' \in {r \in Installed(1) :
                    r.wrong \in {"kernel", None} /\ r.world \in {"loose", "conflict"}}
    /\ chroot' = TRUE /\ tried' = FALSE
    /\ pc' = "inspect1"
    /\ UNCHANGED <<inputs, repo, made, pins, images, verdict, finalizer, clean, env>>

\* A kernel that is one package's, with exactly the pinned files.
VerifyKernel == rootfs.wrong # "kernel"

\* The required packages and none of the forbidden ones.
PackagePolicy == rootfs.pkgs.allowed

\* The package database, and in it the versions that get pinned.
PackageList == rootfs.pkgs
PinnedVersions == PackageList.ssh

\* Pinning replaces a bare constraint of a package, and no other, by an exact
\* one; that every pinned package has its exact constraint is checked.
CanPin(world) == world # "conflict"
PinWorld(world) == IF CanPin(world) THEN "pinned" ELSE world
PinKernel(world) == IF world = "kernel loose" THEN "pinned" ELSE world
WorldPinned(world) == world = "pinned"

\* The first install decides the versions, which the world file now pins.
Inspect1 ==
    /\ pc = "inspect1"
    /\ pins' = [pins EXCEPT !.ssh = PinnedVersions]
    /\ rootfs' = [rootfs EXCEPT !.world = PinWorld(rootfs.world)]
    /\ Check((sealed => VerifyKernel) /\ PackagePolicy /\ CanPin(rootfs.world), "install2")
    /\ UNCHANGED <<inputs, repo, made, images, verdict, session, env>>

\* and then with an image.  Any one required file may come out wrong, the boot
\* image may be one made before the file systems got their UUIDs, and an
\* optional file may not be there.
Install2 ==
    /\ pc = "install2"
    /\ rootfs' \in {r \in Installed(2) : r.world # "conflict"}
    /\ \E f \in Required, absent \in SUBSET Optional :
       \E x \in Flaw[f] \union {"none", "stale"} :
        made' = [g \in Exported |-> IF g \in absent THEN None ELSE
            [mark |-> 0, serial |-> 0, of |-> 0,
             flaw |-> IF g = f /\ x # "stale" THEN x ELSE "none",
             uuid |-> IF g = "boot" /\ x = "stale" THEN 1 ELSE 2,
             kernel |-> IF rootfs'.wrong = "kernel" THEN "other" ELSE "pinned",
             pkgs |-> rootfs'.pkgs,
             world |-> rootfs'.world, identity |-> None]]
    /\ chroot' = TRUE /\ tried' = FALSE
    /\ pc' = "inspect2"
    /\ UNCHANGED <<inputs, repo, pins, images, verdict, finalizer, clean, env>>

\* The installed services are the packages' files, modes and configuration.
VerifySshdPam == rootfs.wrong # "sshd"
VerifySshClient == rootfs.wrong # "ssh"
VerifyNetworkManager == rootfs.wrong # "networkmanager"
VerifyUnudhcpd == rootfs.wrong # "unudhcpd"
ServicesIntact ==
    VerifySshdPam /\ VerifySshClient /\ VerifyNetworkManager /\ VerifyUnudhcpd

\* The keys packages are trusted by are those of the first install.
KeysUnchanged == rootfs.wrong # "keys"

\* The release identity binds the packages and the file systems' UUIDs.
Identity(pkgs, uuid) == [pkgs |-> pkgs, uuid |-> uuid]

\* Everything is inspected again against the versions of the first install;
\* the package list, world file and identity are taken from what is there now.
\* Mutant: the package list of the first install is kept.
Inspect2StaleList ==
    /\ pc = "inspect2"
    /\ LET world == IF sealed THEN PinKernel(rootfs.world) ELSE rootfs.world
           list == CHOOSE p \in Pkgs : p.allowed /\ p.ssh = pins.ssh
           ok == /\ PinnedVersions = pins.ssh /\ PackagePolicy /\ ServicesIntact
                 /\ sealed => VerifyKernel
                 /\ WorldPinned(world) /\ KeysUnchanged
       IN  /\ rootfs' = [rootfs EXCEPT !.world = world]
           /\ pins' = IF ok THEN [pins EXCEPT !.pkgs = list, !.world = world,
                                    !.identity = Identity(list, rootfs.uuid)]
                            ELSE pins
           /\ Check(ok, "stage")
    /\ UNCHANGED <<inputs, repo, made, images, verdict, session, env>>
Inspect2 ==
    /\ pc = "inspect2"
    /\ LET world == IF sealed THEN PinKernel(rootfs.world) ELSE rootfs.world
           ok == /\ PinnedVersions = pins.ssh /\ PackagePolicy /\ ServicesIntact
                 /\ sealed => VerifyKernel
                 /\ WorldPinned(world) /\ KeysUnchanged
       IN  /\ rootfs' = [rootfs EXCEPT !.world = world]
           /\ pins' = IF ok THEN [pins EXCEPT !.pkgs = PackageList, !.world = world,
                                    !.identity = Identity(PackageList, rootfs.uuid)]
                            ELSE pins
           /\ Check(ok, "stage")
    /\ UNCHANGED <<inputs, repo, made, images, verdict, session, env>>

\* The finalizer and its files are staged where the chroots can see them.  Only
\* when all of them are does the build get to know the directory.
StageFinalizer ==
    /\ pc = "stage"
    /\ finalizer' = "known"
    /\ pc' = "finalize"
    /\ UNCHANGED <<inputs, guest, pins, images, verdict, chroot, clean, tried, env>>

StagingFails ==
    /\ pc = "stage" /\ fails < MaxFails
    /\ fails' = fails + 1
    /\ finalizer' \in {"none", "unknown"}
    /\ pc' = "cleanup"
    /\ UNCHANGED <<inputs, guest, pins, images, verdict, chroot, clean, tried, sealed,
                   policy, changes>>

\* In the mounted image, the finalizer installs the identity, the world file
\* and the service configuration, and prints its marker when all of it holds.
Finalize ==
    /\ pc = "finalize"
    /\ made' = [made EXCEPT !["userdata"].world = pins.world,
                            !["userdata"].identity = pins.identity]
    /\ rootfs' = [rootfs EXCEPT !.identity = pins.identity]
    /\ chroot' = TRUE /\ tried' = FALSE
    /\ pc' = "shutdown"
    /\ UNCHANGED <<inputs, repo, pins, images, verdict, finalizer, clean, env>>

\* The chroots are shut down whether or not the finalizer succeeded;
Shutdown ==
    /\ pc \in {"shutdown", "shutdown_failed"}
    /\ chroot' = FALSE /\ clean' = TRUE /\ tried' = TRUE
    /\ pc' = IF pc = "shutdown" THEN "unstage" ELSE "cleanup"
    /\ UNCHANGED <<inputs, guest, pins, images, verdict, finalizer, env>>

ShutdownFails ==
    /\ pc \in {"shutdown", "shutdown_failed"} /\ fails < MaxFails
    /\ fails' = fails + 1
    /\ tried' = TRUE
    /\ pc' = "cleanup"
    /\ UNCHANGED <<inputs, guest, pins, images, verdict, chroot, finalizer, clean,
                   sealed, policy, changes>>

\* only then is its staging directory removed.
Unstage ==
    /\ pc = "unstage"
    /\ finalizer' = "none"
    /\ pc' = "export"
    /\ UNCHANGED <<inputs, guest, pins, images, verdict, chroot, clean, tried, env>>

UnstageFails ==
    /\ pc = "unstage" /\ fails < MaxFails
    /\ fails' = fails + 1
    /\ finalizer' = "stuck"
    /\ pc' = "cleanup"
    /\ UNCHANGED <<inputs, guest, pins, images, verdict, chroot, clean, tried, sealed,
                   policy, changes>>

\* Into an empty directory, pmbootstrap exports links; the checkout it ran
\* from must still be the pinned one.
Export ==
    /\ pc = "export"
    /\ Check(~ stray /\ CheckoutIntact(copy["pmbootstrap"]), "open")
    /\ UNCHANGED <<inputs, guest, pins, images, verdict, session, env>>

-----------------------------------------------------------------------------
(* From links to files.                                                    *)

\* The directory holds exactly the expected files.
InventoryExact == ~ stray

\* A link's target is one regular file inside the candidate; its identity is
\* that of the open file.
Target(f) == IF made[f] = None THEN None ELSE made[f].mark

\* Exactly the expected links lead to the expected targets, which are opened.
OpenExports ==
    /\ pc = "open"
    /\ opened' = [f \in Exported |-> Target(f)]
    /\ Check(InventoryExact, "materialize")
    /\ UNCHANGED <<inputs, guest, pins, export, stray, verdict, session, env>>

\* The link of an optional image may dangle, and is then dropped.
Dangling(f) == f \in Optional /\ opened[f] = None

\* One after the other, a link is replaced by a copy of its target, if the
\* target is, before and after the copy, the file that was opened.
Preceding(f) ==
    CASE f = "boot" -> {}
      [] f = "dtbo" -> {"boot"}
      [] f = "userdata" -> {"boot", "dtbo"}
      [] f = "vmlinuz" -> {"boot", "dtbo", "userdata"}
      [] f = "initramfs" -> {"boot", "dtbo", "userdata", "vmlinuz"}
      [] OTHER -> Exported \ {"dtb"}

Materialize(f) ==
    /\ pc = "materialize" /\ export[f] = None /\ ~ Dangling(f)
    /\ \A g \in Preceding(f) : export[g] # None \/ Dangling(g)
    /\ export' = IF Target(f) = opened[f] THEN [export EXCEPT ![f] = made[f]]
                                               ELSE export
    /\ Check(Target(f) = opened[f],
             IF f = "dtb" THEN "read" ELSE "materialize")
    /\ UNCHANGED <<inputs, guest, pins, opened, stray, verdict, session, env>>

-----------------------------------------------------------------------------
(* The semantic report.                                                    *)

\* The files are read in this order, each unchanged while it is read.
Earlier(f) ==
    CASE f = "vmlinuz" -> {}
      [] f = "initramfs" -> {"vmlinuz"}
      [] f = "dtb" -> {"vmlinuz", "initramfs"}
      [] f = "boot" -> Component
      [] OTHER -> Component \union {"boot"}

ReadImage(f) ==
    /\ pc = "read" /\ report[f] = None
    /\ \A g \in Earlier(f) : report[g] # None
    /\ report' = [report EXCEPT ![f] = export[f]]
    /\ pc' = IF f = "userdata" THEN "judge" ELSE "read"
    /\ UNCHANGED <<inputs, guest, pins, images, notes, logged, frozen, manifest,
                   session, env>>

\* The boot image's header is canonical and embeds the exported components.
ValidateBoot(b) ==
    /\ b.flaw # "header"
    /\ \A c \in Component : report[c].serial = b.of

\* Its command line carries the UUIDs of the root file system's fstab.
ValidateCmdline(b) == b.flaw # "cmdline" /\ b.uuid = rootfs.uuid

\* The kernel is the pinned one.
ValidateArm64Image(k) == k.flaw # "kernel" /\ k.kernel = "pinned"

\* The device tree is complete and the selected one.
ValidateFdt(d) == d.flaw # "tree"

\* The initramfs has the committed inventory.
ParseNewc(i) == i.flaw # "archive"

\* One protective MBR and two equal GPTs with the expected two partitions,
ParsePartitions(u) == u.flaw # "partition"

\* which hold clean file systems with the UUIDs of the command line,
ValidateSuperblock(u) == u.flaw # "superblock" /\ u.uuid = report["boot"].uuid

\* as the pinned e2fsck finds,
FilesystemClean(u) == u.flaw # "unclean"

\* whose files are, byte for byte, those of the trusted root file system,
ExtractedAsTrusted(u) == u.flaw # "content" /\ u.identity = rootfs.identity

\* with the expected directories, links and absences around them,
LayoutAsExpected(u) == u.flaw # "layout"

\* let in the owner's key only,
ValidateSshPolicy(u) == u.flaw # "ssh"

\* are configured for the USB network and nothing else,
ValidateManagementPolicy(u) == u.flaw # "management"

\* have the one locked-down account,
ValidateAccountPolicy(u) == u.flaw # "account"

\* and come from the packages the root file system lists.
ValidatePackagePolicy(u) ==
    u.flaw # "package" /\ u.pkgs = rootfs.pkgs /\ u.pkgs.allowed

ValidateRootfsFiles(u) ==
    /\ ExtractedAsTrusted(u) /\ LayoutAsExpected(u)
    /\ ValidateSshPolicy(u) /\ ValidateManagementPolicy(u)
    /\ ValidateAccountPolicy(u) /\ ValidatePackagePolicy(u)

ValidateUserdata(u) ==
    /\ ParsePartitions(u) /\ ValidateSuperblock(u) /\ FilesystemClean(u)
    /\ ValidateRootfsFiles(u)

\* The files pass together.
Judge ==
    /\ pc = "judge"
    /\ Check(/\ ValidateBoot(report["boot"]) /\ ValidateCmdline(report["boot"])
             /\ ValidateArm64Image(report["vmlinuz"]) /\ ParseNewc(report["initramfs"])
             /\ ValidateFdt(report["dtb"]) /\ ValidateUserdata(report["userdata"]),
             "recheck")
    /\ UNCHANGED <<inputs, guest, pins, images, verdict, session, env>>

\* All that was read is read again: identity and bytes.
RecheckInputs ==
    /\ pc = "recheck"
    /\ Check(\A f \in Required : export[f] = report[f], "notes")
    /\ UNCHANGED <<inputs, guest, pins, images, verdict, session, env>>

-----------------------------------------------------------------------------
(* Publication.                                                            *)

\* The text files are written, and then the log with every file's digest.
WriteNotes ==
    /\ pc = "notes"
    /\ notes' = [pkgs |-> pins.pkgs, world |-> pins.world, identity |-> pins.identity]
    /\ logged' = Digests(export)
    /\ pc' = "freeze"
    /\ UNCHANGED <<inputs, guest, pins, images, report, frozen, manifest, session, env>>

\* The files become read-only,
FreezeFiles ==
    /\ pc = "freeze"
    /\ frozen' = "files"
    /\ pc' = "bind"
    /\ UNCHANGED <<inputs, guest, pins, images, report, notes, logged, manifest,
                   session, env>>

\* and the inspected images must have the digests of the report.
\* Mutant: they are taken from the files themselves.
BindToItself ==
    /\ pc = "bind"
    /\ Check(export["vmlinuz"].kernel = "pinned", "manifest")
    /\ UNCHANGED <<inputs, guest, pins, images, verdict, session, env>>
BindToReport ==
    /\ pc = "bind"
    /\ Check(/\ \A f \in Required : Digest(export[f]) = Digest(report[f])
             /\ export["vmlinuz"].kernel = "pinned", "manifest")
    /\ UNCHANGED <<inputs, guest, pins, images, verdict, session, env>>

\* The manifest lists exactly the files of the directory.
WriteManifest ==
    /\ pc = "manifest"
    /\ manifest' = [images |-> Digests(export), notes |-> notes]
    /\ Check(InventoryExact, "directories")
    /\ UNCHANGED <<inputs, guest, pins, images, report, notes, logged, frozen,
                   session, env>>

\* The directories become read-only,
FreezeDirectories ==
    /\ pc = "directories"
    /\ frozen' = "all"
    /\ pc' = "revalidate"
    /\ UNCHANGED <<inputs, guest, pins, images, report, notes, logged, manifest,
                   session, env>>

\* What the manifest says is what is there, and nothing else.
\* Mutant: the directory is not listed again.
ManifestFilesHold == manifest.images = Digests(export) /\ manifest.notes = notes
ManifestHolds ==
    manifest.images = Digests(export) /\ manifest.notes = notes /\ InventoryExact

Revalidate ==
    /\ pc = "revalidate"
    /\ Check(ManifestHolds /\ frozen = "all", IF sealed THEN "gate" ELSE "returned")
    /\ UNCHANGED <<inputs, guest, pins, images, verdict, session, env>>

\* A sealed result is returned if its policy is active before and after the
\* manifest is validated again.
Gate ==
    /\ pc = "gate"
    /\ Refuse(policy /\ ManifestHolds /\ frozen = "all", "return")
    /\ UNCHANGED <<inputs, guest, pins, images, verdict, session, env>>

Return ==
    /\ pc = "return"
    /\ Refuse(policy, "returned")
    /\ UNCHANGED <<inputs, guest, pins, images, verdict, session, env>>

-----------------------------------------------------------------------------
(* The way out of a failed build.                                          *)

\* Chroots that were not shut down are, and the finalizer's directory is removed
\* where the build knows it.  Each of the two may fail.
\* Mutant: the chroots are shut down only when the build itself had no error.
RemoveStaged(failed) ==
    finalizer' = CASE finalizer \in {"none", "unknown"} -> finalizer
                   [] "rmtree" \in failed -> "stuck"
                   [] OTHER -> "none"

CleanUpOnSuccess ==
    /\ pc = "cleanup"
    /\ RemoveStaged({})
    /\ pc' = "failed"
    /\ UNCHANGED <<inputs, guest, pins, images, verdict, chroot, clean, tried, env>>
CleanUp ==
    /\ pc = "cleanup"
    /\ \E failed \in SUBSET {"shutdown", "rmtree"} :
          /\ "shutdown" \in failed => ~ clean
          /\ "rmtree" \in failed => finalizer \in {"known", "stuck"}
          /\ fails + Cardinality(failed) <= MaxFails
          /\ fails' = fails + Cardinality(failed)
          /\ IF clean \/ "shutdown" \in failed
             THEN UNCHANGED <<chroot, clean>> ELSE chroot' = FALSE /\ clean' = TRUE
          /\ RemoveStaged(failed)
    /\ tried' = (tried \/ ~ clean)
    /\ pc' = "failed"
    /\ UNCHANGED <<inputs, guest, pins, images, verdict, sealed, policy, changes>>

-----------------------------------------------------------------------------
(* Changes behind the build's back.                                        *)

Change == changes < MaxChanges /\ changes' = changes + 1

\* The owner edits an input, or undoes the edit, while the build may still
\* read it.
Unread ==
    CASE pc = "start" -> IF sealed THEN Input ELSE Tree
      [] pc \in {"seed", "copy"} -> Member
      [] pc \in {"pmaports", "compare"} -> {"pmaports"}
      [] pc \in {"pmbootstrap", "clone"} -> {"pmbootstrap"}
      [] OTHER -> {}

EditInput ==
    /\ changes < MaxEdits /\ changes' = changes + 1
    /\ \E x \in Unread :
         \E c \in {"pinned", "edited"} \union (IF x \in Tree THEN {"moved"} ELSE {}) :
            c # input[x] /\ input' = [input EXCEPT ![x] = c]
    /\ UNCHANGED <<pc, copy, guest, pins, images, verdict, session, sealed, policy,
                   fails>>

\* A file of the chroots or of the export directory changes until it is
\* read-only; the result may still look sound.
Altered(f, file) == {[file EXCEPT !.mark = changes + 1, !.serial = changes + 1, !.flaw = x] :
    x \in {"none"} \union {y \in Flaw[f] : y = CHOOSE z \in Flaw[f] : TRUE}}

\* Or the bytes it was made with, or inspected with, come back.
Restored(f) == {[file EXCEPT !.mark = changes + 1] : file \in {made[f], report[f]} \ {None}}

ChangeMade ==
    /\ pc \in {"open", "materialize"} /\ Change
    /\ \E f \in Exported : export[f] = None /\ made[f] # None /\
            \E file \in Altered(f, made[f]) : made' = [made EXCEPT ![f] = file]
    /\ UNCHANGED <<pc, inputs, repo, rootfs, pins, images, verdict, session, sealed,
                   policy, fails>>

ChangeExport ==
    /\ pc \in {"materialize", "read", "judge", "recheck", "notes", "freeze"} /\ Change
    /\ \E f \in Exported : export[f] # None /\
            \E file \in Altered(f, export[f]) \union Restored(f) :
                export' = [export EXCEPT ![f] = file]
    /\ UNCHANGED <<pc, inputs, guest, pins, opened, stray, verdict, session, sealed,
                   policy, fails>>

\* An unexpected file appears while the directory can be written.
Litter ==
    /\ pc \in {"export", "open", "materialize", "notes", "manifest", "directories"}
    /\ ~ stray /\ Change
    /\ stray' = TRUE
    /\ UNCHANGED <<pc, inputs, guest, pins, opened, export, verdict, session, sealed,
                   policy, fails>>

\* An administrator activates another policy.
ChangePolicy ==
    /\ sealed /\ policy /\ pc \in {"revalidate", "gate", "return"} /\ Change
    /\ policy' = FALSE
    /\ UNCHANGED <<pc, inputs, guest, pins, images, verdict, session, sealed, fails>>

-----------------------------------------------------------------------------

Init ==
    /\ pc = "start"
    /\ sealed \in BOOLEAN
    /\ input = [x \in Input |-> "pinned"] /\ copy = [x \in Input |-> None]
    /\ repo = "empty"
    /\ rootfs = None
    /\ pins = [ssh |-> None, pkgs |-> None, world |-> None, identity |-> None]
    /\ made = NoFiles /\ opened = NoFiles /\ export = NoFiles /\ stray = FALSE
    /\ report = NoFiles /\ notes = None /\ logged = NoFiles
    /\ frozen = "no" /\ manifest = None
    /\ policy = TRUE
    /\ chroot = FALSE /\ finalizer = "none" /\ clean = FALSE /\ tried = FALSE
    /\ changes = 0 /\ fails = 0

Copies ==
    \/ Authorize \/ BeginSeed \/ VerifySeed \/ CheckoutProject \/ PreparePmaports
    \/ ComparePmaports \/ CheckPmbootstrap \/ ClonePmbootstrap
    \/ \E m \in Member : SeedMember(m)

Drive ==
    \/ CheckVersion \/ StageStatus \/ BuildPackages \/ Index \/ StageKernel
    \/ Install1 \/ Inspect1 \/ Install2 \/ Inspect2 \/ StageFinalizer
    \/ Finalize \/ Shutdown \/ Unstage \/ Export

Publish ==
    \/ OpenExports \/ \E f \in Exported : Materialize(f)
    \/ \E f \in Required : ReadImage(f)
    \/ Judge \/ RecheckInputs \/ WriteNotes \/ FreezeFiles \/ BindToReport
    \/ WriteManifest \/ FreezeDirectories \/ Revalidate \/ Gate \/ Return

Build == Copies \/ Drive \/ Publish \/ CleanUp
Failures == CommandFails \/ StagingFails \/ ShutdownFails \/ UnstageFails
Outside == EditInput \/ ChangeMade \/ ChangeExport \/ Litter \/ ChangePolicy

Next == Build \/ Failures \/ Outside

Spec == Init /\ [][Next]_vars

-----------------------------------------------------------------------------
(* Properties.                                                             *)

\* From the first pmbootstrap command on, a build works from private copies
\* that are exactly the pinned inputs, though these may be edited, and edited
\* back, while they are copied.
CopiesArePinned ==
    pc \notin {"start", "seed", "copy", "checkout", "pmaports", "compare",
               "pmbootstrap", "clone", "failed"} =>
        /\ \A t \in Tree : copy[t] = "pinned"
        /\ sealed => \A m \in Member : copy[m] = "pinned"

\* The required images of a returned result have the bytes that were inspected
\* together and found sound, with the pinned kernel, whatever changed, and
\* changed back, between inspection and freeze; and the manifest says what is
\* there, the images nobody inspects included.  The log may name other bytes, but
\* only of a file whose identity is no longer the one in the report.
ReturnedIsInspected ==
    pc = "returned" =>
        /\ \A f \in Exported : manifest.images[f] = Digest(export[f])
        /\ \A f \in Required :
              /\ manifest.images[f] = Digest(report[f]) /\ report[f].flaw = "none"
              /\ export[f].mark = report[f].mark => logged[f] = Digest(report[f])
        /\ \A c \in Component : report[c].serial = report["boot"].of
        /\ report["boot"].uuid = report["userdata"].uuid
        /\ report["vmlinuz"].kernel = "pinned"

\* The text files published beside the image describe that image, not an
\* earlier state of the root file system.
NotesDescribeImage ==
    pc = "returned" =>
        /\ manifest.notes.pkgs = report["userdata"].pkgs
        /\ manifest.notes.world = report["userdata"].world
        /\ manifest.notes.identity = report["userdata"].identity
        /\ manifest.notes.identity.pkgs = manifest.notes.pkgs
        /\ manifest.notes.identity.uuid = report["boot"].uuid

\* Nothing but the listed files is in a published directory.
NothingUnlisted == pc = "returned" => ~ stray

\* However a build ends, the chroots are down unless shutting them down was tried
\* after everything else and failed, and the finalizer's directory is gone unless
\* removing it was tried and failed, or staging it broke off half-way; a build
\* that returns leaves neither.
LeavesNothingMounted ==
    /\ pc = "failed" => (chroot => tried) /\ finalizer # "known"
    /\ pc = "returned" => ~ chroot /\ finalizer = "none"

=============================================================================
