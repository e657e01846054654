------------------------- MODULE SealedBuildProofs -------------------------
(***************************************************************************)
(* What a build guarantees for every cache, every package set and every    *)
(* number of edits, changes and failing commands.  The steps of a build    *)
(* are a line with two ways out, so every invariant says what holds from   *)
(* some step on; the sets below name those stretches.                      *)
(***************************************************************************)
EXTENDS SealedBuild, TLAPS

\* The steps that publish, in order.
Published == {"gate", "return", "returned"}
Listed == {"directories", "revalidate"} \union Published
Bound == {"manifest"} \union Listed
Noted == {"freeze", "bind"} \union Bound
Judged == {"recheck", "notes"} \union Noted
Exporting == {"export", "open", "materialize", "read", "judge"} \union Judged

\* The steps that drive pmbootstrap.
Finalized == {"shutdown", "unstage"} \union Exporting
Inspected == {"stage", "finalize"} \union Finalized
Imaged == {"inspect2"} \union Inspected
Driven == {"status", "build", "index", "kernel", "install1", "inspect1", "install2"}
          \union Imaged

\* The steps that copy.
Cloned == {"version"} \union Driven
Staged == {"compare", "pmbootstrap", "clone"} \union Cloned
Seeded == {"checkout", "pmaports"} \union Staged
Aside == {"shutdown_failed", "cleanup", "failed"}
Steps == {"start", "seed", "copy"} \union Seeded \union Aside

PcInv == pc \in Steps

-----------------------------------------------------------------------------
(* Chroots and staging directory.                                          *)

\* Nothing is mounted before the first command and after the shutdown, which
\* alone sets clean_shutdown; nothing is staged when the export begins, and what
\* the build knows to be staged is gone or was tried to be removed at its end.
MountInv ==
    /\ PcInv
    /\ pc \notin Driven \union Aside => ~ chroot /\ finalizer = "none"
    /\ pc \in Exporting => ~ chroot /\ finalizer = "none"
    /\ pc \notin {"unstage"} \union Exporting \union Aside => ~ clean
    /\ pc = "shutdown_failed" => ~ clean
    /\ pc = "unstage" => ~ chroot
    /\ clean => ~ chroot
    /\ pc = "failed" => (chroot => tried) /\ finalizer # "known"

USE DEF PcInv, Steps, Aside, Seeded, Staged, Cloned, Driven, Imaged, Inspected, Finalized,
        Exporting, Judged, Noted, Bound, Listed, Published

LEMMA MountInit == Init => MountInv
BY DEF Init, MountInv

LEMMA MountCopies == MountInv /\ Copies => MountInv'
<1> SUFFICES ASSUME MountInv, Copies PROVE MountInv'
  OBVIOUS
<1>1. CASE Authorize
  BY <1>1 DEF MountInv, Authorize, Refuse, session
<1>2. CASE BeginSeed
  BY <1>2 DEF MountInv, BeginSeed, Refuse, session
<1>3. CASE VerifySeed
  BY <1>3 DEF MountInv, VerifySeed, Refuse, session
<1>4. CASE CheckoutProject
  BY <1>4 DEF MountInv, CheckoutProject, Refuse, session
<1>5. CASE PreparePmaports
  BY <1>5 DEF MountInv, PreparePmaports, Refuse, session
<1>6. CASE ComparePmaports
  BY <1>6 DEF MountInv, ComparePmaports, Refuse, session
<1>7. CASE CheckPmbootstrap
  BY <1>7 DEF MountInv, CheckPmbootstrap, Refuse, session
<1>8. CASE ClonePmbootstrap
  BY <1>8 DEF MountInv, ClonePmbootstrap, Refuse, session
<1>9. CASE \E m \in Member : SeedMember(m)
  BY <1>9 DEF MountInv, SeedMember, Refuse, session
<1> QED BY <1>1, <1>2, <1>3, <1>4, <1>5, <1>6, <1>7, <1>8, <1>9 DEF Copies

LEMMA MountDrive == MountInv /\ Drive => MountInv'
<1> SUFFICES ASSUME MountInv, Drive PROVE MountInv'
  OBVIOUS
<1>1. CASE CheckVersion
  BY <1>1 DEF MountInv, CheckVersion, Check, session
<1>2. CASE StageStatus
  BY <1>2 DEF MountInv, StageStatus, Check, session
<1>3. CASE BuildPackages
  BY <1>3 DEF MountInv, BuildPackages, Check, session
<1>4. CASE Index
  BY <1>4 DEF MountInv, Index, Check, session
<1>5. CASE StageKernel
  BY <1>5 DEF MountInv, StageKernel, Check, session
<1>6. CASE Install1
  BY <1>6 DEF MountInv, Install1, Check, session
<1>7. CASE Inspect1
  BY <1>7 DEF MountInv, Inspect1, Check, session
<1>8. CASE Install2
  BY <1>8 DEF MountInv, Install2, Check, session
<1>9. CASE Inspect2
  BY <1>9 DEF MountInv, Inspect2, Check, session
<1>10. CASE StageFinalizer
  BY <1>10 DEF MountInv, StageFinalizer, Check, session
<1>11. CASE Finalize
  BY <1>11 DEF MountInv, Finalize, Check, session
<1>12. CASE Shutdown
  BY <1>12 DEF MountInv, Shutdown, Check, session
<1>13. CASE Unstage
  BY <1>13 DEF MountInv, Unstage, session
<1>14. CASE Export
  BY <1>14 DEF MountInv, Export, Check, session
<1> QED BY <1>1, <1>2, <1>3, <1>4, <1>5, <1>6, <1>7, <1>8, <1>9, <1>10, <1>11, <1>12,
   <1>13, <1>14 DEF Drive

LEMMA MountPublish == MountInv /\ Publish => MountInv'
<1> SUFFICES ASSUME MountInv, Publish PROVE MountInv'
  OBVIOUS
<1>1. CASE OpenExports
  BY <1>1 DEF MountInv, OpenExports, Check, session
<1>2. CASE Judge
  BY <1>2 DEF MountInv, Judge, Check, session
<1>3. CASE RecheckInputs
  BY <1>3 DEF MountInv, RecheckInputs, Check, session
<1>4. CASE WriteNotes
  BY <1>4 DEF MountInv, WriteNotes, Check, session
<1>5. CASE FreezeFiles
  BY <1>5 DEF MountInv, FreezeFiles, Check, session
<1>6. CASE BindToReport
  BY <1>6 DEF MountInv, BindToReport, Check, session
<1>7. CASE WriteManifest
  BY <1>7 DEF MountInv, WriteManifest, Check, session
<1>8. CASE FreezeDirectories
  BY <1>8 DEF MountInv, FreezeDirectories, Check, session
<1>9. CASE Revalidate
  BY <1>9 DEF MountInv, Revalidate, Check, session
<1>10. CASE Gate
  BY <1>10 DEF MountInv, Gate, Refuse, session
<1>11. CASE Return
  BY <1>11 DEF MountInv, Return, Refuse, session
<1>12. CASE \E f \in Exported : Materialize(f)
  BY <1>12 DEF MountInv, Materialize, Check, session
<1>13. CASE \E f \in Required : ReadImage(f)
  BY <1>13 DEF MountInv, ReadImage, Check, session
<1> QED BY <1>1, <1>2, <1>3, <1>4, <1>5, <1>6, <1>7, <1>8, <1>9, <1>10, <1>11, <1>12,
   <1>13 DEF Publish

LEMMA MountEnds == MountInv /\ (CleanUp \/ Failures) => MountInv'
<1> SUFFICES ASSUME MountInv, (CleanUp \/ Failures) PROVE MountInv'
  OBVIOUS
<1>1. CASE CleanUp
  <2>1. PICK failed \in SUBSET {"shutdown", "rmtree"} :
          /\ IF clean \/ "shutdown" \in failed
             THEN UNCHANGED <<chroot, clean>> ELSE chroot' = FALSE /\ clean' = TRUE
          /\ RemoveStaged(failed)
    BY <1>1 DEF CleanUp
  <2>2. pc = "cleanup" /\ pc' = "failed" /\ tried' = (tried \/ ~ clean)
    BY <1>1 DEF CleanUp
  <2>3. finalizer' # "known"
    BY <2>1 DEF RemoveStaged
  <2>4. chroot' => tried'
    BY <2>1, <2>2 DEF MountInv
  <2>5. clean' => ~ chroot'
    BY <2>1 DEF MountInv
  <2> QED BY <2>2, <2>3, <2>4, <2>5 DEF MountInv
<1>2. CASE CommandFails
  BY <1>2 DEF MountInv, CommandFails, Commands, Mounting, session
<1>3. CASE StagingFails
  BY <1>3 DEF MountInv, StagingFails, session
<1>4. CASE ShutdownFails
  BY <1>4 DEF MountInv, ShutdownFails, session
<1>5. CASE UnstageFails
  BY <1>5 DEF MountInv, UnstageFails, session
<1> QED BY <1>1, <1>2, <1>3, <1>4, <1>5 DEF Failures

LEMMA MountOutside == MountInv /\ (Outside \/ UNCHANGED vars) => MountInv'
BY DEF MountInv, Outside, EditInput, ChangeMade, ChangeExport, Litter, ChangePolicy,
       session, vars

LEMMA MountStep == MountInv /\ [Next]_vars => MountInv'
BY MountCopies, MountDrive, MountPublish, MountEnds, MountOutside DEF Next, Build

\* However a build ends, at whatever command and with whatever else failing,
\* the chroots are down, unless the last thing it did was to try; and the
\* finalizer's directory is gone, unless removing it failed or staging it broke
\* off before the build knew it (the finally block of _build_candidate).
THEOREM ChrootsComeDown == Spec => []LeavesNothingMounted
<1>1. MountInv => LeavesNothingMounted
  BY DEF MountInv, LeavesNothingMounted
<1> QED BY <1>1, MountInit, MountStep, PTL DEF Spec
-----------------------------------------------------------------------------
(* The copies.                                                             *)

\* From here on nothing is copied any more.
Driving == Cloned \union {"shutdown_failed", "cleanup"}

\* What is copied, and compared with its pin, stays; a copy that is not the
\* pinned one does not get past the step that made or checked it.
CopyInv ==
    /\ PcInv
    /\ input \in [Input -> {"pinned", "edited", "moved"}]
    /\ copy \in [Input -> {"pinned", "edited", "moved", None}]
    /\ pc \in Seeded \union Driving => (sealed => \A m \in Member : copy[m] = "pinned")
    /\ pc \in {"pmaports"} \union Staged \union Driving => copy["project"] = "pinned"
    /\ pc \in Staged \union Driving => copy["pmaports"] = "pinned"
    /\ pc \in Driving => copy["pmbootstrap"] = "pinned"

USE DEF Driving

LEMMA CopyInit == Init => CopyInv
BY DEF Init, CopyInv

DrivesOn ==
    /\ pc \in Driving /\ pc' \in Driving \union {"failed"}
    /\ UNCHANGED <<input, copy, sealed>>

\* The build commands, the publication and the way out read the copies only.
LEMMA DriveMoves == Drive => DrivesOn
<1> SUFFICES ASSUME Drive PROVE DrivesOn
  OBVIOUS
<1>1. CASE CheckVersion
  BY <1>1 DEF DrivesOn, CheckVersion, inputs, env
<1>2. CASE StageStatus
  BY <1>2 DEF DrivesOn, StageStatus, Check, inputs, env
<1>3. CASE BuildPackages
  BY <1>3 DEF DrivesOn, BuildPackages, inputs, env
<1>4. CASE Index
  BY <1>4 DEF DrivesOn, Index, inputs, env
<1>5. CASE StageKernel
  BY <1>5 DEF DrivesOn, StageKernel, Check, inputs, env
<1>6. CASE Install1
  BY <1>6 DEF DrivesOn, Install1, inputs, env
<1>7. CASE Inspect1
  BY <1>7 DEF DrivesOn, Inspect1, Check, inputs, env
<1>8. CASE Install2
  BY <1>8 DEF DrivesOn, Install2, inputs, env
<1>9. CASE Inspect2
  BY <1>9 DEF DrivesOn, Inspect2, Check, inputs, env
<1>10. CASE StageFinalizer
  BY <1>10 DEF DrivesOn, StageFinalizer, inputs, env
<1>11. CASE Finalize
  BY <1>11 DEF DrivesOn, Finalize, inputs, env
<1>12. CASE Shutdown
  BY <1>12 DEF DrivesOn, Shutdown, inputs, env
<1>13. CASE Unstage
  BY <1>13 DEF DrivesOn, Unstage, inputs, env
<1>14. CASE Export
  BY <1>14 DEF DrivesOn, Export, Check, inputs, env
<1> QED BY <1>1, <1>2, <1>3, <1>4, <1>5, <1>6, <1>7, <1>8, <1>9, <1>10, <1>11, <1>12,
   <1>13, <1>14 DEF DrivesOn, Drive

LEMMA PublishMoves == Publish => DrivesOn
<1> SUFFICES ASSUME Publish PROVE DrivesOn
  OBVIOUS
<1>1. CASE OpenExports
  BY <1>1 DEF DrivesOn, OpenExports, Check, inputs, env
<1>2. CASE Judge
  BY <1>2 DEF DrivesOn, Judge, Check, inputs, env
<1>3. CASE RecheckInputs
  BY <1>3 DEF DrivesOn, RecheckInputs, Check, inputs, env
<1>4. CASE WriteNotes
  BY <1>4 DEF DrivesOn, WriteNotes, inputs, env
<1>5. CASE FreezeFiles
  BY <1>5 DEF DrivesOn, FreezeFiles, inputs, env
<1>6. CASE BindToReport
  BY <1>6 DEF DrivesOn, BindToReport, Check, inputs, env
<1>7. CASE WriteManifest
  BY <1>7 DEF DrivesOn, WriteManifest, Check, inputs, env
<1>8. CASE FreezeDirectories
  BY <1>8 DEF DrivesOn, FreezeDirectories, inputs, env
<1>9. CASE Revalidate
  BY <1>9 DEF DrivesOn, Revalidate, Check, inputs, env
<1>10. CASE Gate
  BY <1>10 DEF DrivesOn, Gate, Refuse, inputs, env
<1>11. CASE Return
  BY <1>11 DEF DrivesOn, Return, Refuse, inputs, env
<1>12. CASE \E f \in Exported : Materialize(f)
  BY <1>12 DEF DrivesOn, Materialize, Check, inputs, env
<1>13. CASE \E f \in Required : ReadImage(f)
  BY <1>13 DEF DrivesOn, ReadImage, inputs, env
<1> QED BY <1>1, <1>2, <1>3, <1>4, <1>5, <1>6, <1>7, <1>8, <1>9, <1>10, <1>11, <1>12,
   <1>13 DEF DrivesOn, Publish

LEMMA EndMoves == (CleanUp \/ Failures) => DrivesOn
<1> SUFFICES ASSUME (CleanUp \/ Failures) PROVE DrivesOn
  OBVIOUS
<1>1. CASE CleanUp
  BY <1>1 DEF DrivesOn, CleanUp, inputs, env
<1>2. CASE CommandFails
  BY <1>2 DEF DrivesOn, CommandFails, Commands, Mounting, inputs, env
<1>3. CASE StagingFails
  BY <1>3 DEF DrivesOn, StagingFails, inputs, env
<1>4. CASE ShutdownFails
  BY <1>4 DEF DrivesOn, ShutdownFails, inputs, env
<1>5. CASE UnstageFails
  BY <1>5 DEF DrivesOn, UnstageFails, inputs, env
<1> QED BY <1>1, <1>2, <1>3, <1>4, <1>5 DEF DrivesOn, Failures

LEMMA CopyCopies == CopyInv /\ Copies => CopyInv'
<1> SUFFICES ASSUME CopyInv, Copies PROVE CopyInv'
  OBVIOUS
<1>1. CASE Authorize
  BY <1>1 DEF CopyInv, Authorize, Refuse, env, inputs, Authorized, MemberMatches,
     CheckedOut, Input, Tree
<1>2. CASE BeginSeed
  BY <1>2 DEF CopyInv, BeginSeed, Refuse, env, inputs, Authorized, MemberMatches,
     CheckedOut, Input, Tree
<1>3. CASE VerifySeed
  BY <1>3 DEF CopyInv, VerifySeed, Refuse, env, inputs, Authorized, MemberMatches,
     CheckedOut, Input, Tree
<1>4. CASE CheckoutProject
  BY <1>4 DEF CopyInv, CheckoutProject, Refuse, env, inputs, Authorized,
     MemberMatches, CheckedOut, Input, Tree
<1>5. CASE PreparePmaports
  BY <1>5 DEF CopyInv, PreparePmaports, Refuse, env, inputs, Authorized,
     MemberMatches, CheckedOut, Input, Tree
<1>6. CASE ComparePmaports
  BY <1>6 DEF CopyInv, ComparePmaports, Refuse, env, inputs, Authorized,
     MemberMatches, CheckedOut, Input, Tree
<1>7. CASE CheckPmbootstrap
  BY <1>7 DEF CopyInv, CheckPmbootstrap, Refuse, env, inputs, Authorized,
     MemberMatches, CheckedOut, Input, Tree
<1>8. CASE ClonePmbootstrap
  BY <1>8 DEF CopyInv, ClonePmbootstrap, Refuse, env, inputs, Authorized,
     MemberMatches, CheckedOut, Input, Tree
<1>9. CASE \E m \in Member : SeedMember(m)
  BY <1>9 DEF CopyInv, SeedMember, Refuse, env, inputs, Authorized, MemberMatches,
     CheckedOut, Input, Tree
<1> QED BY <1>1, <1>2, <1>3, <1>4, <1>5, <1>6, <1>7, <1>8, <1>9 DEF Copies

LEMMA CopyStep == CopyInv /\ [Next]_vars => CopyInv'
<1> SUFFICES ASSUME CopyInv, [Next]_vars PROVE CopyInv'
  OBVIOUS
<1>1. CASE Copies
  BY <1>1, CopyCopies
<1>2. CASE Drive \/ Publish \/ CleanUp \/ Failures
  BY <1>2, DriveMoves, PublishMoves, EndMoves DEF CopyInv, DrivesOn
<1>3. CASE EditInput
  BY <1>3 DEF CopyInv, EditInput, Input, Tree
<1>4. CASE ChangeMade \/ ChangeExport \/ Litter \/ ChangePolicy \/ UNCHANGED vars
  BY <1>4 DEF CopyInv, ChangeMade, ChangeExport, Litter, ChangePolicy, inputs, vars
<1> QED BY <1>1, <1>2, <1>3, <1>4 DEF Next, Build, Outside

\* Whatever is edited, and edited back, while the inputs are checked, cloned
\* and copied, pmbootstrap runs on the pinned ones (_seed_verified_offline_cache
\* to _prepare_pmbootstrap).
THEOREM WorksOnPinnedCopies == Spec => []CopiesArePinned
<1>1. CopyInv => CopiesArePinned
  BY DEF CopyInv, CopiesArePinned, Tree
<1> QED BY <1>1, CopyInit, CopyStep, PTL DEF Spec

-----------------------------------------------------------------------------
(* The files of the result.                                                *)

\* Steps at which every image is exported.
Reading == {"read", "judge"} \union Judged

IsFile(f, r) ==
    /\ r = [mark |-> r.mark, serial |-> r.serial, of |-> r.of, flaw |-> r.flaw, uuid |-> r.uuid,
            kernel |-> r.kernel, pkgs |-> r.pkgs, world |-> r.world,
            identity |-> r.identity]
    /\ r.mark \in Nat /\ r.flaw \in {"none"} \union Flaw[f]
IsRoot(r) ==
    r = [pkgs |-> r.pkgs, wrong |-> r.wrong, world |-> r.world, uuid |-> r.uuid,
         identity |-> r.identity]
IsSet(s) == s = [f \in Exported |-> s[f]]

IsOld(f, r) == IsFile(f, r) /\ r.mark <= changes

\* Records have their fields, and no file has a mark from the future: a change
\* is always told from what was read before it.
ShapeInv ==
    /\ PcInv
    /\ changes \in Nat
    /\ pins = [ssh |-> pins.ssh, pkgs |-> pins.pkgs, world |-> pins.world,
               identity |-> pins.identity]
    /\ pc \in {"inspect1", "install2"} \union Imaged => IsRoot(rootfs)
    /\ pc \in Imaged =>
          /\ IsSet(made)
          /\ \A f \in Exported : IsOld(f, made[f]) \/ (f \in Optional /\ made[f] = None)
    /\ IsSet(export) /\ IsSet(report)
    /\ pc \notin {"materialize"} \union Reading \union Aside =>
          \A f \in Exported : export[f] = None
    /\ pc \in {"materialize"} \union Reading => \A f \in Exported :
          \/ export[f] = None /\ (pc = "materialize" \/ f \in Optional)
          \/ IsOld(f, export[f])
    /\ pc \notin Reading \union Aside => \A f \in Exported : report[f] = None
    /\ pc \in Reading => \A f \in Exported :
          \/ report[f] = None /\ (pc = "read" \/ f \in Optional)
          \/ IsOld(f, report[f])

USE DEF Reading, IsRoot, IsSet, IsOld, Exported, Required, Optional, Component

\* What a change does to a file.
LEMMA AlteredFile ==
    ASSUME NEW f \in Exported, NEW r, NEW file \in Altered(f, r), IsFile(f, r),
           changes \in Nat
    PROVE /\ IsFile(f, file) /\ file.mark = changes + 1
          /\ file.pkgs = r.pkgs /\ file.world = r.world
          /\ file.identity = r.identity
<1>1. PICK x \in {"none"} \union Flaw[f] :
        file = [r EXCEPT !.mark = changes + 1, !.serial = changes + 1, !.flaw = x]
  BY DEF Altered
<1>2. file = [mark |-> changes + 1, serial |-> changes + 1, of |-> r.of, flaw |-> x,
              uuid |-> r.uuid, kernel |-> r.kernel, pkgs |-> r.pkgs, world |-> r.world,
              identity |-> r.identity]
  BY <1>1 DEF IsFile
<1> QED BY <1>2 DEF IsFile

LEMMA RestoredFile ==
    ASSUME NEW f \in Exported, NEW file \in Restored(f), changes \in Nat,
           made[f] = None \/ IsFile(f, made[f]), report[f] = None \/ IsFile(f, report[f])
    PROVE /\ IsFile(f, file) /\ file.mark = changes + 1
          /\ \E r \in {made[f], report[f]} \ {None} : file.world = r.world
<1>1. PICK r \in {made[f], report[f]} \ {None} : file = [r EXCEPT !.mark = changes + 1]
  BY DEF Restored
<1>2. IsFile(f, r)
  BY <1>1
<1>3. file = [mark |-> changes + 1, serial |-> r.serial, of |-> r.of, flaw |-> r.flaw,
              uuid |-> r.uuid, kernel |-> r.kernel, pkgs |-> r.pkgs, world |-> r.world,
              identity |-> r.identity]
  BY <1>1, <1>2 DEF IsFile
<1>4. IsFile(f, file) /\ file.mark = changes + 1 /\ file.world = r.world
  BY <1>2, <1>3 DEF IsFile
<1> QED BY <1>1, <1>4

LEMMA ShapeInit == Init => ShapeInv
BY DEF Init, ShapeInv, NoFiles

LEMMA ShapeCopies == ShapeInv /\ Copies => ShapeInv'
<1> SUFFICES ASSUME ShapeInv, Copies PROVE ShapeInv'
  OBVIOUS
<1>1. CASE Authorize
  BY <1>1 DEF ShapeInv, Authorize, Refuse, guest, images, verdict, env
<1>2. CASE BeginSeed
  BY <1>2 DEF ShapeInv, BeginSeed, Refuse, guest, images, verdict, env
<1>3. CASE VerifySeed
  BY <1>3 DEF ShapeInv, VerifySeed, Refuse, guest, images, verdict, env
<1>4. CASE CheckoutProject
  BY <1>4 DEF ShapeInv, CheckoutProject, Refuse, guest, images, verdict, env
<1>5. CASE PreparePmaports
  BY <1>5 DEF ShapeInv, PreparePmaports, Refuse, guest, images, verdict, env
<1>6. CASE ComparePmaports
  BY <1>6 DEF ShapeInv, ComparePmaports, Refuse, guest, images, verdict, env
<1>7. CASE CheckPmbootstrap
  BY <1>7 DEF ShapeInv, CheckPmbootstrap, Refuse, guest, images, verdict, env
<1>8. CASE ClonePmbootstrap
  BY <1>8 DEF ShapeInv, ClonePmbootstrap, Refuse, guest, images, verdict, env
<1>9. CASE \E m \in Member : SeedMember(m)
  BY <1>9 DEF ShapeInv, SeedMember, Refuse, guest, images, verdict, env
<1> QED BY <1>1, <1>2, <1>3, <1>4, <1>5, <1>6, <1>7, <1>8, <1>9 DEF Copies

LEMMA ShapeDrive == ShapeInv /\ Drive => ShapeInv'
<1> SUFFICES ASSUME ShapeInv, Drive PROVE ShapeInv'
  OBVIOUS
<1>1. CASE CheckVersion
  BY <1>1 DEF ShapeInv, CheckVersion, guest, images, verdict, env
<1>2. CASE StageStatus
  BY <1>2 DEF ShapeInv, StageStatus, Check, guest, images, verdict, env
<1>3. CASE BuildPackages
  BY <1>3 DEF ShapeInv, BuildPackages, guest, images, verdict, env
<1>4. CASE Index
  BY <1>4 DEF ShapeInv, Index, guest, images, verdict, env
<1>5. CASE StageKernel
  BY <1>5 DEF ShapeInv, StageKernel, Check, guest, images, verdict, env
<1>6. CASE Install1
  BY <1>6 DEF ShapeInv, Install1, Installed, IsFile, images, verdict, env
<1>7. CASE Inspect1
  BY <1>7 DEF ShapeInv, Inspect1, Check, guest, images, verdict, env
<1>8. CASE Install2
  <2>1. pc = "install2" /\ pc' = "inspect2" /\ UNCHANGED <<pins, export, report, changes>>
    BY <1>8 DEF Install2, images, verdict, env
  <2>2. IsRoot(rootfs')
    BY <1>8 DEF Install2, Installed
  <2>3. PICK f \in Required, absent \in SUBSET Optional :
         \E x \in Flaw[f] \union {"none", "stale"} :
           made' = [g \in Exported |-> IF g \in absent THEN None ELSE
            [mark |-> 0, serial |-> 0, of |-> 0,
             flaw |-> IF g = f /\ x # "stale" THEN x ELSE "none",
             uuid |-> IF g = "boot" /\ x = "stale" THEN 1 ELSE 2,
             kernel |-> IF rootfs'.wrong = "kernel" THEN "other" ELSE "pinned",
             pkgs |-> rootfs'.pkgs,
             world |-> rootfs'.world, identity |-> None]]
    BY <1>8 DEF Install2
  <2>4. IsSet(made') /\ \A g \in Exported :
           \/ IsFile(g, made'[g]) /\ made'[g].mark = 0
           \/ (g \in Optional /\ made'[g] = None)
    BY <2>3 DEF IsFile
  <2>5. \A g \in Exported : IsOld(g, made[g])' \/ (g \in Optional /\ made'[g] = None)
    <3>1. changes' \in Nat
      BY <2>1 DEF ShapeInv
    <3> QED BY <3>1, <2>4
  <2>6. /\ IsSet(export') /\ IsSet(report')
        /\ \A g \in Exported : export'[g] = None /\ report'[g] = None
    BY <2>1 DEF ShapeInv
  <2> QED BY <2>1, <2>2, <2>4, <2>5, <2>6 DEF ShapeInv
<1>9. CASE Inspect2
  BY <1>9 DEF ShapeInv, Inspect2, Check, guest, images, verdict, env
<1>10. CASE StageFinalizer
  BY <1>10 DEF ShapeInv, StageFinalizer, guest, images, verdict, env
<1>11. CASE Finalize
  <2>1. PICK r, w, i, u :
           r = made["userdata"] /\ w = pins.world /\ i = pins.identity
           /\ u = [r EXCEPT !.world = w, !.identity = i]
    OBVIOUS
  <2>0. IsFile("userdata", r) /\ r.mark <= changes
    BY <1>11, <2>1 DEF ShapeInv, IsOld, Finalize
  <2>5. u = [mark |-> r.mark, serial |-> r.serial, of |-> r.of, flaw |-> r.flaw, uuid |-> r.uuid,
             kernel |-> r.kernel, pkgs |-> r.pkgs, world |-> w, identity |-> i]
    BY <2>0, <2>1 DEF IsFile
  <2>6. IsFile("userdata", u) /\ u.mark = r.mark
    BY <2>0, <2>5 DEF IsFile
  <2>2. made' = [made EXCEPT !["userdata"] = u]
    BY <1>11, <2>1 DEF ShapeInv, Finalize
  <2>7. changes' = changes
    BY <1>11 DEF Finalize, env
  <2>3. IsSet(made') /\ \A f \in Exported :
           IsOld(f, made[f])' \/ (f \in Optional /\ made'[f] = None)
    <3>1. IsSet(made) /\ \A f \in Exported :
             IsOld(f, made[f]) \/ (f \in Optional /\ made[f] = None)
      BY <1>11 DEF ShapeInv, Finalize
    <3>2. \A g \in Exported : made'[g] = IF g = "userdata" THEN u ELSE made[g]
      BY <3>1, <2>2
    <3>3. IsSet(made')
      BY <3>1, <2>2
    <3>4. /\ IsFile("userdata", u) /\ u.mark <= changes'
          /\ \A g \in Exported : IsOld(g, made[g]) =>
                                    IsFile(g, made[g]) /\ made[g].mark <= changes'
      BY <2>0, <2>6, <2>7
    <3> QED BY <3>1, <3>2, <3>3, <3>4
  <2>4. IsRoot(rootfs')
    BY <1>11 DEF ShapeInv, Finalize
  <2>8. pc = "finalize" /\ pc' = "shutdown" /\ UNCHANGED <<pins, export, report, changes>>
    BY <1>11 DEF Finalize, images, verdict, env
  <2> QED BY <2>3, <2>4, <2>8 DEF ShapeInv
<1>12. CASE Shutdown
  BY <1>12 DEF ShapeInv, Shutdown, guest, images, verdict, env
<1>13. CASE Unstage
  BY <1>13 DEF ShapeInv, Unstage, guest, images, verdict, env
<1>14. CASE Export
  BY <1>14 DEF ShapeInv, Export, Check, guest, images, verdict, env
<1> QED BY <1>1, <1>2, <1>3, <1>4, <1>5, <1>6, <1>7, <1>8, <1>9, <1>10, <1>11, <1>12,
   <1>13, <1>14 DEF Drive

LEMMA ShapePublish == ShapeInv /\ Publish => ShapeInv'
<1> SUFFICES ASSUME ShapeInv, Publish PROVE ShapeInv'
  OBVIOUS
<1>1. CASE OpenExports
  BY <1>1 DEF ShapeInv, OpenExports, Check, guest, images, verdict, env, Preceding
<1>2. CASE Judge
  BY <1>2 DEF ShapeInv, Judge, Check, guest, images, verdict, env, Preceding
<1>3. CASE RecheckInputs
  BY <1>3 DEF ShapeInv, RecheckInputs, Check, guest, images, verdict, env, Preceding
<1>4. CASE WriteNotes
  BY <1>4 DEF ShapeInv, WriteNotes, guest, images, verdict, env, Preceding
<1>5. CASE FreezeFiles
  BY <1>5 DEF ShapeInv, FreezeFiles, guest, images, verdict, env, Preceding
<1>6. CASE BindToReport
  BY <1>6 DEF ShapeInv, BindToReport, Check, guest, images, verdict, env, Preceding
<1>7. CASE WriteManifest
  BY <1>7 DEF ShapeInv, WriteManifest, Check, guest, images, verdict, env, Preceding
<1>8. CASE FreezeDirectories
  BY <1>8 DEF ShapeInv, FreezeDirectories, guest, images, verdict, env, Preceding
<1>9. CASE Revalidate
  BY <1>9 DEF ShapeInv, Revalidate, Check, guest, images, verdict, env, Preceding
<1>10. CASE Gate
  BY <1>10 DEF ShapeInv, Gate, Refuse, guest, images, verdict, env, Preceding
<1>11. CASE Return
  BY <1>11 DEF ShapeInv, Return, Refuse, guest, images, verdict, env, Preceding
<1>12. CASE \E f \in Exported : Materialize(f)
  <2>1. PICK f \in Exported : Materialize(f)
    BY <1>12
  <2>2. pc = "materialize" /\ UNCHANGED <<pins, rootfs, made, report, changes>>
        /\ (pc' = "read" => f = "dtb") /\ pc' \in {"materialize", "read", "cleanup"}
    BY <2>1 DEF Materialize, Check, guest, verdict, env
  <2>3. IsSet(export') /\ \A g \in Exported :
           export'[g] = IF g = f /\ Target(f) = opened[f] THEN made[f] ELSE export[g]
    BY <2>1 DEF ShapeInv, Materialize
  <2>4. f = "dtb" => \A g \in Required \ {"dtb"} : export[g] # None
    BY <2>1 DEF Materialize, Preceding, Dangling
  <2>5. pc' = "read" => Target(f) = opened[f]
    BY <2>1 DEF Materialize, Check
  <2>6. \A g \in Exported : IsOld(g, made[g]) \/ (g \in Optional /\ made[g] = None)
    BY <2>2 DEF ShapeInv
  <2>7. \A g \in Exported : export[g] = None \/ IsOld(g, export[g])
    BY <2>2 DEF ShapeInv
  <2>8. \A g \in Exported : report[g] = None
    BY <2>2 DEF ShapeInv
  <2>9. \A g \in Exported :
           \/ export'[g] = None /\ (pc' # "read" \/ g \in Optional)
           \/ IsOld(g, export'[g])
    BY <2>2, <2>3, <2>4, <2>5, <2>6, <2>7
  <2>10. \A g, q : IsOld(g, q)' <=> IsOld(g, q')
    BY <2>2 DEF IsOld, IsFile
  <2> QED BY <2>2, <2>3, <2>6, <2>8, <2>9, <2>10 DEF ShapeInv, IsOld
<1>13. CASE \E f \in Required : ReadImage(f)
  <2>1. PICK f \in Required : ReadImage(f)
    BY <1>13
  <2>2. f = "userdata" => \A g \in Required \ {f} : report[g] # None
    BY <2>1 DEF ReadImage, Earlier
  <2>3. IsSet(report') /\ \A g \in Exported :
           report'[g] = IF g = f THEN export[f] ELSE report[g]
    BY <2>1 DEF ShapeInv, ReadImage
  <2>4. UNCHANGED <<pins, rootfs, made, export, changes>>
    BY <2>1 DEF ReadImage, guest, images, env
  <2>5. pc = "read" /\ pc' = IF f = "userdata" THEN "judge" ELSE "read"
    BY <2>1 DEF ReadImage
  <2>6. IsOld(f, export[f])
    BY <1>13, <2>1, <2>5 DEF ShapeInv
  <2> QED BY <2>2, <2>3, <2>4, <2>5, <2>6 DEF ShapeInv, IsOld
<1> QED BY <1>1, <1>2, <1>3, <1>4, <1>5, <1>6, <1>7, <1>8, <1>9, <1>10, <1>11, <1>12,
   <1>13 DEF Publish

LEMMA ShapeEnds == ShapeInv /\ (CleanUp \/ Failures) => ShapeInv'
<1> SUFFICES ASSUME ShapeInv, (CleanUp \/ Failures) PROVE ShapeInv'
  OBVIOUS
<1>1. CASE CleanUp
  BY <1>1 DEF ShapeInv, CleanUp, guest, images, verdict, env
<1>2. CASE CommandFails
  BY <1>2 DEF ShapeInv, CommandFails, Commands, Mounting, guest, images, verdict, env
<1>3. CASE StagingFails
  BY <1>3 DEF ShapeInv, StagingFails, guest, images, verdict, env
<1>4. CASE ShutdownFails
  BY <1>4 DEF ShapeInv, ShutdownFails, guest, images, verdict, env
<1>5. CASE UnstageFails
  BY <1>5 DEF ShapeInv, UnstageFails, guest, images, verdict, env
<1> QED BY <1>1, <1>2, <1>3, <1>4, <1>5 DEF Failures

LEMMA ShapeOutside == ShapeInv /\ Outside => ShapeInv'
<1> SUFFICES ASSUME ShapeInv, Outside PROVE ShapeInv'
  OBVIOUS
<1>1. CASE EditInput
  BY <1>1 DEF ShapeInv, EditInput, Change, guest, images, verdict, env, IsOld, IsFile,
     inputs, session
<1>2. CASE ChangeMade
  <2>1. PICK f \in Exported : \E file \in Altered(f, made[f]) :
           made[f] # None /\ made' = [made EXCEPT ![f] = file]
    BY <1>2 DEF ChangeMade
  <2> PICK file \in Altered(f, made[f]) : made' = [made EXCEPT ![f] = file]
    BY <2>1
  <2>2. IsFile(f, file) /\ file.mark = changes + 1
    BY <1>2, <2>1, AlteredFile DEF ShapeInv, IsOld, ChangeMade
  <2>3. IsSet(made') /\ \A g \in Exported : made'[g] = IF g = f THEN file ELSE made[g]
    BY <1>2 DEF ShapeInv, ChangeMade
  <2>4. UNCHANGED <<pc, pins, rootfs, export, report>> /\ changes' = changes + 1
    BY <1>2 DEF ChangeMade, Change, images, verdict
  <2>5. pc \in {"open", "materialize"}
    BY <1>2 DEF ChangeMade
  <2>6. \A g, q : IsOld(g, q) => IsFile(g, q) /\ q.mark <= changes'
    BY <2>4 DEF ShapeInv, IsFile
  <2>7. \A g \in Exported : IsOld(g, made[g])' \/ (g \in Optional /\ made'[g] = None)
    BY <2>2, <2>3, <2>4, <2>5, <2>6 DEF ShapeInv
  <2>8. /\ changes' \in Nat /\ IsSet(export') /\ IsSet(report')
        /\ \A g \in Exported : report'[g] = None
        /\ \A g \in Exported :
              export'[g] = None \/ (pc = "materialize" /\ IsOld(g, export[g])')
    BY <2>4, <2>5, <2>6 DEF ShapeInv
  <2>9. pc = "open" => \A g \in Exported : export'[g] = None
    BY <2>4 DEF ShapeInv
  <2> QED BY <2>3, <2>4, <2>5, <2>7, <2>8, <2>9 DEF ShapeInv
<1>3. CASE ChangeExport
  <2>1. PICK f \in Exported : \E file \in Altered(f, export[f]) \union Restored(f) :
           export[f] # None /\ export' = [export EXCEPT ![f] = file]
    BY <1>3 DEF ChangeExport
  <2> PICK file \in Altered(f, export[f]) \union Restored(f) :
           export' = [export EXCEPT ![f] = file]
    BY <2>1
  <2>5. pc \in {"materialize"} \union Reading
    BY <1>3 DEF ChangeExport
  <2>6. /\ changes \in Nat /\ IsFile(f, export[f])
        /\ made[f] = None \/ IsFile(f, made[f])
        /\ report[f] = None \/ IsFile(f, report[f])
    BY <2>1, <2>5 DEF ShapeInv, IsOld
  <2>2. IsFile(f, file) /\ file.mark = changes + 1
    BY <2>6, AlteredFile, RestoredFile
  <2>3. IsSet(export') /\ \A g \in Exported : export'[g] = IF g = f THEN file ELSE export[g]
    BY <2>1 DEF ShapeInv
  <2>4. UNCHANGED <<pc, pins, rootfs, made, report>> /\ changes' = changes + 1
    BY <1>3 DEF ChangeExport, Change, guest, verdict
  <2>7. \A g, q : IsOld(g, q) => IsFile(g, q) /\ q.mark <= changes'
    BY <2>4, <2>6 DEF IsFile
  <2>8. /\ changes' \in Nat /\ IsSet(made) /\ IsSet(report)
        /\ \A g \in Exported :
              IsOld(g, made[g])' \/ (g \in Optional /\ made'[g] = None)
    BY <2>4, <2>5, <2>6, <2>7 DEF ShapeInv
  <2>9. \A g \in Exported :
           \/ export'[g] = None /\ (pc = "materialize" \/ g \in Optional)
           \/ IsOld(g, export[g])'
    BY <2>2, <2>3, <2>4, <2>5, <2>6, <2>7 DEF ShapeInv
  <2>10. pc = "materialize" => \A g \in Exported : report'[g] = None
    BY <2>4 DEF ShapeInv
  <2>11. pc \in Reading => \A g \in Exported :
           \/ report'[g] = None /\ (pc = "read" \/ g \in Optional)
           \/ IsOld(g, report[g])'
    BY <2>4, <2>7 DEF ShapeInv
  <2> QED BY <2>3, <2>4, <2>5, <2>8, <2>9, <2>10, <2>11 DEF ShapeInv
<1>4. CASE Litter
  BY <1>4 DEF ShapeInv, Litter, Change, guest, images, verdict, env, IsOld, IsFile,
     inputs, session
<1>5. CASE ChangePolicy
  BY <1>5 DEF ShapeInv, ChangePolicy, Change, guest, images, verdict, env, IsOld, IsFile,
     inputs, session
<1> QED BY <1>1, <1>2, <1>3, <1>4, <1>5 DEF Outside

LEMMA ShapeStep == ShapeInv /\ [Next]_vars => ShapeInv'
<1>1. ShapeInv /\ UNCHANGED vars => ShapeInv'
  BY DEF ShapeInv, vars
<1> QED BY <1>1, ShapeCopies, ShapeDrive, ShapePublish, ShapeEnds, ShapeOutside
        DEF Next, Build

\* What a report that was judged sound says of its files.
Sound(r) ==
    /\ \A f \in Required : r[f].flaw = "none"
    /\ \A c \in Component : r[c].serial = r["boot"].of
    /\ r["boot"].uuid = rootfs.uuid /\ r["userdata"].uuid = r["boot"].uuid
    /\ r["vmlinuz"].kernel = "pinned"
    /\ r["userdata"].pkgs = rootfs.pkgs
    /\ r["userdata"].identity = rootfs.identity

\* How the inputs of a step follow from the steps before it: the identity from
\* the second install, the world file from the finalizer, the report from the
\* exported files; and from the recheck on, a file that still has its identity
\* has the bytes that were inspected, and is logged with them.
SameBytes(f) == Digest(export[f]) = Digest(report[f])
Untouched(f) == export[f].mark = report[f].mark

FactInv ==
    /\ pc \in Inspected => /\ pins.pkgs = rootfs.pkgs
                           /\ pins.identity = Identity(rootfs.pkgs, rootfs.uuid)
    /\ pc \in Finalized => /\ rootfs.identity = pins.identity
                           /\ made["userdata"].world = pins.world
    /\ pc \in {"materialize"} \union Reading =>
          \/ pc = "materialize" /\ export["userdata"] = None
          \/ export["userdata"].world = pins.world
    /\ pc \in Reading =>
          \/ pc = "read" /\ report["userdata"] = None
          \/ report["userdata"].world = pins.world
    /\ pc \in Judged => Sound(report)
    /\ pc \in Noted =>
          notes = [pkgs |-> pins.pkgs, world |-> pins.world, identity |-> pins.identity]
    /\ pc \in {"notes"} \union Noted => \A f \in Required : Untouched(f) => SameBytes(f)
    /\ pc \in Noted => \A f \in Required : Untouched(f) => logged[f] = Digest(report[f])
    /\ pc \in Bound => \A f \in Required : SameBytes(f)
    /\ pc \in Listed => manifest = [images |-> Digests(export), notes |-> notes]
    /\ pc \in Published => ~ stray

FileInv == ShapeInv /\ FactInv

LEMMA FactInit == Init => FactInv
BY DEF Init, FactInv

LEMMA FactCopies == FileInv /\ Copies => FactInv'
<1> SUFFICES ASSUME FileInv, Copies PROVE FactInv'
  OBVIOUS
<1>1. CASE Authorize
  BY <1>1 DEF FileInv, ShapeInv, FactInv, Authorize, Refuse, guest, images, verdict, env
<1>2. CASE BeginSeed
  BY <1>2 DEF FileInv, ShapeInv, FactInv, BeginSeed, Refuse, guest, images, verdict, env
<1>3. CASE VerifySeed
  BY <1>3 DEF FileInv, ShapeInv, FactInv, VerifySeed, Refuse, guest, images, verdict, env
<1>4. CASE CheckoutProject
  BY <1>4 DEF FileInv, ShapeInv, FactInv, CheckoutProject, Refuse, guest, images,
     verdict, env
<1>5. CASE PreparePmaports
  BY <1>5 DEF FileInv, ShapeInv, FactInv, PreparePmaports, Refuse, guest, images,
     verdict, env
<1>6. CASE ComparePmaports
  BY <1>6 DEF FileInv, ShapeInv, FactInv, ComparePmaports, Refuse, guest, images,
     verdict, env
<1>7. CASE CheckPmbootstrap
  BY <1>7 DEF FileInv, ShapeInv, FactInv, CheckPmbootstrap, Refuse, guest, images,
     verdict, env
<1>8. CASE ClonePmbootstrap
  BY <1>8 DEF FileInv, ShapeInv, FactInv, ClonePmbootstrap, Refuse, guest, images,
     verdict, env
<1>9. CASE \E m \in Member : SeedMember(m)
  BY <1>9 DEF FileInv, ShapeInv, FactInv, SeedMember, Refuse, guest, images, verdict, env
<1> QED BY <1>1, <1>2, <1>3, <1>4, <1>5, <1>6, <1>7, <1>8, <1>9 DEF Copies

LEMMA FactDrive == FileInv /\ Drive => FactInv'
<1> SUFFICES ASSUME FileInv, Drive PROVE FactInv'
  OBVIOUS
<1>1. CASE CheckVersion
  BY <1>1 DEF FileInv, ShapeInv, FactInv, CheckVersion, guest, images, verdict, env,
     Identity
<1>2. CASE StageStatus
  BY <1>2 DEF FileInv, ShapeInv, FactInv, StageStatus, Check, guest, images, verdict,
     env, Identity
<1>3. CASE BuildPackages
  BY <1>3 DEF FileInv, ShapeInv, FactInv, BuildPackages, guest, images, verdict, env,
     Identity
<1>4. CASE Index
  BY <1>4 DEF FileInv, ShapeInv, FactInv, Index, guest, images, verdict, env, Identity
<1>5. CASE StageKernel
  BY <1>5 DEF FileInv, ShapeInv, FactInv, StageKernel, Check, guest, images, verdict,
     env, Identity
<1>6. CASE Install1
  BY <1>6 DEF FileInv, ShapeInv, FactInv, Install1, guest, images, verdict, env, Identity
<1>7. CASE Inspect1
  BY <1>7 DEF FileInv, ShapeInv, FactInv, Inspect1, Check, guest, images, verdict,
     env, Identity
<1>8. CASE Install2
  BY <1>8 DEF FileInv, ShapeInv, FactInv, Install2, guest, images, verdict, env, Identity
<1>9. CASE Inspect2
  <2>1. pc' = "stage" => /\ pins'.pkgs = rootfs.pkgs
                         /\ pins'.identity = Identity(rootfs.pkgs, rootfs.uuid)
    BY <1>9 DEF FileInv, ShapeInv, Inspect2, Check, PackageList
  <2>2. rootfs'.pkgs = rootfs.pkgs /\ rootfs'.uuid = rootfs.uuid
    BY <1>9 DEF FileInv, ShapeInv, Inspect2
  <2>3. pc' \in {"stage", "cleanup"}
    BY <1>9 DEF Inspect2, Check
  <2> QED BY <2>1, <2>2, <2>3 DEF FactInv, Identity
<1>10. CASE StageFinalizer
  BY <1>10 DEF FileInv, ShapeInv, FactInv, StageFinalizer, guest, images, verdict,
     env, Identity
<1>11. CASE Finalize
  BY <1>11 DEF FileInv, ShapeInv, FactInv, Finalize, guest, images, verdict, env, Identity
<1>12. CASE Shutdown
  BY <1>12 DEF FileInv, ShapeInv, FactInv, Shutdown, guest, images, verdict, env, Identity
<1>13. CASE Unstage
  BY <1>13 DEF FileInv, ShapeInv, FactInv, Unstage, guest, images, verdict, env, Identity
<1>14. CASE Export
  BY <1>14 DEF FileInv, ShapeInv, FactInv, Export, Check, guest, images, verdict, env,
     Identity
<1> QED BY <1>1, <1>2, <1>3, <1>4, <1>5, <1>6, <1>7, <1>8, <1>9, <1>10, <1>11, <1>12,
   <1>13, <1>14 DEF Drive

LEMMA FactPublish == FileInv /\ Publish => FactInv'
<1> SUFFICES ASSUME FileInv, Publish PROVE FactInv'
  OBVIOUS
<1>1. CASE OpenExports
  BY <1>1 DEF FileInv, ShapeInv, FactInv, OpenExports, Check, guest, images, verdict,
     env, Sound
<1>2. CASE Judge
  <2>1. pc = "judge" /\ UNCHANGED <<guest, pins, images, verdict>>
    BY <1>2 DEF Judge
  <2>2. \A f \in Required : IsFile(f, report[f])
    BY <2>1 DEF FileInv, ShapeInv, IsOld
  <2>3. ASSUME pc' = "recheck" PROVE Sound(report)
    <3>1. /\ ValidateBoot(report["boot"]) /\ ValidateCmdline(report["boot"])
          /\ ValidateArm64Image(report["vmlinuz"]) /\ ParseNewc(report["initramfs"])
          /\ ValidateFdt(report["dtb"]) /\ ValidateUserdata(report["userdata"])
      BY <1>2, <2>3 DEF Judge, Check
    <3>2. \A f \in Required : report[f].flaw = "none"
      BY <3>1, <2>2 DEF IsFile, Flaw, ValidateBoot, ValidateCmdline, ValidateArm64Image,
         ParseNewc, ValidateFdt, ValidateUserdata, ParsePartitions, ValidateSuperblock,
         FilesystemClean, ValidateRootfsFiles, ExtractedAsTrusted, LayoutAsExpected,
         ValidateSshPolicy, ValidateManagementPolicy, ValidateAccountPolicy,
         ValidatePackagePolicy
    <3> QED BY <3>1, <3>2 DEF Sound, ValidateBoot, ValidateCmdline, ValidateArm64Image,
         ValidateUserdata, ValidateSuperblock, ValidateRootfsFiles, ExtractedAsTrusted,
         ValidatePackagePolicy
  <2>4. pc' \in {"recheck", "cleanup"}
    BY <1>2 DEF Judge, Check
  <2>5. Sound(report)' <=> Sound(report)
    BY <2>1 DEF Sound, guest, verdict
  <2> QED BY <2>1, <2>3, <2>4, <2>5 DEF FileInv, FactInv, guest, images, verdict
<1>3. CASE RecheckInputs
  BY <1>3 DEF FileInv, ShapeInv, FactInv, RecheckInputs, Check, guest, images,
     verdict, env, Sound, SameBytes, Untouched
<1>4. CASE WriteNotes
  BY <1>4 DEF FileInv, ShapeInv, FactInv, WriteNotes, guest, images, verdict, env, Sound,
     SameBytes, Untouched, Digests
<1>5. CASE FreezeFiles
  BY <1>5 DEF FileInv, ShapeInv, FactInv, FreezeFiles, guest, images, verdict, env, Sound,
     SameBytes, Untouched
<1>6. CASE BindToReport
  BY <1>6 DEF FileInv, ShapeInv, FactInv, BindToReport, Check, guest, images, verdict,
     env, Sound, SameBytes, Untouched
<1>7. CASE WriteManifest
  BY <1>7 DEF FileInv, ShapeInv, FactInv, WriteManifest, Check, guest, images,
     verdict, env, Sound, SameBytes, Untouched
<1>8. CASE FreezeDirectories
  BY <1>8 DEF FileInv, ShapeInv, FactInv, FreezeDirectories, guest, images, verdict,
     env, Sound, SameBytes, Untouched
<1>9. CASE Revalidate
  <2>1. pc = "revalidate" /\ UNCHANGED <<guest, pins, images, verdict>>
        /\ (pc' \in {"gate", "returned"} => ~ stray) /\ pc' \in {"gate", "returned", "cleanup"}
    BY <1>9 DEF Revalidate, Check, ManifestHolds, InventoryExact
  <2>2. Sound(report)' <=> Sound(report)
    BY <2>1 DEF Sound, guest, verdict
  <2> QED BY <2>1, <2>2 DEF FileInv, FactInv, guest, images, verdict, SameBytes, Untouched
<1>10. CASE Gate
  BY <1>10 DEF FileInv, ShapeInv, FactInv, Gate, Refuse, guest, images, verdict, env, Sound,
     SameBytes, Untouched
<1>11. CASE Return
  BY <1>11 DEF FileInv, ShapeInv, FactInv, Return, Refuse, guest, images, verdict,
     env, Sound, SameBytes, Untouched
<1>12. CASE \E f \in Exported : Materialize(f)
  <2>1. PICK f \in Exported : Materialize(f)
    BY <1>12
  <2>2. pc = "materialize" /\ pc' \in {"materialize", "read", "cleanup"}
        /\ UNCHANGED <<pins, rootfs, made>>
    BY <2>1 DEF Materialize, Check, guest
  <2>3. made["userdata"].world = pins.world
    BY <2>2 DEF FileInv, FactInv
  <2>4. pc' # "cleanup" =>
           export'["userdata"] = IF f = "userdata" THEN made[f] ELSE export["userdata"]
    BY <2>1 DEF Materialize, Check, FileInv, ShapeInv
  <2>5. pc' = "read" => f = "dtb" /\ export["userdata"] # None
    BY <2>1 DEF Materialize, Check, Preceding, Dangling
  <2>6. report'["userdata"] = None
    BY <2>1, <2>2 DEF Materialize, FileInv, ShapeInv, verdict
  <2> QED BY <2>2, <2>3, <2>4, <2>5, <2>6 DEF FileInv, FactInv
<1>13. CASE \E f \in Required : ReadImage(f)
  <2>1. PICK f \in Required : ReadImage(f)
    BY <1>13
  <2>2. /\ pc = "read" /\ UNCHANGED <<pins, rootfs, made, export>>
        /\ pc' = IF f = "userdata" THEN "judge" ELSE "read"
    BY <2>1 DEF ReadImage, guest, images
  <2>3. report'["userdata"] = IF f = "userdata" THEN export[f] ELSE report["userdata"]
    BY <2>1 DEF ReadImage, FileInv, ShapeInv
  <2> QED BY <2>2, <2>3 DEF FileInv, FactInv
<1> QED BY <1>1, <1>2, <1>3, <1>4, <1>5, <1>6, <1>7, <1>8, <1>9, <1>10, <1>11, <1>12,
   <1>13 DEF Publish

LEMMA FactEnds == FileInv /\ (CleanUp \/ Failures) => FactInv'
<1> SUFFICES ASSUME FileInv, (CleanUp \/ Failures) PROVE FactInv'
  OBVIOUS
<1>1. CASE CleanUp
  BY <1>1 DEF FileInv, ShapeInv, FactInv, CleanUp, guest, images, verdict, env
<1>2. CASE CommandFails
  BY <1>2 DEF FileInv, ShapeInv, FactInv, CommandFails, Commands, Mounting, guest,
     images, verdict, env
<1>3. CASE StagingFails
  BY <1>3 DEF FileInv, ShapeInv, FactInv, StagingFails, guest, images, verdict, env
<1>4. CASE ShutdownFails
  BY <1>4 DEF FileInv, ShapeInv, FactInv, ShutdownFails, guest, images, verdict, env
<1>5. CASE UnstageFails
  BY <1>5 DEF FileInv, ShapeInv, FactInv, UnstageFails, guest, images, verdict, env
<1> QED BY <1>1, <1>2, <1>3, <1>4, <1>5 DEF Failures

LEMMA FactOutside == FileInv /\ Outside => FactInv'
<1> SUFFICES ASSUME FileInv, Outside PROVE FactInv'
  OBVIOUS
<1>1. CASE EditInput
  BY <1>1 DEF FileInv, ShapeInv, FactInv, EditInput, Change, guest, images, verdict,
     env, inputs, session, Sound, SameBytes, Untouched
<1>2. CASE ChangeMade
  <2>1. PICK f \in Exported : \E file \in Altered(f, made[f]) :
           made[f] # None /\ made' = [made EXCEPT ![f] = file]
    BY <1>2 DEF ChangeMade
  <2> PICK file \in Altered(f, made[f]) : made' = [made EXCEPT ![f] = file]
    BY <2>1
  <2>2. file.world = made[f].world
    BY <1>2, <2>1, AlteredFile DEF FileInv, ShapeInv, IsOld, ChangeMade
  <2>3. made'["userdata"].world = made["userdata"].world
    BY <1>2, <2>2 DEF FileInv, ShapeInv, ChangeMade
  <2>4. UNCHANGED <<pc, pins, rootfs, export, report>> /\ pc \in {"open", "materialize"}
    BY <1>2 DEF ChangeMade, images, verdict
  <2> QED BY <2>3, <2>4 DEF FileInv, FactInv
<1>3. CASE ChangeExport
  <2>1. PICK f \in Exported : \E file \in Altered(f, export[f]) \union Restored(f) :
           export[f] # None /\ export' = [export EXCEPT ![f] = file]
    BY <1>3 DEF ChangeExport
  <2> PICK file \in Altered(f, export[f]) \union Restored(f) :
           export' = [export EXCEPT ![f] = file]
    BY <2>1
  <2>4. UNCHANGED <<pc, pins, rootfs, made, report, notes, logged>>
        /\ pc \in {"materialize", "read", "judge", "recheck", "notes", "freeze"}
    BY <1>3 DEF ChangeExport, guest, verdict
  <2>5. /\ changes \in Nat /\ IsFile(f, export[f])
        /\ made[f] = None \/ IsFile(f, made[f])
        /\ report[f] = None \/ IsFile(f, report[f])
    BY <2>1, <2>4 DEF FileInv, ShapeInv, IsOld
  <2>2. /\ file.mark = changes + 1
        /\ \E r \in {export[f], made[f], report[f]} \ {None} : file.world = r.world
    BY <2>1, <2>5, AlteredFile, RestoredFile
  <2>3. \A g \in Exported : export'[g] = IF g = f THEN file ELSE export[g]
    BY <2>1 DEF FileInv, ShapeInv
  <2>6. ASSUME f = "userdata" PROVE file.world = pins.world
    <3>1. /\ export["userdata"].world = pins.world /\ made["userdata"].world = pins.world
          /\ report["userdata"] = None \/ report["userdata"].world = pins.world
      BY <2>1, <2>4, <2>6 DEF FileInv, ShapeInv, FactInv
    <3> QED BY <3>1, <2>2, <2>6
  <2>7. \/ pc = "materialize" /\ export'["userdata"] = None
        \/ export'["userdata"].world = pins.world
    BY <2>3, <2>4, <2>6 DEF FileInv, FactInv
  <2>8. ASSUME pc \in {"notes", "freeze"}, f \in Required PROVE export'[f].mark # report[f].mark
    <3>1. report[f].mark <= changes /\ report[f].mark \in Nat /\ changes \in Nat
      BY <2>8 DEF FileInv, ShapeInv, IsOld, IsFile
    <3> QED BY <3>1, <2>2, <2>3
  <2>9. \A g \in Required : g # f => export'[g] = export[g]
    BY <2>3
  <2>10. ASSUME pc \in {"notes", "freeze"}, NEW g \in Required,
               export'[g].mark = report[g].mark
         PROVE /\ Digest(export'[g]) = Digest(report[g])
               /\ pc = "freeze" => logged[g] = Digest(report[g])
    <3>1. g # f
      BY <2>8, <2>10
    <3> QED BY <3>1, <2>9, <2>10 DEF FileInv, FactInv, SameBytes, Untouched
  <2> QED BY <2>4, <2>7, <2>10 DEF FileInv, FactInv, Sound, SameBytes, Untouched
<1>4. CASE Litter
  BY <1>4 DEF FileInv, ShapeInv, FactInv, Litter, Change, guest, images, verdict, env,
     inputs, session, Sound, SameBytes, Untouched
<1>5. CASE ChangePolicy
  BY <1>5 DEF FileInv, ShapeInv, FactInv, ChangePolicy, Change, guest, images,
     verdict, env, inputs, session, Sound, SameBytes, Untouched
<1> QED BY <1>1, <1>2, <1>3, <1>4, <1>5 DEF Outside

LEMMA FileStep == FileInv /\ [Next]_vars => FileInv'
<1>1. FileInv /\ UNCHANGED vars => FactInv'
  BY DEF FileInv, FactInv, Sound, SameBytes, Untouched, vars
<1>2. FileInv /\ [Next]_vars => FactInv'
  BY <1>1, FactCopies, FactDrive, FactPublish, FactEnds, FactOutside DEF Next, Build
<1> QED BY <1>2, ShapeStep DEF FileInv

LEMMA FileAlways == Spec => []FileInv
BY ShapeInit, FactInit, FileStep, PTL DEF FileInv, Spec

\* Whatever is changed, and changed back, in the chroots and in the export
\* directory before the files are read-only, the required images of a returned
\* set have the bytes that were inspected together and found sound, and a log
\* line that says otherwise is of a file that was touched after its inspection
\* (_materialize_export_link, recheck_input_identities and
\* _freeze_and_recheck_outputs).
THEOREM InspectedIsReturned == Spec => []ReturnedIsInspected
<1>1. FileInv => ReturnedIsInspected
  BY DEF FileInv, FactInv, Sound, SameBytes, Untouched, Digests, ReturnedIsInspected
<1> QED BY <1>1, FileAlways, PTL

\* The package list, world file and identity beside a returned image are those
\* inside it, although a first install was inspected, pinned and replaced
\* (_build_candidate, around its two installs and the finalizer).
THEOREM NotesAreTrue == Spec => []NotesDescribeImage
<1>1. FileInv => NotesDescribeImage
  BY DEF FileInv, ShapeInv, FactInv, Sound, NotesDescribeImage, Identity
<1> QED BY <1>1, FileAlways, PTL

\* A file dropped into the directory at any time keeps it from being returned
\* (_export_file_inventory, whenever it is called).
THEOREM ListingIsComplete == Spec => []NothingUnlisted
<1>1. FileInv => NothingUnlisted
  BY DEF FileInv, FactInv, NothingUnlisted
<1> QED BY <1>1, FileAlways, PTL

=============================================================================
