------------------------- MODULE OfflineCacheProofs -------------------------
(***************************************************************************)
(* What the offline cache keeps for every number of promotions and         *)
(* calibrations, directories, edits, removals and losses of power: a       *)
(* published name stands for a whole tree, stays, and is what was attested *)
(* or, for a calibration, what was authorised.                             *)
(***************************************************************************)
EXTENDS OfflineCache, TLAPS

USE OfflineCacheAssumption, NoneAssumption

-----------------------------------------------------------------------------
(* Types, and where a run can be.                                          *)

Promoting == {"inventory", "mkdir", "copy", "pins", "bootstrap", "verify", "close",
              "manifest", "bind", "read", "publish", "rename", "validate", "rollback"}
Preparing == {"load", "bundle", "snapshot"}
Binding == {"prepromote", "promoted"}
Candidate == {"candidate_replay", "candidate_attestation", "receipt"}
Late == {"inputs", "final"} \union Candidate

\* The slot, the authority and the bundle a run has by where it is.
Placed(r) ==
    /\ run[r].pc \in Promoting \union Binding \union Late \union {"stuck"} =>
         run[r].slot \in IF r \in Calibration THEN Bundled ELSE {"store"}
    /\ r \notin Calibration => run[r].pc \notin Preparing \union Binding \union Late
    /\ r \in Calibration => /\ run[r].pc \notin {"start", "bootstrap", "close"}
                            /\ run[r].pc \notin {"load", "bundle", "refused"} => bundle # None
                            /\ run[r].pc = "receipt" => bundle.attest # None
    /\ run[r].pc \in Promoting \union Binding \union Late \union {"bundle", "snapshot"} =>
         run[r].auth \in Acquisition

\* A manifest is on disk with everything around it.
Recorded(b) == b.man # None => b.synced

TypeInv ==
    /\ TypeOK
    /\ \A r \in Run : Placed(r)
    /\ bundle # None /\ bundle.receipt => bundle.attest # None
    /\ \A i \in Inode : Recorded(tree[i])

LEMMA TypeInit == Init => TypeInv
<1> SUFFICES ASSUME Init PROVE TypeInv
  OBVIOUS
<1>1. /\ Old \in Acquisition /\ New \in Acquisition /\ Nothing \in Files
  BY DEF Old, New, Nothing, Acquisition, Files, Curated, Member, Content
<1>2. PICK crew \in Crews :
        run = [r \in Run |->
                [pc |-> IF r \notin crew THEN "refused"
                        ELSE IF r \in Calibration THEN "load" ELSE "start",
                 slot |-> None, auth |-> None, todo |-> {}, recs |-> Nothing,
                 held |-> None, order |-> None, base |-> None, seen |-> None]]
  BY DEF Init
<1>3. run \in [Run -> Process]
  BY <1>1, <1>2 DEF Process, RunPc
<1>4. \A r \in Run : Placed(r)
  BY <1>2 DEF Placed, Promoting, Preparing, Binding, Late, Candidate
<1>5. dir \in [Slot -> Names] /\ durable \in [Slot -> Names]
  BY DEF Init, Names
<1>6. tree \in [Inode -> Directory]
  BY <1>1 DEF Init, EmptyTree, Directory
<1>7. edits \in 0..MaxEdits /\ removals \in 0..MaxRemovals /\ faults \in 0..MaxFaults
  BY DEF Init
<1>8. acq \in Acquisition /\ attest \in Acquisition /\ drift \subseteq Input
  BY <1>1 DEF Init
<1>9. draft = None /\ order = None /\ bundle = None
  BY DEF Init
<1>10. \A i \in Inode : Recorded(tree[i])
  BY DEF Init, EmptyTree, Recorded
<1> QED BY <1>3, <1>4, <1>5, <1>6, <1>7, <1>8, <1>9, <1>10 DEF TypeInv, TypeOK

RunStep(r) == LoadAuthorization(r) \/ Promote(r) \/ Calibrate(r) \/ Stop(r)

\* Which variables a step of a run can touch.
LEMMA Frame ==
    ASSUME NEW r \in Run, RunStep(r)
    PROVE /\ UNCHANGED <<World, edits, removals>>
          /\ faults' = faults \/ ValidateFails(r) \/ Rollback(r)
          /\ \/ tree' = tree
             \/ MakeQuarantine(r) \/ CopyMember(r) \/ CopyKeys(r) \/ BootstrapVerifier(r)
             \/ CloseVerifier(r) \/ WriteManifest(r)
          /\ dir' = dir \/ MakeQuarantine(r) \/ Rename(r) \/ Rollback(r)
          /\ durable' = durable \/ ValidatePublished(r) \/ Rollback(r)
          /\ \/ bundle' = bundle
             \/ CreateBundle(r) \/ CopySnapshotMember(r) \/ WriteCandidateReplay(r)
             \/ WriteCandidateAttestation(r) \/ WriteReceipt(r)
<1> USE DEF World, Disk, Bounds
<1>r1. CASE LoadAuthorization(r)
  BY <1>r1 DEF LoadAuthorization
<1>r2. CASE CheckInputs(r)
  BY <1>r2 DEF CheckInputs, Inventory, Nothing, Source
<1>r3. CASE CheckPins(r)
  BY <1>r3 DEF CheckPins, Goto
<1>r4. CASE VerifyArtifacts(r)
  BY <1>r4 DEF VerifyArtifacts, Goto
<1>r5. CASE BindQuarantine(r)
  BY <1>r5 DEF BindQuarantine
<1>r6. CASE ReadBack(r)
  BY <1>r6 DEF ReadBack, Goto
<1>r7. CASE CheckDestination(r)
  BY <1>r7 DEF CheckDestination, Goto
<1>r8. CASE MakeQuarantine(r)
  BY <1>r8 DEF MakeQuarantine, Goto
<1>r9. CASE CopyMember(r)
  BY <1>r9 DEF CopyMember
<1>r10. CASE CopyKeys(r)
  BY <1>r10 DEF CopyKeys
<1>r11. CASE BootstrapVerifier(r)
  BY <1>r11 DEF BootstrapVerifier, Goto
<1>r12. CASE CloseVerifier(r)
  BY <1>r12 DEF CloseVerifier, Goto
<1>r13. CASE WriteManifest(r)
  BY <1>r13 DEF WriteManifest, Goto
<1>r14. CASE Rename(r)
  BY <1>r14 DEF Rename, Goto
<1>r15. CASE ValidatePublished(r)
  BY <1>r15 DEF ValidatePublished
<1>r16. CASE ValidateFails(r)
  BY <1>r16 DEF ValidateFails, Goto
<1>r17. CASE Rollback(r)
  BY <1>r17 DEF Rollback, Ended
<1>r18. CASE Stop(r)
  BY <1>r18 DEF Stop, Ended, Fate, Running
<1>r19. CASE LoadExecutionState(r)
  BY <1>r19 DEF LoadExecutionState
<1>r20. CASE CreateBundle(r)
  BY <1>r20 DEF CreateBundle, Inventory
<1>r21. CASE CopySnapshotMember(r)
  BY <1>r21 DEF CopySnapshotMember
<1>r22. CASE HoldSnapshot(r)
  BY <1>r22 DEF HoldSnapshot
<1>r23. CASE StartPromotion(r)
  BY <1>r23 DEF StartPromotion, Goto
<1>r24. CASE BindOutput(r)
  BY <1>r24 DEF BindOutput, Revalidated, CacheExact
<1>r25. CASE RevalidateInputs(r)
  BY <1>r25 DEF RevalidateInputs, Goto
<1>r26. CASE FinalRevalidation(r)
  BY <1>r26 DEF FinalRevalidation, Goto
<1>r27. CASE WriteCandidateReplay(r)
  BY <1>r27 DEF WriteCandidateReplay, Goto
<1>r28. CASE WriteCandidateAttestation(r)
  BY <1>r28 DEF WriteCandidateAttestation, Goto
<1>r29. CASE WriteReceipt(r)
  BY <1>r29 DEF WriteReceipt, Ended
<1> QED BY <1>r1, <1>r2, <1>r3, <1>r4, <1>r5, <1>r6, <1>r7, <1>r8, <1>r9, <1>r10,
   <1>r11, <1>r12, <1>r13, <1>r14, <1>r15, <1>r16, <1>r17, <1>r18, <1>r19, <1>r20,
   <1>r21, <1>r22, <1>r23, <1>r24, <1>r25, <1>r26, <1>r27, <1>r28, <1>r29 DEF RunStep,
   Promote, Calibrate

LEMMA CopiedMember ==
    ASSUME TypeInv, NEW r \in Run, run[r].todo # {},
           run[r].pc \in Promoting \union {"snapshot"}
    PROVE /\ (CHOOSE n \in run[r].todo : TRUE) \in Curated
          /\ run[r].pc \in Promoting => Source(r) \in Acquisition
<1>1. run[r].todo \subseteq Curated
  BY DEF TypeInv, TypeOK, Process
<1>2. (CHOOSE n \in run[r].todo : TRUE) \in run[r].todo
  OBVIOUS
<1>3. CASE r \in Calibration /\ run[r].pc \in Promoting
  <2>1. bundle \in Bundle
    BY <1>3 DEF TypeInv, TypeOK, Placed, Promoting
  <2> QED BY <1>1, <1>2, <1>3, <2>1 DEF Source, Bundle
<1>4. CASE r \notin Calibration
  BY <1>1, <1>2, <1>4 DEF Source, TypeInv, TypeOK
<1>5. CASE run[r].pc \notin Promoting
  BY <1>1, <1>2, <1>5
<1> QED BY <1>3, <1>4, <1>5

\* The places a step of a run leads from and to.
LEMMA Moves ==
    ASSUME TypeInv, NEW r \in Run, RunStep(r)
    PROVE /\ run' \in [Run -> Process]
          /\ \A t \in Run \ {r} : run'[t] = run[t]
<1>0. run \in [Run -> Process] /\ run[r] \in Process
  BY DEF TypeInv, TypeOK
<1>n. Nothing \in Files /\ {} \in SUBSET Curated
  BY DEF Nothing, Files, Content
<1>m. ASSUME NEW w \in Process, run' = [run EXCEPT ![r] = w]
      PROVE /\ run' \in [Run -> Process]
            /\ \A t \in Run \ {r} : run'[t] = run[t]
  BY <1>0, <1>m
<1>g. ASSUME NEW c \in RunPc, Goto(r, c)
      PROVE /\ run' \in [Run -> Process]
            /\ \A t \in Run \ {r} : run'[t] = run[t]
  BY <1>0, <1>g DEF Goto, Process
<1>e. ASSUME NEW c \in RunPc, run' = [run EXCEPT ![r] = Ended(@, c)]
      PROVE /\ run' \in [Run -> Process]
            /\ \A t \in Run \ {r} : run'[t] = run[t]
  <2>1. Ended(run[r], c) \in Process
    BY <1>0, <1>n, <1>e DEF Ended, Process
  <2> QED BY <1>e, <1>m, <2>1
<1>1. CASE LoadAuthorization(r)
  <2>1. PICK w : w = [run[r] EXCEPT !.pc = "inventory", !.slot = "store", !.auth = attest]
    OBVIOUS
  <2>2. w \in Process
    BY <1>0, <2>1 DEF TypeInv, TypeOK, Process, RunPc, Slot
  <2> QED BY <1>1, <1>m, <2>1, <2>2 DEF LoadAuthorization
<1>2. CASE CheckInputs(r)
  <2>1. PICK w : w = [run[r] EXCEPT !.pc = "mkdir", !.recs = Nothing, !.held = None,
                                    !.todo = Inventory(Source(r))]
    OBVIOUS
  <2>2. w \in Process
    BY <1>0, <1>n, <2>1 DEF Process, RunPc, Inventory
  <2> QED BY <1>2, <1>m, <2>1, <2>2 DEF CheckInputs
<1>3. CASE CopyMember(r)
  <2>0. PICK m : m = CHOOSE n \in run[r].todo : TRUE
    OBVIOUS
  <2>1. m \in Curated /\ Source(r) \in Acquisition
    BY <1>3, <2>0, CopiedMember DEF CopyMember, Promoting
  <2>2. PICK c : c = Source(r)[m]
    OBVIOUS
  <2>3. c \in Content
    BY <2>1, <2>2 DEF Acquisition
  <2>4. PICK f : f = [run[r].recs EXCEPT ![m] = c]
    OBVIOUS
  <2>5. f \in Files
    BY <1>0, <2>1, <2>3, <2>4 DEF Process, Files, Member
  <2>6. PICK w : w = [run[r] EXCEPT !.todo = @ \ {m}, !.recs = f]
    OBVIOUS
  <2>7. w \in Process
    BY <1>0, <2>5, <2>6 DEF Process
  <2>8. run' = [run EXCEPT ![r] = w]
    BY <1>3, <2>0, <2>2, <2>4, <2>6 DEF CopyMember
  <2> QED BY <1>m, <2>7, <2>8
<1>4. CASE CopyKeys(r)
  <2>1. PICK f : f = [run[r].recs EXCEPT !["key"] = "good"]
    OBVIOUS
  <2>2. f \in Files
    BY <1>0, <2>1 DEF Process, Files, Content
  <2>3. PICK w : w = [run[r] EXCEPT !.pc = "pins", !.recs = f]
    OBVIOUS
  <2>4. w \in Process
    BY <1>0, <2>2, <2>3 DEF Process, RunPc
  <2>5. run' = [run EXCEPT ![r] = w]
    BY <1>4, <2>1, <2>3 DEF CopyKeys
  <2> QED BY <1>m, <2>4, <2>5
<1>5. CASE BindQuarantine(r)
  <2>1. PICK i : i = dir[run[r].slot].q
    OBVIOUS
  <2>2. i \in Inode \union {None}
    BY <1>5, <2>1 DEF BindQuarantine, TypeInv, TypeOK, Names, Placed, Promoting,
       Bundled, Slot
  <2>3. PICK w : w = [run[r] EXCEPT !.pc = "read", !.held = i]
    OBVIOUS
  <2>4. w \in Process
    BY <1>0, <2>2, <2>3 DEF Process, RunPc
  <2> QED BY <1>5, <1>m, <2>1, <2>3, <2>4 DEF BindQuarantine
<1>6. CASE ValidatePublished(r)
  <2>0. PICK c \in RunPc : c = IF r \in Calibration THEN "promoted" ELSE "done"
    BY DEF RunPc
  <2>1. PICK w : w = [run[r] EXCEPT !.recs = Nothing, !.pc = c]
    OBVIOUS
  <2>2. w \in Process
    BY <1>0, <1>n, <2>1 DEF Process
  <2> QED BY <1>6, <1>m, <2>0, <2>1, <2>2 DEF ValidatePublished
<1>7. CASE LoadExecutionState(r)
  <2>1. PICK w : w = [run[r] EXCEPT !.pc = "bundle", !.auth = order.names,
                                    !.order = order, !.base = attest]
    OBVIOUS
  <2>2. order \in Order /\ attest \in Acquisition
    BY <1>7 DEF LoadExecutionState, TypeInv, TypeOK
  <2>3. w \in Process
    BY <1>0, <2>1, <2>2 DEF Process, RunPc, Order
  <2> QED BY <1>7, <1>m, <2>1, <2>3 DEF LoadExecutionState
<1>8. CASE CreateBundle(r)
  <2>1. PICK w : w = [run[r] EXCEPT !.pc = "snapshot", !.todo = Inventory(acq)]
    OBVIOUS
  <2>2. w \in Process
    BY <1>0, <2>1 DEF Process, RunPc, Inventory
  <2> QED BY <1>8, <1>m, <2>1, <2>2 DEF CreateBundle
<1>9. CASE CopySnapshotMember(r)
  <2>1. PICK w : w = [run[r] EXCEPT !.todo = @ \ {CHOOSE n \in run[r].todo : TRUE}]
    OBVIOUS
  <2>2. w \in Process
    BY <1>0, <2>1 DEF Process
  <2> QED BY <1>9, <1>m, <2>1, <2>2 DEF CopySnapshotMember
<1>10. CASE HoldSnapshot(r)
  <2>1. PICK w : w = [run[r] EXCEPT !.pc = "prepromote", !.slot = "first"]
    OBVIOUS
  <2>2. w \in Process
    BY <1>0, <2>1 DEF Process, RunPc, Slot
  <2> QED BY <1>10, <1>m, <2>1, <2>2 DEF HoldSnapshot
<1>11. CASE BindOutput(r)
  <2>1. PICK man : man = tree[dir[run[r].slot].p].man
    OBVIOUS
  <2>2. man \in Files \union {None}
    BY <1>11, <2>1 DEF BindOutput, Revalidated, TypeInv, TypeOK, Names, Directory,
                       Placed, Binding, Bundled, Slot
  <2>3. PICK c \in RunPc : c = IF run[r].slot = "first" THEN "prepromote" ELSE "inputs"
    BY DEF RunPc
  <2>4. PICK m \in Files \union {None} : m = IF run[r].slot = "first" THEN man ELSE None
    BY <2>2
  <2>5. PICK w : w = [run[r] EXCEPT !.pc = c, !.slot = "replay", !.held = None, !.seen = m]
    OBVIOUS
  <2>6. w \in Process
    BY <1>0, <2>5 DEF Process, Slot
  <2> QED BY <1>11, <1>m, <2>1, <2>3, <2>4, <2>5, <2>6 DEF BindOutput
<1>12. CASE Rollback(r) \/ Stop(r) \/ WriteReceipt(r)
  BY <1>12, <1>e DEF Rollback, Stop, WriteReceipt, Fate, RunPc
<1>13. CASE \/ CheckPins(r) \/ VerifyArtifacts(r) \/ ReadBack(r) \/ CheckDestination(r)
            \/ MakeQuarantine(r) \/ BootstrapVerifier(r) \/ CloseVerifier(r)
            \/ WriteManifest(r)
  BY <1>13, <1>g DEF CheckPins, VerifyArtifacts, ReadBack, CheckDestination,
       MakeQuarantine, BootstrapVerifier, CloseVerifier, WriteManifest, RunPc
<1>14. CASE \/ Rename(r) \/ ValidateFails(r) \/ StartPromotion(r) \/ RevalidateInputs(r)
            \/ FinalRevalidation(r) \/ WriteCandidateReplay(r)
            \/ WriteCandidateAttestation(r)
  BY <1>14, <1>g DEF Rename, ValidateFails, StartPromotion, RevalidateInputs,
       FinalRevalidation, WriteCandidateReplay, WriteCandidateAttestation, RunPc
<1> QED
  BY <1>1, <1>2, <1>3, <1>4, <1>5, <1>6, <1>7, <1>8, <1>9, <1>10, <1>11, <1>12, <1>13,
     <1>14 DEF RunStep, Promote, Calibrate

\* A run past its authorization names a slot of its kind.
LEMMA InSlot ==
    ASSUME TypeInv, NEW r \in Run,
           run[r].pc \in Promoting \union Binding \union Late \union {"stuck"}
    PROVE /\ run[r].slot \in Slot
          /\ r \in Calibration => run[r].slot \in Bundled
          /\ r \notin Calibration => run[r].slot = "store"
          /\ dir[run[r].slot].q \in Inode \union {None}
          /\ dir[run[r].slot].p \in Inode \union {None}
<1>1. /\ run[r].slot \in Slot
      /\ r \in Calibration => run[r].slot \in Bundled
      /\ r \notin Calibration => run[r].slot = "store"
  BY DEF TypeInv, Placed, Bundled, Slot
<1> QED BY <1>1 DEF TypeInv, TypeOK, Names

\* What a step of a run does to names.
LEMMA RunNames ==
    ASSUME TypeInv, NEW r \in Run, RunStep(r)
    PROVE /\ dir' \in [Slot -> Names] /\ durable' \in [Slot -> Names]
          /\ \A s \in Slot \ {run[r].slot} : dir'[s] = dir[s] /\ durable'[s] = durable[s]
<1>0. dir \in [Slot -> Names] /\ durable \in [Slot -> Names]
  BY DEF TypeInv, TypeOK
<1>1. CASE MakeQuarantine(r)
  <2> DEFINE s == run[r].slot
  <2>1. s \in Slot
    BY <1>1, InSlot DEF MakeQuarantine, Promoting
  <2>2. PICK i : i = CHOOSE j \in Free : TRUE
    OBVIOUS
  <2>3. i \in Inode
    BY <1>1, <2>2 DEF MakeQuarantine, Free
  <2>4. dir' = [dir EXCEPT ![s].q = i] /\ durable' = durable
    BY <1>1, <2>2 DEF MakeQuarantine
  <2> HIDE DEF s
  <2>5. dir' \in [Slot -> Names] /\ \A t \in Slot \ {s} : dir'[t] = dir[t]
    BY <1>0, <2>1, <2>3, <2>4 DEF Names
  <2> QED BY <1>0, <2>4, <2>5 DEF s
<1>2. CASE Rename(r)
  <2> DEFINE s == run[r].slot
  <2>1. s \in Slot
    BY <1>2, InSlot DEF Rename, Promoting
  <2>2. dir' = [dir EXCEPT ![s] = [q |-> None, p |-> dir[s].q]] /\ durable' = durable
    BY <1>2 DEF Rename
  <2> HIDE DEF s
  <2>3. dir' \in [Slot -> Names] /\ \A t \in Slot \ {s} : dir'[t] = dir[t]
    BY <1>0, <2>1, <2>2 DEF Names
  <2> QED BY <1>0, <2>2, <2>3 DEF s
<1>3. CASE Rollback(r)
  <2> DEFINE s == run[r].slot
  <2>1. s \in Slot
    BY <1>3, InSlot DEF Rollback, Promoting
  <2>2. \/ /\ dir' = [dir EXCEPT ![s] = [q |-> dir[s].p, p |-> None]]
           /\ durable' = [durable EXCEPT ![s] = dir'[s]] \/ durable' = durable
        \/ dir' = dir /\ durable' = durable
    BY <1>3 DEF Rollback
  <2> HIDE DEF s
  <2>3. dir' \in [Slot -> Names] /\ \A t \in Slot \ {s} : dir'[t] = dir[t]
    BY <1>0, <2>1, <2>2 DEF Names
  <2>4. durable' \in [Slot -> Names] /\ \A t \in Slot \ {s} : durable'[t] = durable[t]
    BY <1>0, <2>1, <2>2, <2>3
  <2> QED BY <2>3, <2>4 DEF s
<1>4. CASE ValidatePublished(r)
  <2> DEFINE s == run[r].slot
  <2>1. s \in Slot
    BY <1>4, InSlot DEF ValidatePublished, Promoting
  <2>2. dir' = dir /\ durable' = [durable EXCEPT ![s] = dir[s]]
    BY <1>4 DEF ValidatePublished
  <2> HIDE DEF s
  <2>3. durable' \in [Slot -> Names] /\ \A t \in Slot \ {s} : durable'[t] = durable[t]
    BY <1>0, <2>1, <2>2
  <2> QED BY <1>0, <2>2, <2>3 DEF s
<1>5. CASE dir' = dir /\ durable' = durable
  BY <1>0, <1>5
<1> QED BY <1>1, <1>2, <1>3, <1>4, <1>5, Frame

\* What a directory in use never loses.
Grows(a, b) ==
    /\ \A m \in Member : a.files[m] # "absent" => b.files[m] = a.files[m]
    /\ a.man # None => b.man = a.man
    /\ a.synced => b.synced

\* What a step of a run does to directories: a new one is made in a free place,
\* a member is added, or one of the other fields changes.
LEMMA RunTree ==
    ASSUME TypeInv, NEW r \in Run, RunStep(r)
    PROVE /\ tree' \in [Inode -> Directory]
          /\ \A i \in Inode \ Free : Grows(tree[i], tree'[i])
          /\ \A i \in Inode : Recorded(tree'[i])
<1>0. tree \in [Inode -> Directory] /\ \A i \in Inode : Recorded(tree[i])
  BY DEF TypeInv, TypeOK
<1>1. ASSUME NEW i \in Inode, NEW b \in Directory, tree' = [tree EXCEPT ![i] = b],
             i \in Free \/ Grows(tree[i], b), Recorded(b)
      PROVE /\ tree' \in [Inode -> Directory]
            /\ \A j \in Inode \ Free : Grows(tree[j], tree'[j])
            /\ \A j \in Inode : Recorded(tree'[j])
  BY <1>0, <1>1 DEF Grows
<1>2. ASSUME NEW q \in Inode, NEW m \in Member, NEW c \in Content,
             tree[q].files[m] = "absent",
             tree' = [tree EXCEPT ![q].files[m] = c]
      PROVE /\ tree' \in [Inode -> Directory]
            /\ \A j \in Inode \ Free : Grows(tree[j], tree'[j])
            /\ \A j \in Inode : Recorded(tree'[j])
  <2>1. PICK f : f = [tree[q].files EXCEPT ![m] = c]
    OBVIOUS
  <2>2. f \in Files /\ \A n \in Member : tree[q].files[n] # "absent" => f[n] = tree[q].files[n]
    BY <1>0, <1>2, <2>1 DEF Directory, Files
  <2>3. PICK b : b = [tree[q] EXCEPT !.files = f]
    OBVIOUS
  <2>4. b \in Directory /\ Grows(tree[q], b) /\ Recorded(b)
    BY <1>0, <2>2, <2>3 DEF Directory, Grows, Recorded
  <2>5. tree' = [tree EXCEPT ![q] = b]
    BY <1>2, <2>1, <2>3
  <2> QED BY <1>1, <2>4, <2>5
<1>3. CASE MakeQuarantine(r)
  <2>1. PICK i : i = CHOOSE j \in Free : TRUE
    OBVIOUS
  <2>2. i \in Inode /\ i \in Free
    BY <1>3, <2>1 DEF MakeQuarantine, Free
  <2>3. EmptyTree \in Directory /\ Recorded(EmptyTree)
    BY DEF EmptyTree, Directory, Nothing, Files, Content, Recorded
  <2>4. tree' = [tree EXCEPT ![i] = EmptyTree]
    BY <1>3, <2>1 DEF MakeQuarantine
  <2> QED BY <1>1, <2>2, <2>3, <2>4
<1>4. CASE CopyMember(r)
  <2>0. PICK m : m = CHOOSE n \in run[r].todo : TRUE
    OBVIOUS
  <2>1. m \in Curated /\ Source(r) \in Acquisition
    BY <1>4, <2>0, CopiedMember DEF CopyMember, Promoting
  <2>2. PICK c \in Content : c = Source(r)[m] /\ m \in Member
    BY <2>1 DEF Acquisition, Member
  <2>3. PICK q : q = dir[run[r].slot].q
    OBVIOUS
  <2>4. /\ q \in Inode
        /\ tree[q].files[m] = "absent"
        /\ tree' = [tree EXCEPT ![q].files[m] = c]
    BY <1>4, <2>0, <2>2, <2>3, InSlot DEF CopyMember, Promoting
  <2> QED BY <1>2, <2>2, <2>4
<1>5. CASE CopyKeys(r)
  <2>1. PICK q : q = dir[run[r].slot].q
    OBVIOUS
  <2>2. PICK m \in Member, c \in Content : m = "key" /\ c = "good"
    BY DEF Member, Content
  <2>3. /\ q \in Inode
        /\ tree[q].files[m] = "absent"
        /\ tree' = [tree EXCEPT ![q].files[m] = c]
    BY <1>5, <2>1, <2>2, InSlot DEF CopyKeys, Promoting
  <2> QED BY <1>2, <2>3
<1>6. CASE BootstrapVerifier(r) \/ CloseVerifier(r)
  <2>1. PICK q : q = dir[run[r].slot].q
    OBVIOUS
  <2>2. PICK c \in BOOLEAN : q \in Inode /\ tree' = [tree EXCEPT ![q].boot = c]
    BY <1>6, <2>1, InSlot DEF BootstrapVerifier, CloseVerifier, Promoting
  <2>3. PICK b : b = [tree[q] EXCEPT !.boot = c]
    OBVIOUS
  <2>4. b \in Directory /\ Grows(tree[q], b) /\ Recorded(b)
    BY <1>0, <2>2, <2>3 DEF Directory, Grows, Recorded
  <2>5. tree' = [tree EXCEPT ![q] = b]
    BY <2>2, <2>3
  <2> QED BY <1>1, <2>2, <2>4, <2>5
<1>7. CASE WriteManifest(r)
  <2>1. PICK q : q = dir[run[r].slot].q
    OBVIOUS
  <2>2. PICK b : b = [tree[q] EXCEPT !.man = run[r].recs, !.synced = TRUE]
    OBVIOUS
  <2>3. q \in Inode /\ tree[q].man = None /\ tree' = [tree EXCEPT ![q] = b]
    BY <1>7, <2>1, <2>2, InSlot DEF WriteManifest, Promoting
  <2>4. run[r].recs \in Files
    BY DEF TypeInv, TypeOK, Process
  <2>5. b \in Directory /\ Grows(tree[q], b) /\ Recorded(b)
    BY <1>0, <2>2, <2>3, <2>4 DEF Directory, Grows, Recorded
  <2> QED BY <1>1, <2>3, <2>5
<1>8. CASE tree' = tree
  BY <1>0, <1>8 DEF Grows
<1> QED BY <1>3, <1>4, <1>5, <1>6, <1>7, <1>8, Frame

\* What a step of a run leaves of what the run knows.
Carries(r) == run'[r].slot = run[r].slot /\ run'[r].auth = run[r].auth
Keeps(r) == Carries(r) /\ run'[r].held = run[r].held /\ run'[r].recs = run[r].recs
GoesTo(r, here, there) == run[r].pc = here /\ run'[r].pc = there

LEMMA PromotionEffect ==
    ASSUME TypeInv, NEW r \in Run
    PROVE /\ LoadAuthorization(r) => /\ GoesTo(r, "start", "inventory")
                                     /\ run'[r].slot = "store" /\ run'[r].auth = attest
          /\ CheckInputs(r) => /\ GoesTo(r, "inventory", "mkdir") /\ Carries(r)
                               /\ run'[r].recs = Nothing
          /\ MakeQuarantine(r) => GoesTo(r, "mkdir", "copy") /\ Keeps(r)
          /\ CopyMember(r) => /\ GoesTo(r, "copy", "copy") /\ Carries(r)
                              /\ run'[r].held = run[r].held
          /\ CopyKeys(r) => /\ GoesTo(r, "copy", "pins") /\ Carries(r)
                            /\ run'[r].held = run[r].held
          /\ CheckPins(r) =>
               /\ GoesTo(r, "pins", IF r \in Calibration THEN "verify" ELSE "bootstrap")
               /\ Keeps(r)
          /\ BootstrapVerifier(r) => GoesTo(r, "bootstrap", "verify") /\ Keeps(r)
          /\ VerifyArtifacts(r) =>
               /\ GoesTo(r, "verify", IF r \in Calibration THEN "manifest" ELSE "close")
               /\ Keeps(r)
          /\ CloseVerifier(r) => GoesTo(r, "close", "manifest") /\ Keeps(r)
          /\ WriteManifest(r) => GoesTo(r, "manifest", "bind") /\ Keeps(r)
          /\ BindQuarantine(r) => /\ GoesTo(r, "bind", "read") /\ Carries(r)
                                  /\ run'[r].held = dir[run[r].slot].q
                                  /\ run'[r].recs = run[r].recs
          /\ ReadBack(r) => GoesTo(r, "read", "publish") /\ Keeps(r)
          /\ CheckDestination(r) => GoesTo(r, "publish", "rename") /\ Keeps(r)
          /\ Rename(r) => GoesTo(r, "rename", "validate") /\ Keeps(r)
          /\ ValidatePublished(r) =>
               /\ GoesTo(r, "validate", IF r \in Calibration THEN "promoted" ELSE "done")
               /\ Carries(r) /\ run'[r].held = run[r].held
          /\ ValidateFails(r) => GoesTo(r, "validate", "rollback") /\ Keeps(r)
          /\ Rollback(r) => /\ run[r].pc = "rollback" /\ run'[r].pc \in {"refused", "stuck"}
                            /\ run'[r].slot = run[r].slot
          /\ Stop(r) => /\ Running(r) /\ run'[r].pc = Fate(r)
                        /\ run'[r].slot = run[r].slot
<1> USE DEF TypeInv, TypeOK, Process, GoesTo, Carries, Keeps, Goto, Ended
<1>p1. LoadAuthorization(r) => /\ GoesTo(r, "start", "inventory")
                               /\ run'[r].slot = "store" /\ run'[r].auth = attest
  BY DEF LoadAuthorization
<1>p2. CheckInputs(r) => /\ GoesTo(r, "inventory", "mkdir") /\ Carries(r)
                         /\ run'[r].recs = Nothing
  BY DEF CheckInputs
<1>p3. MakeQuarantine(r) => GoesTo(r, "mkdir", "copy") /\ Keeps(r)
  BY DEF MakeQuarantine
<1>p4. CopyMember(r) => /\ GoesTo(r, "copy", "copy") /\ Carries(r)
                        /\ run'[r].held = run[r].held
  BY DEF CopyMember
<1>p5. CopyKeys(r) => /\ GoesTo(r, "copy", "pins") /\ Carries(r)
                      /\ run'[r].held = run[r].held
  BY DEF CopyKeys
<1>p6. CheckPins(r) =>
         /\ GoesTo(r, "pins", IF r \in Calibration THEN "verify" ELSE "bootstrap")
         /\ Keeps(r)
  BY DEF CheckPins
<1>p7. BootstrapVerifier(r) => GoesTo(r, "bootstrap", "verify") /\ Keeps(r)
  BY DEF BootstrapVerifier
<1>p8. VerifyArtifacts(r) =>
         /\ GoesTo(r, "verify", IF r \in Calibration THEN "manifest" ELSE "close")
         /\ Keeps(r)
  BY DEF VerifyArtifacts
<1>p9. CloseVerifier(r) => GoesTo(r, "close", "manifest") /\ Keeps(r)
  BY DEF CloseVerifier
<1>p10. WriteManifest(r) => GoesTo(r, "manifest", "bind") /\ Keeps(r)
  BY DEF WriteManifest
<1>p11. BindQuarantine(r) => /\ GoesTo(r, "bind", "read") /\ Carries(r)
                             /\ run'[r].held = dir[run[r].slot].q
                             /\ run'[r].recs = run[r].recs
  BY DEF BindQuarantine
<1>p12. ReadBack(r) => GoesTo(r, "read", "publish") /\ Keeps(r)
  BY DEF ReadBack
<1>p13. CheckDestination(r) => GoesTo(r, "publish", "rename") /\ Keeps(r)
  BY DEF CheckDestination
<1>p14. Rename(r) => GoesTo(r, "rename", "validate") /\ Keeps(r)
  BY DEF Rename
<1>p15. ValidatePublished(r) =>
          /\ GoesTo(r, "validate", IF r \in Calibration THEN "promoted" ELSE "done")
          /\ Carries(r) /\ run'[r].held = run[r].held
  BY DEF ValidatePublished
<1>p16. ValidateFails(r) => GoesTo(r, "validate", "rollback") /\ Keeps(r)
  BY DEF ValidateFails
<1>p17. Rollback(r) => /\ run[r].pc = "rollback" /\ run'[r].pc \in {"refused", "stuck"}
                       /\ run'[r].slot = run[r].slot
  BY DEF Rollback
<1>p18. Stop(r) => /\ Running(r) /\ run'[r].pc = Fate(r)
                   /\ run'[r].slot = run[r].slot
  BY DEF Stop
<1> QED BY <1>p1, <1>p2, <1>p3, <1>p4, <1>p5, <1>p6, <1>p7, <1>p8, <1>p9, <1>p10,
   <1>p11, <1>p12, <1>p13, <1>p14, <1>p15, <1>p16, <1>p17, <1>p18

LEMMA CalibrationEffect ==
    ASSUME TypeInv, NEW r \in Run
    PROVE /\ LoadExecutionState(r) => GoesTo(r, "load", "bundle") /\ run'[r].auth = order.names
          /\ CreateBundle(r) => GoesTo(r, "bundle", "snapshot") /\ Carries(r)
          /\ CopySnapshotMember(r) => GoesTo(r, "snapshot", "snapshot") /\ Carries(r)
          /\ HoldSnapshot(r) => /\ GoesTo(r, "snapshot", "prepromote")
                                /\ run'[r].slot = "first" /\ run'[r].auth = run[r].auth
          /\ StartPromotion(r) => GoesTo(r, "prepromote", "inventory") /\ Carries(r)
          /\ BindOutput(r) =>
               /\ GoesTo(r, "promoted",
                         IF run[r].slot = "first" THEN "prepromote" ELSE "inputs")
               /\ run'[r].slot = "replay" /\ run'[r].auth = run[r].auth
          /\ RevalidateInputs(r) => GoesTo(r, "inputs", "final") /\ Carries(r)
          /\ FinalRevalidation(r) => GoesTo(r, "final", "candidate_replay") /\ Carries(r)
          /\ WriteCandidateReplay(r) =>
               GoesTo(r, "candidate_replay", "candidate_attestation") /\ Carries(r)
          /\ WriteCandidateAttestation(r) =>
               GoesTo(r, "candidate_attestation", "receipt") /\ Carries(r)
          /\ WriteReceipt(r) => GoesTo(r, "receipt", "done") /\ run'[r].slot = run[r].slot
<1> USE DEF TypeInv, TypeOK, Process, GoesTo, Carries, Keeps, Goto, Ended
<1>c1. LoadExecutionState(r) => GoesTo(r, "load", "bundle") /\ run'[r].auth = order.names
  BY DEF LoadExecutionState
<1>c2. CreateBundle(r) => GoesTo(r, "bundle", "snapshot") /\ Carries(r)
  BY DEF CreateBundle
<1>c3. CopySnapshotMember(r) => GoesTo(r, "snapshot", "snapshot") /\ Carries(r)
  BY DEF CopySnapshotMember
<1>c4. HoldSnapshot(r) => /\ GoesTo(r, "snapshot", "prepromote")
                          /\ run'[r].slot = "first" /\ run'[r].auth = run[r].auth
  BY DEF HoldSnapshot
<1>c5. StartPromotion(r) => GoesTo(r, "prepromote", "inventory") /\ Carries(r)
  BY DEF StartPromotion
<1>c6. BindOutput(r) =>
         /\ GoesTo(r, "promoted",
                   IF run[r].slot = "first" THEN "prepromote" ELSE "inputs")
         /\ run'[r].slot = "replay" /\ run'[r].auth = run[r].auth
  BY DEF BindOutput
<1>c7. RevalidateInputs(r) => GoesTo(r, "inputs", "final") /\ Carries(r)
  BY DEF RevalidateInputs
<1>c8. FinalRevalidation(r) => GoesTo(r, "final", "candidate_replay") /\ Carries(r)
  BY DEF FinalRevalidation
<1>c9. WriteCandidateReplay(r) =>
         GoesTo(r, "candidate_replay", "candidate_attestation") /\ Carries(r)
  BY DEF WriteCandidateReplay
<1>c10. WriteCandidateAttestation(r) =>
          GoesTo(r, "candidate_attestation", "receipt") /\ Carries(r)
  BY DEF WriteCandidateAttestation
<1>c11. WriteReceipt(r) => GoesTo(r, "receipt", "done") /\ run'[r].slot = run[r].slot
  BY DEF WriteReceipt
<1> QED BY <1>c1, <1>c2, <1>c3, <1>c4, <1>c5, <1>c6, <1>c7, <1>c8, <1>c9, <1>c10, <1>c11

\* The bundle is made once, by a calibration that found none.
LEMMA RunBundle ==
    ASSUME TypeInv, NEW r \in Run, RunStep(r)
    PROVE /\ bundle' \in Bundle \union {None}
          /\ bundle # None =>
               /\ bundle' # None
               /\ bundle'.replay = bundle.replay \/ WriteCandidateReplay(r)
               /\ bundle'.attest = bundle.attest \/ WriteCandidateAttestation(r)
               /\ bundle'.receipt = bundle.receipt \/ WriteReceipt(r)
          /\ CreateBundle(r) => /\ bundle = None /\ bundle' # None
                                /\ bundle'.attest = None /\ ~bundle'.receipt
          /\ WriteCandidateReplay(r) => bundle # None /\ bundle'.replay = run[r].auth
          /\ WriteCandidateAttestation(r) =>
               bundle # None /\ bundle.attest = None /\ bundle'.attest = run[r].auth
<1>0. bundle \in Bundle \union {None}
  BY DEF TypeInv, TypeOK
<1>1. CASE CreateBundle(r)
  <2>1. [m \in Curated |-> "absent"] \in Acquisition
    BY DEF Acquisition, Content
  <2>2. PICK b : b = [snap |-> [m \in Curated |-> "absent"],
                      replay |-> None, attest |-> None, receipt |-> FALSE]
    OBVIOUS
  <2>3. b \in Bundle /\ b.attest = None /\ b.replay = None /\ ~b.receipt
    BY <2>1, <2>2 DEF Bundle
  <2>4. bundle = None /\ bundle' = b /\ run[r].pc = "bundle"
    BY <1>1, <2>2 DEF CreateBundle
  <2> QED BY <2>3, <2>4 DEF WriteCandidateReplay, WriteCandidateAttestation
<1>2. CASE CopySnapshotMember(r)
  <2>1. PICK m : m = CHOOSE n \in run[r].todo : TRUE
    OBVIOUS
  <2>2. m \in Curated
    BY <1>2, <2>1, CopiedMember DEF CopySnapshotMember
  <2>3. PICK c \in Content : c = acq[m]
    BY <2>2 DEF TypeInv, TypeOK, Acquisition
  <2>4. bundle # None
    BY <1>2 DEF CopySnapshotMember, TypeInv, Placed, Preparing, Binding, Late
  <2>5. PICK f : f = [bundle.snap EXCEPT ![m] = c]
    OBVIOUS
  <2>6. f \in Acquisition
    BY <1>0, <2>2, <2>4, <2>5 DEF Bundle, Acquisition
  <2>7. PICK b : b = [bundle EXCEPT !.snap = f]
    OBVIOUS
  <2>8. /\ b \in Bundle
        /\ b.attest = bundle.attest /\ b.replay = bundle.replay /\ b.receipt = bundle.receipt
    BY <1>0, <2>4, <2>6, <2>7 DEF Bundle
  <2>9. bundle' = b
    BY <1>2, <2>1, <2>3, <2>5, <2>7 DEF CopySnapshotMember
  <2>10. run[r].pc = "snapshot"
    BY <1>2 DEF CopySnapshotMember
  <2> QED BY <2>4, <2>8, <2>9, <2>10 DEF CreateBundle, WriteCandidateReplay,
            WriteCandidateAttestation
<1>3. CASE WriteCandidateReplay(r) \/ WriteCandidateAttestation(r) \/ WriteReceipt(r)
  <2>1. bundle # None /\ run[r].pc \in Candidate
    BY <1>3 DEF WriteCandidateReplay, WriteCandidateAttestation, WriteReceipt, TypeInv,
                Placed, Preparing, Binding, Late, Candidate
  <2>2. run[r].auth \in Acquisition
    BY <2>1 DEF TypeInv, Placed, Late
  <2>3. CASE WriteCandidateReplay(r)
    <3>1. PICK b : b = [bundle EXCEPT !.replay = run[r].auth]
      OBVIOUS
    <3>2. /\ b \in Bundle /\ b.replay = run[r].auth
          /\ b.attest = bundle.attest /\ b.receipt = bundle.receipt
      BY <1>0, <2>1, <2>2, <3>1 DEF Bundle
    <3>3. bundle' = b /\ run[r].pc = "candidate_replay"
      BY <2>3, <3>1 DEF WriteCandidateReplay
    <3> QED BY <2>1, <2>3, <3>2, <3>3 DEF CreateBundle, WriteCandidateAttestation
  <2>4. CASE WriteCandidateAttestation(r)
    <3>1. PICK b : b = [bundle EXCEPT !.attest = run[r].auth]
      OBVIOUS
    <3>2. /\ b \in Bundle /\ b.attest = run[r].auth
          /\ b.replay = bundle.replay /\ b.receipt = bundle.receipt
      BY <1>0, <2>1, <2>2, <3>1 DEF Bundle
    <3>3. bundle.attest = None /\ bundle' = b /\ run[r].pc = "candidate_attestation"
      BY <2>4, <3>1 DEF WriteCandidateAttestation
    <3> QED BY <2>1, <2>4, <3>2, <3>3 DEF CreateBundle, WriteCandidateReplay
  <2>5. CASE WriteReceipt(r)
    <3>1. PICK b : b = [bundle EXCEPT !.receipt = TRUE]
      OBVIOUS
    <3>2. b \in Bundle /\ b.attest = bundle.attest /\ b.replay = bundle.replay
      BY <1>0, <2>1, <3>1 DEF Bundle
    <3>3. bundle' = b /\ run[r].pc = "receipt"
      BY <2>5, <3>1 DEF WriteReceipt
    <3> QED BY <2>1, <2>5, <3>2, <3>3 DEF CreateBundle, WriteCandidateReplay,
              WriteCandidateAttestation
  <2> QED BY <1>3, <2>3, <2>4, <2>5
<1>4. CASE /\ bundle' = bundle
           /\ ~CreateBundle(r) /\ ~WriteCandidateReplay(r) /\ ~WriteCandidateAttestation(r)
  BY <1>0, <1>4
<1> QED BY <1>1, <1>2, <1>3, <1>4, Frame

LEMMA RunPlaces ==
    ASSUME TypeInv, NEW r \in Run, RunStep(r)
    PROVE \A t \in Run : Placed(t)'
<1>0. /\ bundle # None =>
           bundle' # None /\ (bundle'.attest = bundle.attest \/ WriteCandidateAttestation(r))
      /\ \A t \in Run \ {r} : run'[t] = run[t]
      /\ \A t \in Run : Placed(t)
  BY RunBundle, Moves DEF TypeInv
<1>a. ASSUME WriteCandidateAttestation(r)
      PROVE bundle'.attest = run[r].auth /\ bundle'.attest # None
  <2>1. run[r].auth \in Acquisition
    BY <1>a, <1>0 DEF WriteCandidateAttestation, Placed, Late, Candidate
  <2> QED BY <1>a, <2>1, RunBundle
<1>1. \A t \in Run \ {r} : Placed(t)'
  BY <1>0, <1>a DEF Placed
<1> SUFFICES Placed(r)'
  BY <1>1
<1>c. ASSUME Carries(r), run[r].pc \in Promoting \union Binding \union Late,
             run'[r].pc \in Promoting \union Binding \union Late \union {"done"},
             r \in Calibration => run'[r].pc \notin {"bootstrap", "close"},
             r \notin Calibration => run'[r].pc \notin Binding \union Late,
             run'[r].pc = "receipt" => WriteCandidateAttestation(r)
      PROVE Placed(r)'
  BY <1>0, <1>a, <1>c DEF Carries, Placed, Promoting, Preparing, Binding, Late, Candidate
<1>e. ASSUME run'[r].slot = run[r].slot, run[r].pc \in RunPc,
             run'[r].pc \in {"refused", "stuck", "done"},
             run'[r].pc = "stuck" => run[r].pc \in Promoting,
             r \in Calibration /\ run'[r].pc # "refused" => bundle # None
      PROVE Placed(r)'
  BY <1>0, <1>e DEF Placed, Promoting, Preparing, Binding, Late, Candidate
<1>p. run[r].pc \in RunPc /\ Placed(r)
  BY DEF TypeInv, TypeOK, Process
<1>1a. attest \in Acquisition /\ order \in Order \union {None}
  BY DEF TypeInv, TypeOK
<1>b. r \in Calibration \/ run[r].pc \notin Binding \union Late
  BY <1>p DEF Placed
<1>2. CASE \/ CheckInputs(r) \/ MakeQuarantine(r) \/ CopyMember(r) \/ CopyKeys(r)
           \/ CheckPins(r) \/ BootstrapVerifier(r) \/ VerifyArtifacts(r) \/ CloseVerifier(r)
  BY <1>2, <1>c, <1>p, PromotionEffect DEF GoesTo, Keeps, Promoting, Binding, Late,
     Candidate,
       Placed
<1>3. CASE \/ WriteManifest(r) \/ BindQuarantine(r) \/ ReadBack(r) \/ CheckDestination(r)
           \/ Rename(r) \/ ValidatePublished(r) \/ ValidateFails(r)
  BY <1>3, <1>c, PromotionEffect DEF GoesTo, Keeps, Promoting, Binding, Late, Candidate
<1>4. CASE \/ StartPromotion(r) \/ RevalidateInputs(r) \/ FinalRevalidation(r)
           \/ WriteCandidateReplay(r) \/ WriteCandidateAttestation(r)
  BY <1>4, <1>c, <1>b, CalibrationEffect DEF GoesTo, Promoting, Binding, Late, Candidate
<1>5. CASE LoadAuthorization(r)
  BY <1>0, <1>1a, <1>5, PromotionEffect DEF GoesTo, Placed, Promoting, Preparing, Binding,
       Late, Candidate
<1>6. CASE LoadExecutionState(r)
  <2>1. order.names \in Acquisition
    BY <1>1a, <1>6 DEF LoadExecutionState, Order
  <2> QED BY <1>0, <1>6, <2>1, CalibrationEffect DEF GoesTo, Placed, Promoting, Preparing,
            Binding, Late, Candidate
<1>7. CASE CreateBundle(r)
  BY <1>0, <1>7, RunBundle, CalibrationEffect DEF GoesTo, Carries, Placed, Promoting,
       Preparing, Binding, Late, Candidate
<1>8. CASE CopySnapshotMember(r) \/ HoldSnapshot(r)
  BY <1>0, <1>8, CalibrationEffect DEF GoesTo, Carries, Placed, Promoting, Preparing,
     Binding,
       Late, Candidate, Bundled
<1>9. CASE BindOutput(r)
  BY <1>0, <1>9, CalibrationEffect DEF GoesTo, Placed, Promoting, Preparing, Binding, Late,
       Candidate, Bundled
<1>10. CASE WriteReceipt(r)
  BY <1>e, <1>p, <1>10, CalibrationEffect DEF GoesTo, Placed, RunPc
<1>11. CASE Rollback(r)
  BY <1>e, <1>p, <1>11, PromotionEffect DEF Placed, Promoting
<1>12. CASE Stop(r)
  BY <1>e, <1>p, <1>12, PromotionEffect DEF Fate, Placed, Promoting
<1> QED
  BY <1>2, <1>3, <1>4, <1>5, <1>6, <1>7, <1>8, <1>9, <1>10, <1>11, <1>12
     DEF RunStep, Promote, Calibrate

\* What happens around the runs, and what it may touch.
Around ==
    \/ Edit \/ PrepareCalibration \/ InstallAuthorization \/ InstallCandidate
    \/ \E s \in Slot : RemoveQuarantine(s)

LEMMA AroundFrame ==
    ASSUME TypeInv, Around
    PROVE /\ UNCHANGED <<durable, tree, run>>
          /\ dir' = dir \/ \E s \in Slot : dir[s].q # None /\ dir' = [dir EXCEPT ![s].q = None]
          /\ attest' = attest \/ InstallCandidate
          /\ bundle # None => /\ bundle' # None
                             /\ bundle'.attest = bundle.attest /\ bundle'.replay = bundle.replay
                             /\ bundle'.receipt = bundle.receipt
          /\ bundle = None => bundle' = None
          /\ bundle' \in Bundle \union {None}
<1> USE DEF Around, Disk
<1>0. bundle \in Bundle \union {None}
  BY DEF TypeInv, TypeOK
<1>1. UNCHANGED <<durable, tree, run>>
  BY DEF Edit, PrepareCalibration, InstallAuthorization, InstallCandidate, RemoveQuarantine
<1>2. dir' = dir \/ \E s \in Slot : dir[s].q # None /\ dir' = [dir EXCEPT ![s].q = None]
  BY DEF Edit, PrepareCalibration, InstallAuthorization, InstallCandidate, RemoveQuarantine
<1>3. attest' = attest \/ InstallCandidate
  BY DEF Edit, PrepareCalibration, InstallAuthorization, RemoveQuarantine, World
<1>4. CASE bundle' = bundle
  BY <1>0, <1>1, <1>2, <1>3, <1>4
<1>5. CASE bundle' # bundle
  <2>1. bundle # None /\ \E m \in Curated : bundle' = [bundle EXCEPT !.snap[m] = "stray"]
    BY <1>5 DEF Edit, PrepareCalibration, InstallAuthorization, InstallCandidate,
         RemoveQuarantine
  <2>2. PICK m \in Curated, c \in Content : c = "stray" /\ bundle' = [bundle EXCEPT !.snap[m] = c]
    BY <2>1 DEF Content
  <2>3. PICK f : f = [bundle.snap EXCEPT ![m] = c]
    OBVIOUS
  <2>4. f \in Acquisition
    BY <1>0, <2>1, <2>3 DEF Bundle, Acquisition
  <2>5. PICK b : b = [bundle EXCEPT !.snap = f]
    OBVIOUS
  <2>6. /\ b \in Bundle
        /\ b.attest = bundle.attest /\ b.replay = bundle.replay /\ b.receipt = bundle.receipt
    BY <1>0, <2>1, <2>4, <2>5 DEF Bundle
  <2>7. bundle' = b
    BY <2>2, <2>3, <2>5
  <2> QED BY <1>1, <1>2, <1>3, <2>1, <2>6, <2>7
<1> QED BY <1>4, <1>5

LEMMA AroundTypes ==
    ASSUME TypeInv, Around
    PROVE TypeInv'
<1>0. TypeOK
  BY DEF TypeInv
<1>1. /\ UNCHANGED <<durable, tree, run>> /\ bundle' \in Bundle \union {None}
      /\ bundle # None => /\ bundle' # None
                         /\ bundle'.attest = bundle.attest /\ bundle'.receipt = bundle.receipt
      /\ bundle = None => bundle' = None
  BY AroundFrame
<1>2. dir' \in [Slot -> Names]
  <2>1. PICK s \in Slot : dir' = dir \/ dir' = [dir EXCEPT ![s].q = None]
    BY AroundFrame DEF Slot
  <2>2. [dir[s] EXCEPT !.q = None] \in Names
    BY <1>0 DEF Names, TypeOK
  <2> QED BY <1>0, <2>1, <2>2 DEF TypeOK
<1> USE DEF Around
<1>3. acq' \in Acquisition
  BY <1>0 DEF Edit, PrepareCalibration, InstallAuthorization, InstallCandidate,
       RemoveQuarantine, TypeOK, World, Acquisition
<1>4. drift' \subseteq Input /\ edits' \in 0..MaxEdits
  BY <1>0 DEF Edit, PrepareCalibration, InstallAuthorization, InstallCandidate,
       RemoveQuarantine, TypeOK, World, Bounds
<1>5. removals' \in 0..MaxRemovals /\ faults' \in 0..MaxFaults
  BY <1>0 DEF Edit, PrepareCalibration, InstallAuthorization, InstallCandidate,
       RemoveQuarantine, TypeOK, Bounds
<1>6. attest' \in Acquisition
  BY <1>0 DEF Edit, PrepareCalibration, InstallAuthorization, InstallCandidate,
       RemoveQuarantine, TypeOK, TypeInv, World, Bundle
<1>7. draft' \in Acquisition \union {None}
  BY <1>0 DEF Edit, PrepareCalibration, InstallAuthorization, InstallCandidate,
       RemoveQuarantine, TypeOK, World
<1>8. order' \in Order \union {None}
  BY <1>0 DEF Edit, PrepareCalibration, InstallAuthorization, InstallCandidate,
       RemoveQuarantine, TypeOK, World, Order
<1>9. (\A t \in Run : Placed(t)') /\ \A i \in Inode : Recorded(tree'[i])
  BY <1>1 DEF Placed, TypeInv
<1> QED BY <1>0, <1>1, <1>2, <1>3, <1>4, <1>5, <1>6, <1>7, <1>8, <1>9 DEF TypeInv, TypeOK

\* A power failure: names may fall back, unsynced trees are lost, runs end.
LEMMA PowerLossFrame ==
    ASSUME TypeInv, PowerLoss
    PROVE /\ UNCHANGED <<World, bundle>>
          /\ durable' = dir' /\ dir' \in [Slot -> Names]
          /\ \A s \in Slot : dir'[s] = dir[s] \/ dir'[s] = durable[s]
          /\ tree' \in [Inode -> Directory]
          /\ \A i \in Inode : tree[i].synced => tree'[i] = tree[i]
          /\ \A i \in Inode : Recorded(tree'[i])
          /\ run' \in [Run -> Process]
          /\ \A r \in Run : \/ ~Running(r) /\ run'[r] = run[r]
                            \/ /\ Running(r) /\ run'[r].pc = Fate(r)
                               /\ run'[r].slot = run[r].slot
<1>0. /\ dir \in [Slot -> Names] /\ durable \in [Slot -> Names]
      /\ tree \in [Inode -> Directory] /\ run \in [Run -> Process]
  BY DEF TypeInv, TypeOK
<1>1. UNCHANGED <<World, bundle>> /\ durable' = dir'
  BY DEF PowerLoss
<1>2. /\ dir' \in [Slot -> Names]
      /\ \A s \in Slot : dir'[s] = dir[s] \/ dir'[s] = durable[s]
  BY <1>0 DEF PowerLoss
<1>3. EmptyTree \in Directory /\ Recorded(EmptyTree)
  BY DEF EmptyTree, Directory, Nothing, Files, Content, Recorded
<1>4. /\ tree' \in [Inode -> Directory]
      /\ \A i \in Inode : tree[i].synced => tree'[i] = tree[i]
      /\ \A i \in Inode : Recorded(tree'[i])
  <2>1. \A i \in Inode : Recorded(tree[i])
    BY DEF TypeInv
  <2> QED BY <1>0, <1>3, <2>1 DEF PowerLoss
<1>5. Nothing \in Files
  BY DEF Nothing, Files, Content
<1>6. ASSUME NEW r \in Run
      PROVE Ended(run[r], Fate(r)) \in Process
  BY <1>0, <1>5 DEF Ended, Fate, Process, RunPc
<1>7. run' = [r \in Run |-> IF Running(r) THEN Ended(run[r], Fate(r)) ELSE run[r]]
  BY DEF PowerLoss
<1>8. /\ run' \in [Run -> Process]
      /\ \A r \in Run : \/ ~Running(r) /\ run'[r] = run[r]
                        \/ Running(r) /\ run'[r] = Ended(run[r], Fate(r))
  BY <1>0, <1>6, <1>7
<1>9. \A r \in Run : /\ Ended(run[r], Fate(r)).pc = Fate(r)
                     /\ Ended(run[r], Fate(r)).slot = run[r].slot
  BY DEF Ended
<1> QED BY <1>1, <1>2, <1>4, <1>8, <1>9

\* Types hold in every step.
LEMMA TypeStep == TypeInv /\ [Next]_vars => TypeInv'
<1> SUFFICES ASSUME TypeInv, [Next]_vars PROVE TypeInv'
  OBVIOUS
<1>0. TypeOK
  BY DEF TypeInv
<1>1. ASSUME NEW r \in Run, RunStep(r) PROVE TypeInv'
  <2>1. UNCHANGED <<World, edits, removals>>
        /\ (faults' = faults \/ ValidateFails(r) \/ Rollback(r))
    BY <1>1, Frame
  <2>2. /\ edits' \in 0..MaxEdits /\ removals' \in 0..MaxRemovals
        /\ faults' \in 0..MaxFaults
    BY <1>0, <2>1 DEF ValidateFails, Rollback, TypeOK
  <2>3. /\ acq' \in Acquisition /\ drift' \subseteq Input /\ attest' \in Acquisition
        /\ draft' \in Acquisition \union {None} /\ order' \in Order \union {None}
    BY <1>0, <2>1 DEF TypeOK, World
  <2>4. /\ run' \in [Run -> Process] /\ tree' \in [Inode -> Directory]
        /\ \A i \in Inode : Recorded(tree'[i])
        /\ dir' \in [Slot -> Names] /\ durable' \in [Slot -> Names]
        /\ bundle' \in Bundle \union {None}
    BY <1>1, Moves, RunTree, RunNames, RunBundle
  <2>5. \A t \in Run : Placed(t)'
    BY <1>1, RunPlaces
  <2>6. bundle' # None /\ bundle'.receipt => bundle'.attest # None
    <3>1. ASSUME WriteReceipt(r) PROVE bundle # None /\ bundle.attest # None
      BY <3>1 DEF WriteReceipt, TypeInv, Placed, Preparing, Binding, Late, Candidate
    <3>2. ASSUME WriteCandidateAttestation(r) PROVE run[r].auth # None
      BY <3>2 DEF WriteCandidateAttestation, TypeInv, Placed, Late, Candidate
    <3>3. ~(WriteReceipt(r) /\ WriteCandidateAttestation(r))
      BY DEF WriteReceipt, WriteCandidateAttestation
    <3>4. bundle = None => bundle' = None \/ CreateBundle(r)
      BY <1>1, Frame DEF CopySnapshotMember, TypeInv, Placed, Preparing, Binding, Late,
           Candidate, WriteCandidateReplay, WriteCandidateAttestation, WriteReceipt
    <3> QED BY <1>1, <3>1, <3>2, <3>3, <3>4, RunBundle DEF TypeInv
  <2> QED BY <2>2, <2>3, <2>4, <2>5, <2>6 DEF TypeInv, TypeOK
<1>2. CASE Around
  BY <1>2, AroundTypes
<1>3. CASE PowerLoss
  <2>1. /\ edits' \in 0..MaxEdits /\ removals' \in 0..MaxRemovals
        /\ faults' \in 0..MaxFaults
    BY <1>0, <1>3 DEF PowerLoss, TypeOK
  <2>2. /\ acq' \in Acquisition /\ drift' \subseteq Input /\ attest' \in Acquisition
        /\ draft' \in Acquisition \union {None} /\ order' \in Order \union {None}
        /\ bundle' = bundle
    BY <1>0, <1>3 DEF PowerLoss, TypeOK, World
  <2>3. \A t \in Run : Placed(t)'
    BY <1>3, <2>2, PowerLossFrame DEF TypeInv, Placed, Fate, Running, Promoting, Preparing,
         Binding, Late, Candidate
  <2> QED BY <1>0, <1>3, <2>1, <2>2, <2>3, PowerLossFrame DEF TypeInv, TypeOK
<1>4. CASE UNCHANGED vars
  <2>1. (\A t \in Run : Placed(t)') /\ \A i \in Inode : Recorded(tree'[i])
    BY <1>4 DEF TypeInv, Placed, vars
  <2> QED BY <1>0, <1>4, <2>1 DEF TypeInv, TypeOK, vars
<1> QED BY <1>1, <1>2, <1>3, <1>4 DEF Next, RunStep, Around

-----------------------------------------------------------------------------
(* Names: who may change them, and what a power failure may restore.       *)

Landing == {"validate", "rollback"}

NamesOf(s) == {dir[s].q, dir[s].p, durable[s].q, durable[s].p}

\* A directory is of one slot, a durable name is still the current one, and at
\* most one run per slot is between its rename and the end of its checks, with
\* the name it gave.
NamesInv ==
    /\ \A s, t \in Slot : s # t => NamesOf(s) \intersect NamesOf(t) \subseteq {None}
    /\ \A s \in Slot : durable[s].p # None => durable[s].p = dir[s].p
    /\ \A r \in Run : run[r].pc \in Landing =>
          dir[run[r].slot].p # None /\ durable[run[r].slot].p = None
    /\ \A r, t \in Run : run[r].pc \in Landing /\ run[t].pc \in Landing
                           /\ run[r].slot = run[t].slot => r = t

LEMMA NamesInit == Init => NamesInv
BY DEF Init, NamesInv, NamesOf, Landing

\* Which step changes which name.
LEMMA NameMoves ==
    ASSUME TypeInv, NEW r \in Run, RunStep(r)
    PROVE \A s \in Slot :
            \/ dir'[s] = dir[s] /\ durable'[s] = durable[s]
            \/ /\ MakeQuarantine(r) /\ dir[s].q = None
               /\ dir'[s].q \in Free /\ dir'[s].p = dir[s].p /\ durable'[s] = durable[s]
            \/ /\ Rename(r) /\ s = run[r].slot
               /\ dir'[s].q = None /\ dir'[s].p = dir[s].q /\ durable'[s] = durable[s]
            \/ ValidatePublished(r) /\ s = run[r].slot /\ dir'[s] = dir[s] /\ durable'[s] = dir[s]
            \/ /\ Rollback(r) /\ s = run[r].slot
               /\ dir'[s].q = dir[s].p /\ dir'[s].p = None /\ durable'[s] \in {dir'[s], durable[s]}
<1> SUFFICES ASSUME NEW s \in Slot
             PROVE \/ dir'[s] = dir[s] /\ durable'[s] = durable[s]
                   \/ /\ MakeQuarantine(r) /\ dir[s].q = None
                      /\ dir'[s].q \in Free /\ dir'[s].p = dir[s].p /\ durable'[s] = durable[s]
                   \/ /\ Rename(r) /\ s = run[r].slot
                      /\ dir'[s].q = None /\ dir'[s].p = dir[s].q /\ durable'[s] = durable[s]
                   \/ /\ ValidatePublished(r) /\ s = run[r].slot
                      /\ dir'[s] = dir[s] /\ durable'[s] = dir[s]
                   \/ /\ Rollback(r) /\ s = run[r].slot
                      /\ dir'[s].q = dir[s].p /\ dir'[s].p = None
                      /\ durable'[s] \in {dir'[s], durable[s]}
  OBVIOUS
<1>0. dir \in [Slot -> Names] /\ durable \in [Slot -> Names]
  BY DEF TypeInv, TypeOK
<1>1. CASE s # run[r].slot
  BY <1>1, RunNames
<1>2. CASE s = run[r].slot
  <2>1. CASE MakeQuarantine(r)
    <3>1. PICK i : i = CHOOSE j \in Free : TRUE
      OBVIOUS
    <3>2. i \in Free
      BY <2>1, <3>1 DEF MakeQuarantine
    <3>3. dir[s].q = None /\ dir' = [dir EXCEPT ![s].q = i] /\ durable' = durable
      BY <1>2, <2>1, <3>1 DEF MakeQuarantine
    <3>4. dir'[s].q = i /\ dir'[s].p = dir[s].p
      BY <1>0, <3>3 DEF Names
    <3> QED BY <2>1, <3>2, <3>3, <3>4
  <2>2. CASE Rename(r)
    BY <1>0, <1>2, <2>2 DEF Rename
  <2>3. CASE ValidatePublished(r)
    BY <1>0, <1>2, <2>3 DEF ValidatePublished
  <2>4. CASE Rollback(r)
    BY <1>0, <1>2, <2>4 DEF Rollback
  <2>5. CASE dir' = dir /\ durable' = durable
    BY <2>5
  <2> QED BY <2>1, <2>2, <2>3, <2>4, <2>5, Frame
<1> QED BY <1>1, <1>2

\* Which step lands, and which one settles what landed.
LEMMA LandingMoves ==
    ASSUME TypeInv, NEW r \in Run, RunStep(r)
    PROVE /\ run[r].pc # "stuck"
          /\ run'[r].pc \in Landing \union {"stuck"} =>
               run'[r].slot = run[r].slot /\ (Rename(r) \/ run[r].pc \in Landing)
          /\ run[r].pc \in Landing =>
               /\ run'[r].slot = run[r].slot
               /\ \/ run'[r].pc \in Landing \union {"stuck"}
                  \/ ValidatePublished(r)
                  \/ Rollback(r) /\ dir'[run[r].slot].p = None
          /\ Rename(r) => run'[r].pc \in Landing
          /\ ValidatePublished(r) \/ Rollback(r) => run'[r].pc \notin Landing
<1> USE DEF GoesTo, Carries, Keeps, Landing
<1>1. CASE LoadAuthorization(r) \/ Calibrate(r)
  BY <1>1, PromotionEffect, CalibrationEffect DEF Calibrate, Rename,
     ValidatePublished, Rollback
<1>2. CASE Promote(r) /\ ~Rollback(r)
  BY <1>2, PromotionEffect DEF Promote
<1>3. CASE Rollback(r)
  <2>1. run[r].slot \in Slot /\ dir \in [Slot -> Names]
    BY <1>3, InSlot DEF Rollback, Promoting, TypeInv, TypeOK
  <2>2. \/ dir' = [dir EXCEPT ![run[r].slot] = [q |-> dir[run[r].slot].p, p |-> None]]
        \/ run' = [run EXCEPT ![r] = Ended(@, "stuck")]
    BY <1>3 DEF Rollback
  <2>3. dir'[run[r].slot].p = None \/ run'[r].pc = "stuck"
    BY <2>1, <2>2 DEF Ended, TypeInv, TypeOK
  <2> QED BY <1>3, <2>3, PromotionEffect DEF Rename, ValidatePublished
<1>4. CASE Stop(r)
  BY <1>4, PromotionEffect DEF Fate, Running
<1> QED BY <1>1, <1>2, <1>3, <1>4 DEF RunStep

LEMMA NamesStep == TypeInv /\ NamesInv /\ [Next]_vars => NamesInv'
<1> SUFFICES ASSUME TypeInv, NamesInv, [Next]_vars PROVE NamesInv'
  OBVIOUS
<1> USE DEF NamesInv
<1>0. dir \in [Slot -> Names] /\ durable \in [Slot -> Names] /\ None \notin Inode
  BY DEF TypeInv, TypeOK
<1>1. ASSUME NEW r \in Run, RunStep(r) PROVE NamesInv'
  <2>0. /\ \A t \in Run \ {r} : run'[t] = run[t]
        /\ run[r].pc \in Landing => run[r].slot \in Slot
        /\ \A t \in Run : run[t].pc \in Landing => run[t].slot \in Slot
    BY <1>1, Moves, InSlot DEF Landing, Promoting
  <2>1. ASSUME NEW s \in Slot, NEW t \in Slot, s # t
        PROVE (NamesOf(s) \intersect NamesOf(t) \subseteq {None})'
    <3>1. NamesOf(s) \intersect NamesOf(t) \subseteq {None}
      BY <2>1
    <3>2. \/ NamesOf(s)' \subseteq NamesOf(s) \union {None}
          \/ MakeQuarantine(r) /\ s = run[r].slot
      BY <1>1, NameMoves, RunNames DEF NamesOf
    <3>3. \/ NamesOf(t)' \subseteq NamesOf(t) \union {None}
          \/ MakeQuarantine(r) /\ t = run[r].slot
      BY <1>1, NameMoves, RunNames DEF NamesOf
    <3>4. CASE MakeQuarantine(r)
      <4>1. \A u \in Slot : \/ NamesOf(u)' = NamesOf(u)
                           \/ \E i \in Free : NamesOf(u)' \subseteq NamesOf(u) \union {i}
        <5>1. ~Rename(r) /\ ~ValidatePublished(r) /\ ~Rollback(r)
          BY <3>4 DEF MakeQuarantine, Rename, ValidatePublished, Rollback
        <5>2. ASSUME NEW u \in Slot
              PROVE \/ NamesOf(u)' = NamesOf(u)
                    \/ \E i \in Free : NamesOf(u)' \subseteq NamesOf(u) \union {i}
          BY <1>1, <5>1, NameMoves DEF NamesOf
        <5> QED BY <5>2
      <4>2. \A i \in Free : i \notin NamesOf(s) /\ i \notin NamesOf(t)
        BY DEF Free, NamesOf
      <4>3. \A u \in Slot \ {run[r].slot} : NamesOf(u)' = NamesOf(u)
        BY <1>1, RunNames DEF NamesOf
      <4> QED BY <2>1, <3>1, <4>1, <4>2, <4>3
    <3> QED BY <3>1, <3>2, <3>3, <3>4
  <2>2. ASSUME NEW s \in Slot
        PROVE (durable[s].p # None => durable[s].p = dir[s].p)'
    <3>1. Rename(r) /\ s = run[r].slot => durable[s].p = None
      BY DEF Rename
    <3>2. Rollback(r) /\ s = run[r].slot => durable[s].p = None
      BY DEF Rollback, Landing
    <3> QED BY <1>1, <3>1, <3>2, NameMoves
  <2>3. ASSUME NEW t \in Run, run'[t].pc \in Landing
        PROVE /\ dir'[run'[t].slot].p # None /\ durable'[run'[t].slot].p = None
              /\ t # r => run[t].pc \in Landing /\ run'[t].slot = run[t].slot
              /\ t # r => ~(Rename(r) /\ run[r].slot = run[t].slot)
    <3>1. CASE t = r
      <4>1. run'[r].slot = run[r].slot /\ run[r].slot \in Slot /\ run[r].pc # "stuck"
            /\ (Rename(r) \/ run[r].pc \in Landing)
            /\ ~ValidatePublished(r) /\ ~Rollback(r)
        BY <1>1, <2>0, <2>3, <3>1, LandingMoves, InSlot DEF Rename, Promoting
      <4>2. Rename(r) => dir'[run[r].slot].p # None /\ durable[run[r].slot].p = None
        BY <1>0, <4>1 DEF Rename
      <4>3. ~(Rename(r) /\ run[r].pc \in Landing)
        BY DEF Rename, Landing
      <4>4. ~(MakeQuarantine(r) /\ Rename(r))
        BY DEF Rename, MakeQuarantine
      <4> QED BY <1>1, <3>1, <4>1, <4>2, <4>3, <4>4, NameMoves
    <3>2. CASE t # r
      <4>1. run[t].pc \in Landing /\ run'[t].slot = run[t].slot
            /\ dir[run[t].slot].p # None /\ durable[run[t].slot].p = None
            /\ run[t].slot \in Slot
        BY <2>0, <2>3, <3>2
      <4>2. ~(Rename(r) /\ run[r].slot = run[t].slot)
        BY <4>1 DEF Rename
      <4>3. /\ ~(Rollback(r) /\ run[r].slot = run[t].slot)
            /\ ~(ValidatePublished(r) /\ run[r].slot = run[t].slot)
        BY <3>2, <4>1 DEF Rollback, ValidatePublished, Landing
      <4> QED BY <1>1, <3>2, <4>1, <4>2, <4>3, NameMoves
    <3> QED BY <3>1, <3>2
  <2>4. ASSUME NEW t \in Run, NEW u \in Run, run'[t].pc \in Landing, run'[u].pc \in Landing,
               run'[t].slot = run'[u].slot
        PROVE t = u
    <3>1. run'[r].pc \in Landing =>
            run'[r].slot = run[r].slot /\ (Rename(r) \/ run[r].pc \in Landing)
      BY <1>1, LandingMoves
    <3> QED BY <2>3, <2>4, <3>1
  <2> QED BY <2>1, <2>2, <2>3, <2>4
<1>2. CASE Around
  <2>1. UNCHANGED <<durable, run>>
    BY <1>2, AroundFrame
  <2>2. \A s \in Slot : dir'[s].p = dir[s].p /\ dir'[s].q \in {dir[s].q, None}
    BY <1>0, <1>2, AroundFrame DEF Names
  <2>3. \A s \in Slot : NamesOf(s)' \subseteq NamesOf(s) \union {None}
    BY <2>1, <2>2 DEF NamesOf
  <2>4. \A t \in Run : run[t].pc \in Landing => run[t].slot \in Slot
    BY InSlot DEF Landing, Promoting
  <2> QED BY <2>1, <2>2, <2>3, <2>4
<1>3. CASE PowerLoss
  <2>1. /\ durable' = dir'
        /\ \A s \in Slot : dir'[s] = dir[s] \/ dir'[s] = durable[s]
    BY <1>3, PowerLossFrame
  <2>2. \A s \in Slot : NamesOf(s)' \subseteq NamesOf(s)
    BY <2>1 DEF NamesOf
  <2>3. \A t \in Run : run'[t].pc \notin Landing
    BY <1>3, PowerLossFrame DEF Landing, Fate, Running
  <2> QED BY <2>1, <2>2, <2>3
<1>4. CASE UNCHANGED vars
  BY <1>4 DEF vars, NamesOf
<1> QED BY <1>1, <1>2, <1>3, <1>4 DEF Next, RunStep, Around

-----------------------------------------------------------------------------
(* What stays: a whole directory in use, and a name that was vouched for.  *)

Whole(i) == Complete(i) /\ tree[i].synced

\* The published name of s stands, on disk too, for a whole directory, and no
\* run is about to take it back.
Vouched(s) ==
    /\ dir[s].p # None /\ durable[s].p = dir[s].p
    /\ Whole(dir[s].p)
    /\ \A r \in Run : run[r].slot = s => run[r].pc \notin Landing

LEMMA WholeStays ==
    ASSUME TypeInv, [Next]_vars, NEW i \in Inode, i \notin Free, Whole(i)
    PROVE Whole(i)' /\ tree'[i].man = tree[i].man
<1>1. CASE \E r \in Run : RunStep(r)
  <2>1. /\ Grows(tree[i], tree'[i])
        /\ tree'[i].man \in Files /\ tree[i].man \in Files
    <3>1. PICK r \in Run : RunStep(r)
      BY <1>1
    <3>2. Grows(tree[i], tree'[i]) /\ tree' \in [Inode -> Directory]
      BY <3>1, RunTree
    <3> QED BY <3>2 DEF Grows, Whole, Complete, TypeInv, TypeOK, Directory
  <2> QED BY <2>1 DEF Grows, Whole, Complete, Member
<1>2. CASE Around
  BY <1>2, AroundFrame DEF Whole, Complete
<1>3. CASE PowerLoss
  BY <1>3, PowerLossFrame DEF Whole, Complete
<1>4. CASE UNCHANGED vars
  BY <1>4 DEF Whole, Complete, vars
<1> QED BY <1>1, <1>2, <1>3, <1>4 DEF Next, RunStep, Around

LEMMA NotFree ==
    ASSUME TypeInv
    PROVE /\ \A s \in Slot : dir[s].p \notin Free /\ dir[s].q \notin Free
          /\ \A r \in Run : run[r].held \notin Free
BY DEF Free

LEMMA VouchedStays ==
    ASSUME TypeInv, NamesInv, [Next]_vars, NEW s \in Slot, Vouched(s)
    PROVE Vouched(s)' /\ dir'[s].p = dir[s].p /\ tree'[dir[s].p].man = tree[dir[s].p].man
<1>0. dir[s].p \in Inode
  BY DEF Vouched, TypeInv, TypeOK, Names
<1>1. PICK i \in Inode : i = dir[s].p /\ Whole(i) /\ i \notin Free
  BY <1>0, NotFree DEF Vouched
<1>2. Whole(i)' /\ tree'[i].man = tree[i].man
  BY <1>1, WholeStays
<1>3. ASSUME dir'[s].p = i, durable'[s].p = i,
             \A r \in Run : run'[r].slot = s => run'[r].pc \notin Landing
      PROVE Vouched(s)' /\ dir'[s].p = dir[s].p /\ tree'[dir[s].p].man = tree[dir[s].p].man
  BY <1>0, <1>1, <1>2, <1>3 DEF Vouched
<1>4. ASSUME NEW r \in Run, RunStep(r)
      PROVE /\ dir'[s].p = i /\ durable'[s].p = i
            /\ \A t \in Run : run'[t].slot = s => run'[t].pc \notin Landing
  <2>1. s # run[r].slot \/ ~(Rename(r) \/ ValidatePublished(r) \/ Rollback(r))
    BY DEF Vouched, Rename, ValidatePublished, Rollback, Landing
  <2>2. dir'[s].p = i /\ durable'[s].p = i
    BY <1>1, <1>4, <2>1, NameMoves DEF Vouched
  <2>3. run'[r].slot = s => run'[r].pc \notin Landing
    BY <1>4, <2>1, LandingMoves DEF Vouched
  <2> QED BY <1>4, <2>2, <2>3, Moves DEF Vouched
<1>5. CASE Around
  <2>1. dir'[s].p = dir[s].p
    BY <1>5, AroundFrame DEF TypeInv, TypeOK, Names
  <2> QED BY <1>1, <1>3, <1>5, <2>1, AroundFrame DEF Vouched
<1>6. CASE PowerLoss
  <2>1. dir'[s].p = i /\ durable'[s].p = i
    BY <1>1, <1>6, PowerLossFrame DEF Vouched
  <2>2. \A r \in Run : run'[r].pc \notin Landing
    BY <1>6, PowerLossFrame DEF Landing, Fate, Running
  <2> QED BY <1>3, <2>1, <2>2
<1>7. CASE UNCHANGED vars
  BY <1>1, <1>3, <1>7 DEF Vouched, vars
<1> QED BY <1>3, <1>4, <1>5, <1>6, <1>7 DEF Next, RunStep, Around

-----------------------------------------------------------------------------
(* The invariant.                                                          *)

Clean(identity) == \A m \in Curated : identity[m] # "stray"

\* What a run has read back is whole and, in production, what was attested; a
\* production run that is done vouches for it.
HeldOK(r) ==
    /\ run[r].pc = "read" => run[r].held \in Inode
    /\ \/ run[r].pc \in {"publish", "rename", "validate"}
       \/ run[r].pc = "done" /\ r \notin Calibration
       => /\ run[r].held \in Inode /\ Whole(run[r].held)
          /\ r \notin Calibration => SameInventory(tree[run[r].held].man, run[r].auth)
    /\ run[r].pc = "done" /\ r \notin Calibration =>
         dir["store"].p = run[r].held /\ Vouched("store")

HeldInv == \A r \in Run : HeldOK(r)

SettledInv == \A s \in Slot : dir[s].p # None /\ ~Unsettled(s) => Vouched(s)

\* Only indexed packages are ever attested.
CleanInv ==
    /\ Clean(attest)
    /\ \A r \in Run \ Calibration : run[r].pc \in Promoting => Clean(run[r].auth)

Started(r) == run[r].pc \notin {"load", "bundle", "refused"}

\* One calibration gets past its bundle, and what its quarantine has is what it
\* copied, or the quarantine's name is gone.
CopiedInv ==
    /\ \A r, t \in Calibration : Started(r) /\ Started(t) => r = t
    /\ \A r \in Calibration :
         /\ run[r].pc = "mkdir" => run[r].recs = Nothing
         /\ run[r].pc \in {"copy", "pins", "verify"} /\ dir[run[r].slot].q # None =>
              tree[dir[run[r].slot].q].files = run[r].recs
         /\ run[r].pc \in {"manifest", "bind", "read"} =>
              run[r].recs["base"] # "stray" /\ run[r].recs["extra"] # "stray"

\* Both promotions of a calibration are vouched for and of acquisition a.
Reproduced(a) ==
    \A s \in Bundled : Vouched(s) /\ SameInventory(tree[dir[s].p].man, a)

CandidateInv ==
    /\ \A r \in Calibration : run[r].pc \in Candidate => Reproduced(run[r].auth)
    /\ \A r \in Calibration :
         run[r].pc = "candidate_attestation" => bundle.replay = run[r].auth
    /\ bundle # None /\ bundle.attest # None =>
         /\ bundle.replay = bundle.attest /\ Reproduced(bundle.attest)
         /\ \A r \in Calibration :
              run[r].pc \in {"load", "bundle", "receipt", "done", "refused"}

Inv == TypeInv /\ NamesInv /\ HeldInv /\ SettledInv /\ CleanInv /\ CopiedInv /\ CandidateInv

LEMMA InvInit == Init => Inv
<1> SUFFICES ASSUME Init PROVE Inv
  OBVIOUS
<1>1. TypeInv /\ NamesInv
  BY TypeInit, NamesInit
<1>2. \A r \in Run : run[r].pc \in {"refused", "load", "start"}
  <2>1. PICK crew \in Crews :
          run = [r \in Run |->
                  [pc |-> IF r \notin crew THEN "refused"
                          ELSE IF r \in Calibration THEN "load" ELSE "start",
                   slot |-> None, auth |-> None, todo |-> {}, recs |-> Nothing,
                   held |-> None, order |-> None, base |-> None, seen |-> None]]
    BY DEF Init
  <2> QED BY <2>1
<1>3. CleanInv
  BY <1>2 DEF CleanInv, Clean, Init, Old, New, Curated, Promoting
<1>4. \A s \in Slot : dir[s].p = None
  BY DEF Init
<1>5. bundle = None
  BY DEF Init
<1>6. HeldInv /\ SettledInv
  BY <1>2, <1>4 DEF HeldInv, HeldOK, SettledInv
<1>7. CopiedInv
  <2>1. \A r \in Calibration : run[r].pc \in {"load", "bundle", "refused"}
    BY <1>1, <1>2 DEF TypeInv, Placed
  <2> QED BY <2>1 DEF CopiedInv, Started
<1>8. CandidateInv
  BY <1>2, <1>5 DEF CandidateInv, Candidate
<1> QED BY <1>1, <1>3, <1>6, <1>7, <1>8 DEF Inv

\* A directory a run just found described to the last member is complete.
LEMMA ReadBackIsComplete ==
    ASSUME Inv, NEW r \in Run, ReadBack(r)
    PROVE /\ run[r].held \in Inode /\ Whole(run[r].held)
          /\ r \notin Calibration => SameInventory(tree[run[r].held].man, run[r].auth)
<1>1. /\ run[r].held \in Inode /\ run[r].pc = "read"
      /\ tree[run[r].held].man = tree[run[r].held].files /\ tree[run[r].held].man = run[r].recs
      /\ ManifestValid(tree[run[r].held].man) /\ tree[run[r].held].man # None
      /\ r \notin Calibration => SameInventory(tree[run[r].held].man, run[r].auth)
  BY DEF ReadBack, CacheExact, Inv, HeldInv, HeldOK
<1>2. /\ tree[run[r].held].man["base"] # "stray" /\ tree[run[r].held].man["extra"] # "stray"
  BY <1>1 DEF Inv, CopiedInv, CleanInv, Clean, SameInventory, Curated, Promoting
<1>3. tree[run[r].held].synced
  BY <1>1 DEF Inv, TypeInv, Recorded
<1> QED BY <1>1, <1>2, <1>3 DEF Whole, Complete, Acceptable, ManifestValid

\* Which step of a run makes it hold, read back, or be done with a directory.
LEMMA HeldMoves ==
    ASSUME TypeInv, NEW r \in Run, RunStep(r)
    PROVE /\ run'[r].pc = "read" => BindQuarantine(r)
          /\ run'[r].pc \in {"publish", "rename", "validate"} =>
               \/ ReadBack(r)
               \/ /\ run[r].pc \in {"publish", "rename"}
                  /\ run'[r].held = run[r].held /\ Carries(r)
          /\ run'[r].pc = "done" => \/ r \in Calibration
                                   \/ /\ ValidatePublished(r) /\ run[r].pc = "validate"
                                      /\ run'[r].held = run[r].held /\ Carries(r)
<1> USE DEF GoesTo, Keeps
<1>1. CASE LoadAuthorization(r) \/ Calibrate(r)
  <2>1. WriteReceipt(r) => r \in Calibration
    BY DEF WriteReceipt, TypeInv, Placed, Late, Candidate
  <2> QED BY <1>1, <2>1, PromotionEffect, CalibrationEffect DEF Calibrate
<1>2. CASE Promote(r) \/ Stop(r)
  BY <1>2, PromotionEffect DEF Promote, Fate
<1> QED BY <1>1, <1>2 DEF RunStep

LEMMA HeldStep == Inv /\ [Next]_vars => HeldInv'
<1> SUFFICES ASSUME Inv, [Next]_vars PROVE HeldInv'
  OBVIOUS
<1>0. TypeInv /\ NamesInv /\ HeldInv
  BY DEF Inv
<1>1. ASSUME NEW t \in Run, NEW i \in Inode, Whole(i), i \notin Free,
             t \notin Calibration => SameInventory(tree[i].man, run[t].auth),
             run'[t].held = i, run'[t].auth = run[t].auth, run'[t].pc # "read",
             run'[t].pc = "done" /\ t \notin Calibration =>
               dir'["store"].p = i /\ Vouched("store")'
      PROVE HeldOK(t)'
  <2>1. Whole(i)' /\ tree'[i].man = tree[i].man
    BY <1>0, <1>1, WholeStays
  <2>2. Whole(run[t].held)'
    BY <1>1, <2>1 DEF Whole, Complete
  <2> QED BY <1>1, <2>1, <2>2 DEF HeldOK, SameInventory
<1>2. ASSUME NEW t \in Run, run'[t].pc \notin {"read", "publish", "rename", "validate"},
             run'[t].pc # "done" \/ t \in Calibration
      PROVE HeldOK(t)'
  BY <1>2 DEF HeldOK
<1>3. ASSUME NEW t \in Run, run'[t] = run[t] PROVE HeldOK(t)'
  <2>1. CASE \/ run[t].pc \in {"publish", "rename", "validate"}
             \/ run[t].pc = "done" /\ t \notin Calibration
    <3>1. PICK i \in Inode : /\ i = run[t].held /\ Whole(i) /\ i \notin Free
                             /\ t \notin Calibration => SameInventory(tree[i].man, run[t].auth)
      BY <1>0, <2>1, NotFree DEF HeldInv, HeldOK
    <3>2. CASE run[t].pc = "done" /\ t \notin Calibration
      <4>1. dir["store"].p = i /\ Vouched("store")
        BY <1>0, <3>1, <3>2 DEF HeldInv, HeldOK
      <4>2. dir'["store"].p = i /\ Vouched("store")'
        BY <1>0, <4>1, VouchedStays DEF Slot
      <4> QED BY <1>1, <1>3, <3>1, <3>2, <4>2
    <3>3. CASE run[t].pc \in {"publish", "rename", "validate"}
      BY <1>1, <1>3, <3>1, <3>3
    <3> QED BY <2>1, <3>2, <3>3
  <2>2. CASE run[t].pc = "read"
    BY <1>0, <1>3, <2>2 DEF HeldInv, HeldOK
  <2>3. CASE /\ run[t].pc \notin {"read", "publish", "rename", "validate"}
             /\ run[t].pc # "done" \/ t \in Calibration
    BY <1>2, <1>3, <2>3
  <2> QED BY <2>1, <2>2, <2>3
<1>4. ASSUME NEW r \in Run, RunStep(r) PROVE HeldOK(r)'
  <2>1. CASE run'[r].pc = "read"
    <3>1. BindQuarantine(r)
      BY <1>0, <1>4, <2>1, HeldMoves
    <3>2. run'[r].held \in Inode
      BY <1>0, <3>1, InSlot, PromotionEffect DEF BindQuarantine, Promoting
    <3> QED BY <2>1, <3>2 DEF HeldOK
  <2>2. CASE run'[r].pc \in {"publish", "rename", "validate"}
    <3>1. /\ run[r].held \in Inode /\ Whole(run[r].held)
          /\ r \notin Calibration => SameInventory(tree[run[r].held].man, run[r].auth)
          /\ run'[r].held = run[r].held /\ run'[r].auth = run[r].auth
      <4>1. CASE ReadBack(r)
        BY <1>0, <4>1, ReadBackIsComplete, PromotionEffect DEF Keeps, Carries
      <4>2. CASE ~ReadBack(r)
        BY <1>0, <1>4, <2>2, <4>2, HeldMoves DEF Carries, HeldInv, HeldOK
      <4> QED BY <4>1, <4>2
    <3> QED BY <1>0, <1>1, <2>2, <3>1, NotFree
  <2>3. CASE run'[r].pc = "done" /\ r \notin Calibration
    <3>1. /\ ValidatePublished(r) /\ run[r].pc = "validate" /\ run[r].slot = "store"
          /\ run'[r].held = run[r].held /\ run'[r].auth = run[r].auth
      BY <1>0, <1>4, <2>3, HeldMoves, InSlot DEF Carries, Promoting
    <3>2. PICK i \in Inode : /\ i = run[r].held /\ Whole(i) /\ i \notin Free
                             /\ SameInventory(tree[i].man, run[r].auth)
      BY <1>0, <2>3, <3>1, NotFree DEF HeldInv, HeldOK
    <3>3. dir'["store"].p = i /\ durable'["store"].p = i
      BY <1>0, <3>1, <3>2 DEF ValidatePublished, TypeInv, TypeOK, Slot
    <3>4. \A t \in Run : run'[t].slot = "store" => run'[t].pc \notin Landing
      BY <1>0, <1>4, <2>3, <3>1, Moves DEF NamesInv, Landing
    <3>5. Whole(i)'
      BY <1>0, <3>2, WholeStays
    <3>6. Vouched("store")'
      BY <1>0, <3>3, <3>4, <3>5 DEF Vouched, Whole, Complete
    <3> QED BY <1>1, <2>3, <3>1, <3>2, <3>3, <3>6
  <2> QED BY <1>2, <2>1, <2>2, <2>3
<1>5. ASSUME NEW r \in Run, RunStep(r) PROVE HeldInv'
  BY <1>0, <1>3, <1>4, <1>5, Moves DEF HeldInv
<1>6. CASE Around
  BY <1>0, <1>3, <1>6, AroundFrame DEF HeldInv
<1>7. CASE PowerLoss
  <2>1. ASSUME NEW t \in Run PROVE HeldOK(t)'
    <3>1. CASE run'[t] = run[t]
      BY <1>3, <3>1
    <3>2. CASE run'[t].pc = Fate(t)
      BY <1>2, <3>2 DEF Fate
    <3> QED BY <1>0, <1>7, <3>1, <3>2, PowerLossFrame
  <2> QED BY <2>1 DEF HeldInv
<1>8. CASE UNCHANGED vars
  BY <1>0, <1>3, <1>8 DEF vars, HeldInv
<1> QED BY <1>5, <1>6, <1>7, <1>8 DEF Next, RunStep, Around

LEMMA SettledStep == Inv /\ [Next]_vars => SettledInv'
<1> SUFFICES ASSUME Inv, [Next]_vars, NEW s \in Slot, dir'[s].p # None, ~Unsettled(s)'
             PROVE Vouched(s)'
  BY DEF SettledInv
<1>0. TypeInv /\ NamesInv /\ HeldInv /\ SettledInv
  BY DEF Inv
<1>1. CASE Vouched(s)
  BY <1>0, <1>1, VouchedStays
<1>2. CASE ~Vouched(s)
  <2>0. dir[s].p = None \/ Unsettled(s)
    BY <1>0, <1>2 DEF SettledInv
  <2>1. ASSUME NEW r \in Run, RunStep(r) PROVE Vouched(s)'
    <3>1. /\ run'[r].pc \in Landing \union {"stuck"} => run'[r].slot # s
          /\ \A t \in Run \ {r} : run'[t] = run[t]
      BY <1>0, <2>1, Moves DEF Unsettled, Landing
    <3>2. dir[s].p # None
      <4>1. ~(Rename(r) /\ s = run[r].slot)
        BY <1>0, <2>1, <3>1, LandingMoves
      <4> QED BY <1>0, <2>1, <4>1, NameMoves
    <3>3. PICK t \in Run : run[t].slot = s /\ run[t].pc \in Landing \union {"stuck"}
      BY <2>0, <3>2 DEF Unsettled, Landing
    <3>4. t = r
      BY <1>0, <3>1, <3>3, Moves DEF Unsettled, Landing
    <3>5. ValidatePublished(r) /\ run[r].slot = s /\ run[r].pc = "validate"
      <4>1. run[r].slot = s /\ run[r].pc \in Landing
        BY <1>0, <2>1, <3>3, <3>4, LandingMoves
      <4>2. ValidatePublished(r)
        BY <1>0, <2>1, <3>1, <4>1, LandingMoves
      <4> QED BY <4>1, <4>2 DEF ValidatePublished
    <3>6. dir'[s].p = run[r].held /\ durable'[s].p = run[r].held /\ dir[s].p = run[r].held
      BY <1>0, <3>5 DEF ValidatePublished, TypeInv, TypeOK
    <3>7. PICK i \in Inode : i = run[r].held /\ Whole(i) /\ i \notin Free
      BY <1>0, <3>5, NotFree DEF HeldInv, HeldOK
    <3>8. Whole(i)'
      BY <1>0, <3>7, WholeStays
    <3>9. \A u \in Run : run'[u].slot = s => run'[u].pc \notin Landing
      BY <3>1, <3>3, <3>4, <3>5, <1>0 DEF NamesInv, Landing
    <3> QED BY <3>2, <3>6, <3>7, <3>8, <3>9 DEF Vouched, Whole, Complete
  <2>2. CASE Around
    BY <1>0, <2>0, <2>2, AroundFrame DEF Unsettled, TypeInv, TypeOK, Names
  <2>3. CASE PowerLoss
    <3>1. dir[s].p # None
      BY <1>0, <2>3, PowerLossFrame DEF NamesInv
    <3> QED BY <1>0, <2>0, <2>3, <3>1, PowerLossFrame DEF Unsettled, Running, Fate
  <2>4. CASE UNCHANGED vars
    BY <2>0, <2>4 DEF Unsettled, vars
  <2> QED BY <2>1, <2>2, <2>3, <2>4 DEF Next, RunStep, Around
<1> QED BY <1>1, <1>2

\* What a vouched name and acquisition say of each other stays.
LEMMA ReproducedStays ==
    ASSUME Inv, [Next]_vars, NEW a, Reproduced(a)
    PROVE /\ \A s \in Bundled : Vouched(s)' /\ SameInventory(tree'[dir'[s].p].man, a)
          /\ Clean(a)
<1>0. TypeInv /\ NamesInv
  BY DEF Inv
<1>1. ASSUME NEW s \in Bundled
      PROVE Vouched(s)' /\ SameInventory(tree'[dir'[s].p].man, a)
  <2>1. s \in Slot /\ Vouched(s) /\ SameInventory(tree[dir[s].p].man, a)
    BY <1>1 DEF Reproduced, Bundled, Slot
  <2> QED BY <1>0, <2>1, VouchedStays DEF SameInventory
<1>2. Clean(a)
  <2>1. Vouched("first") /\ SameInventory(tree[dir["first"].p].man, a)
    BY DEF Reproduced, Bundled
  <2> QED BY <2>1 DEF Vouched, Whole, Complete, Acceptable, SameInventory, Clean, Curated
<1> QED BY <1>1, <1>2

LEMMA CleanStep == Inv /\ [Next]_vars => CleanInv'
<1> SUFFICES ASSUME Inv, [Next]_vars PROVE CleanInv'
  OBVIOUS
<1>0. TypeInv /\ CleanInv /\ CandidateInv
  BY DEF Inv
<1>1. ASSUME NEW r \in Run, RunStep(r) PROVE CleanInv'
  <2>1. attest' = attest /\ \A t \in Run \ {r} : run'[t] = run[t]
    BY <1>0, <1>1, Frame, Moves DEF World
  <2>2. run'[r].pc \in Promoting /\ r \notin Calibration =>
          Clean(run'[r].auth)
    <3>1. CASE LoadAuthorization(r)
      BY <1>0, <3>1, PromotionEffect DEF CleanInv
    <3>2. CASE Calibrate(r)
      <4>1. r \notin Calibration => FALSE
        BY <1>0, <3>2 DEF Calibrate, LoadExecutionState, CreateBundle, CopySnapshotMember,
             HoldSnapshot, StartPromotion, BindOutput, RevalidateInputs, FinalRevalidation,
             WriteCandidateReplay, WriteCandidateAttestation, WriteReceipt, TypeInv, Placed,
             Preparing, Binding, Late, Candidate
      <4> QED BY <4>1
    <3>3. CASE Promote(r) /\ ~Rollback(r)
      <4>1. Carries(r) /\ run[r].pc \in Promoting
        BY <1>0, <3>3, PromotionEffect DEF Promote, GoesTo, Keeps, Promoting
      <4> QED BY <1>0, <4>1 DEF CleanInv, Carries
    <3>4. CASE Rollback(r) \/ Stop(r)
      BY <1>0, <3>4, PromotionEffect DEF Fate, Promoting
    <3> QED BY <1>1, <3>1, <3>2, <3>3, <3>4 DEF RunStep
  <2> QED BY <1>0, <2>1, <2>2 DEF CleanInv, Clean
<1>2. CASE Around
  <2>1. run' = run /\ (attest' = attest \/ InstallCandidate)
    BY <1>0, <1>2, AroundFrame
  <2>2. CASE InstallCandidate
    <3>1. attest' = bundle.attest /\ Reproduced(bundle.attest)
      BY <1>0, <2>2 DEF InstallCandidate, TypeInv, CandidateInv
    <3>2. Clean(bundle.attest)
      BY <3>1, ReproducedStays
    <3> QED BY <1>0, <2>1, <3>1, <3>2 DEF CleanInv, Clean
  <2> QED BY <1>0, <2>1, <2>2 DEF CleanInv, Clean
<1>3. CASE PowerLoss
  <2>1. \A t \in Run : run'[t].pc \notin Promoting
    BY <1>0, <1>3, PowerLossFrame DEF Running, Fate, Promoting
  <2> QED BY <1>0, <1>3, <2>1 DEF CleanInv, Clean, PowerLoss, World
<1>4. CASE UNCHANGED vars
  BY <1>0, <1>4 DEF CleanInv, Clean, vars
<1> QED BY <1>1, <1>2, <1>3, <1>4 DEF Next, RunStep, Around

-----------------------------------------------------------------------------
(* A calibration's quarantines.                                            *)

\* A run writes into the directory its quarantine's name stands for, or makes
\* a new one.
LEMMA WritesAtItsName ==
    ASSUME TypeInv, NEW r \in Run, RunStep(r), NEW i \in Inode, i \notin Free,
           run[r].pc \in Promoting => i # dir[run[r].slot].q
    PROVE tree'[i] = tree[i]
<1>0. tree \in [Inode -> Directory]
  BY DEF TypeInv, TypeOK
<1>1. CASE MakeQuarantine(r)
  <2>1. PICK j : j = CHOOSE k \in Free : TRUE
    OBVIOUS
  <2>2. j \in Free /\ tree' = [tree EXCEPT ![j] = EmptyTree]
    BY <1>1, <2>1 DEF MakeQuarantine
  <2> QED BY <1>0, <2>2
<1>2. CASE CopyMember(r) \/ CopyKeys(r)
  BY <1>0, <1>2 DEF CopyMember, CopyKeys, Promoting
<1>3. CASE BootstrapVerifier(r) \/ CloseVerifier(r) \/ WriteManifest(r)
  BY <1>0, <1>3 DEF BootstrapVerifier, CloseVerifier, WriteManifest, Promoting
<1>4. CASE tree' = tree
  BY <1>4
<1> QED BY <1>1, <1>2, <1>3, <1>4, Frame

\* A calibration gets past its bundle only when there was none.
LEMMA StartMoves ==
    ASSUME TypeInv, NEW r \in Calibration, RunStep(r), Started(r)'
    PROVE Started(r) \/ CreateBundle(r)
<1>0. r \in Run
  OBVIOUS
<1>1. CASE Promote(r) \/ LoadAuthorization(r)
  BY <1>0, <1>1, PromotionEffect DEF Promote, GoesTo, Started
<1>2. CASE Calibrate(r)
  BY <1>0, <1>2, CalibrationEffect DEF Calibrate, GoesTo, Started
<1>3. CASE Stop(r)
  BY <1>0, <1>3, PromotionEffect DEF Fate, Started
<1> QED BY <1>1, <1>2, <1>3 DEF RunStep

\* Without a bundle no calibration has started.
LEMMA NoneStarted ==
    ASSUME TypeInv, bundle = None
    PROVE \A r \in Calibration : ~Started(r)
BY DEF TypeInv, Placed, Started

CopiedOK(r) ==
    /\ run[r].pc = "mkdir" => run[r].recs = Nothing
    /\ run[r].pc \in {"copy", "pins", "verify"} /\ dir[run[r].slot].q # None =>
         tree[dir[run[r].slot].q].files = run[r].recs
    /\ run[r].pc \in {"manifest", "bind", "read"} =>
         run[r].recs["base"] # "stray" /\ run[r].recs["extra"] # "stray"

\* A calibration's own step.
LEMMA OwnCopy ==
    ASSUME TypeInv, NEW r \in Calibration, CopiedOK(r), RunStep(r)
    PROVE CopiedOK(r)'
<1>0. /\ r \in Run /\ run \in [Run -> Process] /\ tree \in [Inode -> Directory]
      /\ dir \in [Slot -> Names]
  BY DEF TypeInv, TypeOK
<1>1. ASSUME run'[r].pc \notin {"mkdir", "copy", "pins", "verify", "manifest", "bind", "read"}
      PROVE CopiedOK(r)'
  BY <1>1 DEF CopiedOK
<1>2. CASE CheckInputs(r)
  BY <1>0, <1>2, PromotionEffect DEF CopiedOK, GoesTo
<1>3. CASE MakeQuarantine(r)
  <2> DEFINE s == run[r].slot
  <2>1. s \in Slot /\ run'[r].slot = s /\ run'[r].pc = "copy" /\ run'[r].recs = Nothing
    BY <1>0, <1>3, InSlot, PromotionEffect DEF MakeQuarantine, Promoting, GoesTo, Keeps,
         Carries, CopiedOK
  <2>2. PICK i : i = CHOOSE j \in Free : TRUE
    OBVIOUS
  <2>3. i \in Inode
    BY <1>3, <2>2 DEF MakeQuarantine, Free
  <2>4. dir' = [dir EXCEPT ![s].q = i] /\ tree' = [tree EXCEPT ![i] = EmptyTree]
    BY <1>3, <2>2 DEF MakeQuarantine
  <2> HIDE DEF s
  <2>5. dir'[s].q = i
    BY <1>0, <2>1, <2>4 DEF Names
  <2>6. tree'[i].files = Nothing
    BY <1>0, <2>3, <2>4 DEF EmptyTree
  <2> QED BY <2>1, <2>5, <2>6 DEF CopiedOK
<1>4. ASSUME NEW m \in Member, NEW c \in Content, NEW q \in Inode,
             q = dir[run[r].slot].q, run[r].pc = "copy",
             tree' = [tree EXCEPT ![q].files[m] = c], dir' = dir,
             run'[r].recs = [run[r].recs EXCEPT ![m] = c], run'[r].slot = run[r].slot,
             run'[r].pc \in {"copy", "pins"}
      PROVE CopiedOK(r)'
  <2>1. tree[q].files = run[r].recs
    BY <1>4 DEF CopiedOK
  <2>2. tree'[q].files = [tree[q].files EXCEPT ![m] = c]
    BY <1>0, <1>4 DEF Directory
  <2> QED BY <1>4, <2>1, <2>2 DEF CopiedOK
<1>5. CASE CopyMember(r)
  <2>1. PICK m : m = CHOOSE n \in run[r].todo : TRUE
    OBVIOUS
  <2>2. m \in Curated /\ Source(r) \in Acquisition
    BY <1>0, <1>5, <2>1, CopiedMember DEF CopyMember, Promoting
  <2>3. PICK c \in Content : c = Source(r)[m] /\ m \in Member
    BY <2>2 DEF Acquisition, Member
  <2>4. PICK q \in Inode : q = dir[run[r].slot].q
    BY <1>0, <1>5, InSlot DEF CopyMember, Promoting
  <2>5. /\ tree' = [tree EXCEPT ![q].files[m] = c] /\ dir' = dir /\ run[r].pc = "copy"
        /\ run' = [run EXCEPT ![r] = [run[r] EXCEPT !.todo = @ \ {m}, !.recs[m] = c]]
    BY <1>5, <2>1, <2>3, <2>4 DEF CopyMember
  <2>6. run'[r].recs = [run[r].recs EXCEPT ![m] = c]
    BY <1>0, <2>5 DEF Process
  <2>7. run'[r].slot = run[r].slot /\ run'[r].pc = "copy"
    BY <1>0, <1>5, PromotionEffect DEF GoesTo, Carries
  <2> QED BY <1>4, <2>3, <2>4, <2>5, <2>6, <2>7
<1>6. CASE CopyKeys(r)
  <2>1. PICK m \in Member, c \in Content : m = "key" /\ c = "good"
    BY DEF Member, Content
  <2>2. PICK q \in Inode : q = dir[run[r].slot].q
    BY <1>0, <1>6, InSlot DEF CopyKeys, Promoting
  <2>3. /\ tree' = [tree EXCEPT ![q].files[m] = c] /\ dir' = dir /\ run[r].pc = "copy"
        /\ run' = [run EXCEPT ![r] = [run[r] EXCEPT !.pc = "pins", !.recs[m] = c]]
    BY <1>6, <2>1, <2>2 DEF CopyKeys
  <2>4. run'[r].recs = [run[r].recs EXCEPT ![m] = c]
    BY <1>0, <2>3 DEF Process
  <2>5. run'[r].slot = run[r].slot /\ run'[r].pc = "pins"
    BY <1>0, <1>6, PromotionEffect DEF GoesTo, Carries
  <2> QED BY <1>4, <2>1, <2>2, <2>3, <2>4, <2>5
<1>7. CASE CheckPins(r)
  BY <1>0, <1>7, PromotionEffect DEF CheckPins, Disk, GoesTo, Keeps, Carries, CopiedOK
<1>8. CASE VerifyArtifacts(r)
  <2>1. /\ run[r].pc = "verify" /\ dir[run[r].slot].q # None
        /\ ArtifactsVerified(tree[dir[run[r].slot].q].files)
    BY <1>8 DEF VerifyArtifacts
  <2>2. run[r].recs["base"] # "stray" /\ run[r].recs["extra"] # "stray"
    BY <2>1 DEF CopiedOK, ArtifactsVerified, ApkIndexed
  <2> QED BY <1>0, <1>8, <2>2, PromotionEffect DEF GoesTo, Keeps, CopiedOK
<1>9. CASE WriteManifest(r) \/ BindQuarantine(r)
  BY <1>0, <1>9, PromotionEffect DEF GoesTo, Keeps, CopiedOK
<1>10. CASE \/ ReadBack(r) \/ CheckDestination(r) \/ Rename(r)
            \/ ValidatePublished(r) \/ ValidateFails(r) \/ Rollback(r) \/ Stop(r)
            \/ LoadAuthorization(r)
  BY <1>0, <1>1, <1>10, PromotionEffect DEF GoesTo, Fate
<1>11. CASE BootstrapVerifier(r) \/ CloseVerifier(r)
  BY <1>0, <1>11 DEF BootstrapVerifier, CloseVerifier, TypeInv, Placed
<1>12. CASE Calibrate(r)
  BY <1>0, <1>1, <1>12, CalibrationEffect DEF Calibrate, GoesTo
<1> QED
  BY <1>2, <1>3, <1>5, <1>6, <1>7, <1>8, <1>9, <1>10, <1>11, <1>12 DEF RunStep, Promote

LEMMA CopiedStep == Inv /\ [Next]_vars => CopiedInv'
<1> SUFFICES ASSUME Inv, [Next]_vars PROVE CopiedInv'
  OBVIOUS
<1>0. TypeInv /\ NamesInv
  BY DEF Inv
<1>1. /\ \A r, t \in Calibration : Started(r) /\ Started(t) => r = t
      /\ \A r \in Calibration : CopiedOK(r)
  BY DEF Inv, CopiedInv, CopiedOK
<1>2. SUFFICES /\ \A r, t \in Calibration : Started(r)' /\ Started(t)' => r = t
               /\ \A r \in Calibration : CopiedOK(r)'
  BY DEF CopiedInv, CopiedOK, Started
<1>3. ASSUME NEW u \in Run, RunStep(u)
      PROVE /\ \A r, t \in Calibration : Started(r)' /\ Started(t)' => r = t
            /\ \A r \in Calibration : CopiedOK(r)'
  <2>0. \A t \in Run \ {u} : run'[t] = run[t]
    BY <1>0, <1>3, Moves
  <2>1. ASSUME NEW r \in Calibration, NEW t \in Calibration, Started(r)', Started(t)'
        PROVE r = t
    <3>1. \A v \in Calibration : Started(v)' => Started(v) \/ (v = u /\ bundle = None)
      <4>1. ASSUME NEW v \in Calibration, Started(v)'
            PROVE Started(v) \/ (v = u /\ bundle = None)
        <5>1. CASE v = u
          BY <1>0, <1>3, <4>1, <5>1, StartMoves DEF CreateBundle
        <5>2. CASE v # u
          BY <2>0, <4>1, <5>2 DEF Started
        <5> QED BY <5>1, <5>2
      <4> QED BY <4>1
    <3> QED BY <1>0, <1>1, <2>1, <3>1, NoneStarted
  <2>2. ASSUME NEW r \in Calibration PROVE CopiedOK(r)'
    <3>1. CASE r = u
      BY <1>0, <1>1, <1>3, <3>1, OwnCopy
    <3>2. CASE r # u
      <4>1. run'[r] = run[r]
        BY <2>0, <3>2
      <4>2. CASE run[r].pc \in {"copy", "pins", "verify"}
        <5>1. Started(r) /\ run[r].slot \in Bundled /\ run[r].slot \in Slot
          BY <1>0, <4>2, InSlot DEF Started, Promoting
        <5>2. run[u].pc \in Promoting => run[u].slot \in Slot /\ run[u].slot # run[r].slot
          <6>1. CASE u \in Calibration
            BY <1>1, <3>2, <5>1, <6>1 DEF Started, Promoting
          <6>2. CASE u \notin Calibration
            BY <1>0, <5>1, <6>2, InSlot DEF Bundled
          <6> QED BY <6>1, <6>2
        <5>3. dir'[run[r].slot] = dir[run[r].slot]
          <6>1. MakeQuarantine(u) \/ Rename(u) \/ Rollback(u) => run[u].pc \in Promoting
            BY DEF MakeQuarantine, Rename, Rollback, Promoting
          <6> QED BY <1>0, <1>3, <5>1, <5>2, <6>1, RunNames, Frame
        <5>4. ASSUME dir[run[r].slot].q # None
              PROVE tree'[dir[run[r].slot].q] = tree[dir[run[r].slot].q]
          <6>1. PICK i \in Inode : i = dir[run[r].slot].q
            BY <1>0, <5>1, <5>4 DEF TypeInv, TypeOK, Names
          <6>2. i \notin Free
            BY <1>0, <5>1, <6>1, NotFree
          <6>3. run[u].pc \in Promoting => i # dir[run[u].slot].q
            <7>1. \A s, t \in Slot : s # t => NamesOf(s) \intersect NamesOf(t) \subseteq {None}
              BY DEF Inv, NamesInv
            <7>2. i \in NamesOf(run[r].slot) /\ i # None
              BY <6>1, OfflineCacheAssumption DEF NamesOf
            <7> QED BY <5>1, <5>2, <7>1, <7>2 DEF NamesOf
          <6> QED BY <1>0, <1>3, <6>1, <6>2, <6>3, WritesAtItsName
        <5> QED BY <1>1, <4>1, <4>2, <5>3, <5>4 DEF CopiedOK
      <4>3. CASE run[r].pc \notin {"copy", "pins", "verify"}
        BY <1>1, <4>1, <4>3 DEF CopiedOK
      <4> QED BY <4>2, <4>3
    <3> QED BY <3>1, <3>2
  <2> QED BY <2>1, <2>2
<1>4. CASE Around
  <2>1. run' = run /\ tree' = tree
    BY <1>0, <1>4, AroundFrame
  <2>2. \A s \in Slot : dir'[s].q # None => dir'[s].q = dir[s].q
    BY <1>0, <1>4, AroundFrame DEF TypeInv, TypeOK, Names
  <2>3. \A r \in Calibration : run[r].pc \in {"copy", "pins", "verify"} => run[r].slot \in Slot
    BY <1>0, InSlot DEF Promoting
  <2> QED BY <1>1, <2>1, <2>2, <2>3 DEF CopiedOK, Started
<1>5. CASE PowerLoss
  <2>1. \A r \in Calibration : \/ ~Running(r) /\ run'[r] = run[r]
                               \/ Running(r) /\ run'[r].pc = Fate(r)
    BY <1>0, <1>5, PowerLossFrame
  <2>2. \A r \in Calibration : Started(r)' => Started(r)
    BY <2>1 DEF Started, Fate, Running
  <2>3. \A r \in Calibration :
          run'[r].pc \notin {"mkdir", "copy", "pins", "verify", "manifest", "bind", "read"}
    BY <2>1 DEF Running, Fate
  <2> QED BY <1>1, <2>2, <2>3 DEF CopiedOK
<1>6. CASE UNCHANGED vars
  BY <1>1, <1>6 DEF CopiedOK, Started, vars
<1> QED BY <1>2, <1>3, <1>4, <1>5, <1>6 DEF Next, RunStep, Around

-----------------------------------------------------------------------------
(* A calibration's candidates.                                             *)

\* Where a step of a run leads a calibration that may soon write a candidate.
LEMMA CandidateMoves ==
    ASSUME TypeInv, NEW r \in Calibration, RunStep(r)
    PROVE /\ run'[r].pc \in Candidate =>
               /\ run'[r].auth = run[r].auth
               /\ FinalRevalidation(r) \/ run[r].pc \in Candidate
          /\ run'[r].pc = "candidate_attestation" => WriteCandidateReplay(r)
          /\ WriteCandidateReplay(r) => run[r].pc = "candidate_replay"
          /\ WriteCandidateAttestation(r) =>
               run[r].pc = "candidate_attestation" /\ run'[r].pc = "receipt"
          /\ run[r].pc \in {"load", "bundle", "receipt", "done", "refused"} =>
               CreateBundle(r) \/ run'[r].pc \in {"load", "bundle", "receipt", "done", "refused"}
<1>0. r \in Run
  OBVIOUS
<1> USE DEF GoesTo, Carries, Keeps, Candidate
<1>1. CASE Promote(r) \/ LoadAuthorization(r)
  <2>1. run'[r].pc \notin Candidate /\ run[r].pc \in Promoting \union {"start"}
    BY <1>0, <1>1, PromotionEffect DEF Promote, Promoting
  <2> QED BY <2>1 DEF Promoting, WriteCandidateReplay, WriteCandidateAttestation
<1>2. CASE Calibrate(r)
  BY <1>0, <1>2, CalibrationEffect DEF Calibrate
<1>3. CASE Stop(r)
  <2>1. run'[r].pc \in {"refused", "stuck"} /\ run[r].pc \notin {"load", "done", "refused"}
    BY <1>0, <1>3, PromotionEffect DEF Fate, Running
  <2>2. run'[r].pc = "stuck" => run[r].pc \in {"validate", "rollback"}
    BY <1>0, <1>3, PromotionEffect DEF Fate
  <2> QED BY <1>0, <2>1, <2>2, CalibrationEffect DEF WriteCandidateReplay
<1> QED BY <1>1, <1>2, <1>3 DEF RunStep

\* What the last look at both promotions finds.
LEMMA FinalFindsBoth ==
    ASSUME Inv, NEW r \in Calibration, FinalRevalidation(r)
    PROVE Reproduced(run[r].auth)
<1>0. TypeInv /\ SettledInv /\ CopiedInv /\ run[r].pc = "final"
  BY DEF Inv, FinalRevalidation
<1>1. ASSUME NEW s \in Bundled
      PROVE Vouched(s) /\ SameInventory(tree[dir[s].p].man, run[r].auth)
  <2>1. s \in Slot /\ dir[s].p # None
    BY <1>1 DEF FinalRevalidation, Revalidated, Bundled, Slot
  <2>2. ASSUME NEW t \in Run, run[t].slot = s, run[t].pc \in {"validate", "rollback", "stuck"}
        PROVE FALSE
    <3>1. t \in Calibration
      BY <1>0, <1>1, <2>2, InSlot DEF Promoting, Bundled
    <3> QED BY <1>0, <2>2, <3>1 DEF CopiedInv, Started
  <2>3. Vouched(s)
    BY <1>0, <2>1, <2>2 DEF SettledInv, Unsettled
  <2>4. SameInventory(tree[dir[s].p].man, bundle.snap) /\ SameInventory(bundle.snap, run[r].auth)
    BY <1>1 DEF FinalRevalidation, BoundToSnapshot, SnapshotUnchanged
  <2> QED BY <2>3, <2>4 DEF SameInventory
<1> QED BY <1>1 DEF Reproduced

LEMMA CandidateStep == Inv /\ [Next]_vars => CandidateInv'
<1> SUFFICES ASSUME Inv, [Next]_vars PROVE CandidateInv'
  OBVIOUS
<1>0. TypeInv /\ CandidateInv /\ CopiedInv
  BY DEF Inv
<1>1. ASSUME NEW t \in Calibration, run'[t].pc \in Candidate, run'[t].auth = run[t].auth,
             Reproduced(run[t].auth)
      PROVE Reproduced(run[t].auth)'
  BY <1>1, ReproducedStays DEF Reproduced
<1>2. ASSUME bundle # None, bundle.attest # None, bundle'.attest = bundle.attest
      PROVE Reproduced(bundle.attest)'
  <2>1. Reproduced(bundle.attest)
    BY <1>0, <1>2 DEF CandidateInv
  <2> QED BY <1>2, <2>1, ReproducedStays DEF Reproduced
<1>3. ASSUME NEW u \in Run, RunStep(u) PROVE CandidateInv'
  <2>0. /\ \A t \in Run \ {u} : run'[t] = run[t]
        /\ u \notin Calibration => ~WriteCandidateReplay(u) /\ ~WriteCandidateAttestation(u)
                                 /\ ~CreateBundle(u)
    BY <1>0, <1>3, Moves DEF WriteCandidateReplay, WriteCandidateAttestation, CreateBundle,
         TypeInv, Placed, Preparing, Late, Candidate
  <2>1. ASSUME NEW t \in Calibration, run'[t].pc \in Candidate PROVE Reproduced(run[t].auth)'
    <3>1. run'[t].auth = run[t].auth /\ Reproduced(run[t].auth)
      <4>1. CASE t = u
        BY <1>0, <1>3, <2>1, <4>1, CandidateMoves, FinalFindsBoth DEF CandidateInv
      <4>2. CASE t # u
        BY <1>0, <2>0, <2>1, <4>2 DEF CandidateInv
      <4> QED BY <4>1, <4>2
    <3> QED BY <1>1, <2>1, <3>1
  <2>2. ASSUME NEW t \in Calibration, run'[t].pc = "candidate_attestation"
        PROVE bundle'.replay = run'[t].auth
    <3>1. CASE t = u
      <4>1. WriteCandidateReplay(u) /\ run'[u].auth = run[u].auth
        BY <1>0, <1>3, <2>2, <3>1, CandidateMoves DEF Candidate
      <4> QED BY <1>0, <1>3, <3>1, <4>1, RunBundle
    <3>2. CASE t # u
      <4>1. run[t].pc = "candidate_attestation" /\ bundle.replay = run[t].auth
        BY <1>0, <2>0, <2>2, <3>2 DEF CandidateInv
      <4>2. bundle # None
        BY <1>0, <4>1 DEF TypeInv, Placed
      <4>3. ~WriteCandidateReplay(u)
        BY <1>0, <2>0, <3>2, <4>1 DEF WriteCandidateReplay, CopiedInv, Started
      <4> QED BY <1>0, <1>3, <2>0, <3>2, <4>1, <4>2, <4>3, RunBundle
    <3> QED BY <3>1, <3>2
  <2>3. ASSUME bundle' # None, bundle'.attest # None
        PROVE /\ bundle'.replay = bundle'.attest /\ Reproduced(bundle.attest)'
              /\ \A t \in Calibration :
                   run'[t].pc \in {"load", "bundle", "receipt", "done", "refused"}
    <3>1. CASE WriteCandidateAttestation(u)
      <4>1. /\ u \in Calibration /\ run[u].pc = "candidate_attestation"
            /\ run'[u].pc = "receipt" /\ run'[u].auth = run[u].auth
            /\ bundle # None /\ bundle'.attest = run[u].auth
        BY <1>0, <1>3, <2>0, <3>1, CandidateMoves, RunBundle DEF Candidate
      <4>2. bundle.replay = run[u].auth /\ Reproduced(run[u].auth)
        BY <1>0, <4>1 DEF CandidateInv, Candidate
      <4>3. bundle'.replay = bundle.replay
        <5>1. ~WriteCandidateReplay(u)
          BY <4>1 DEF WriteCandidateReplay
        <5> QED BY <1>0, <1>3, <4>1, <5>1, RunBundle
      <4>4. Reproduced(bundle.attest)'
        BY <4>1, <4>2, ReproducedStays DEF Reproduced
      <4>5. ASSUME NEW t \in Calibration
            PROVE run'[t].pc \in {"load", "bundle", "receipt", "done", "refused"}
        <5>1. CASE t # u
          BY <1>0, <2>0, <4>1, <5>1 DEF CopiedInv, Started
        <5> QED BY <4>1, <5>1
      <4> QED BY <4>1, <4>2, <4>3, <4>4, <4>5
    <3>2. CASE ~WriteCandidateAttestation(u)
      <4>1. bundle # None
        BY <1>0, <1>3, <2>3, RunBundle, Frame DEF CopySnapshotMember, TypeInv, Placed,
           Preparing,
             Binding, Late, Candidate, WriteReceipt
      <4>2. bundle'.attest = bundle.attest
        BY <1>0, <1>3, <3>2, <4>1, RunBundle
      <4>3. /\ bundle.replay = bundle.attest
            /\ \A t \in Calibration :
                 run[t].pc \in {"load", "bundle", "receipt", "done", "refused"}
        BY <1>0, <2>3, <4>1, <4>2 DEF CandidateInv
      <4>4. Reproduced(bundle.attest)'
        BY <1>2, <2>3, <4>1, <4>2
      <4>5. ~WriteCandidateReplay(u) /\ ~CreateBundle(u)
        BY <2>0, <4>1, <4>3 DEF WriteCandidateReplay, CreateBundle
      <4>6. bundle'.replay = bundle.replay
        BY <1>0, <1>3, <4>1, <4>5, RunBundle
      <4>7. ASSUME NEW t \in Calibration
            PROVE run'[t].pc \in {"load", "bundle", "receipt", "done", "refused"}
        BY <1>0, <1>3, <2>0, <4>3, <4>5, CandidateMoves
      <4> QED BY <4>2, <4>3, <4>4, <4>6, <4>7
    <3> QED BY <3>1, <3>2
  <2> QED BY <2>1, <2>2, <2>3 DEF CandidateInv
<1>4. CASE run' = run /\ (Around \/ UNCHANGED vars)
  <2>1. /\ bundle # None => /\ bundle' # None
                            /\ bundle'.attest = bundle.attest /\ bundle'.replay = bundle.replay
        /\ bundle = None => bundle' = None
    BY <1>0, <1>4, AroundFrame DEF vars
  <2>2. \A t \in Calibration : run[t].pc = "candidate_attestation" => bundle # None
    BY <1>0 DEF TypeInv, Placed
  <2> QED BY <1>0, <1>1, <1>2, <1>4, <2>1, <2>2 DEF CandidateInv
<1>5. CASE PowerLoss
  <2>1. \A r \in Calibration : \/ ~Running(r) /\ run'[r] = run[r]
                               \/ Running(r) /\ run'[r].pc = Fate(r)
    BY <1>0, <1>5, PowerLossFrame
  <2>2. \A r \in Calibration : run'[r].pc \notin Candidate
    BY <2>1 DEF Running, Fate, Candidate
  <2>3. bundle' = bundle
    BY <1>5 DEF PowerLoss
  <2>4. ASSUME NEW r \in Calibration,
               run[r].pc \in {"load", "bundle", "receipt", "done", "refused"}
        PROVE run'[r].pc \in {"load", "bundle", "receipt", "done", "refused"}
    BY <2>1, <2>4 DEF Running, Fate
  <2> QED BY <1>0, <1>2, <2>2, <2>3, <2>4 DEF CandidateInv, Candidate
<1> QED
  <2>1. Around \/ UNCHANGED vars => run' = run
    BY <1>0, AroundFrame DEF vars
  <2> QED BY <1>3, <1>4, <1>5, <2>1 DEF Next, RunStep, Around

LEMMA InvStep == Inv /\ [Next]_vars => Inv'
BY TypeStep, NamesStep, HeldStep, SettledStep, CleanStep, CopiedStep, CandidateStep DEF Inv

\* The inductive invariant holds throughout.
LEMMA Invariant == Spec => []Inv
<1>1. Init => Inv
  BY InvInit
<1>2. Inv /\ [Next]_vars => Inv'
  BY InvStep
<1> QED BY <1>1, <1>2, PTL DEF Spec

-----------------------------------------------------------------------------
(* What the invariant says of the published names.                         *)

\* Whoever finds a published cache, outside a run's rename and the checks after
\* it, finds all of it, in memory and on disk: _publish_bound_quarantine and
\* read_offline_cache_manifest with any number of promotions, calibrations,
\* directories, edits, removed quarantines and faults (PublishedIsComplete).
THEOREM PublishedWhole == Spec => []PublishedIsComplete
<1>1. Inv => PublishedIsComplete
  BY DEF Inv, SettledInv, Vouched, Whole, PublishedIsComplete
<1> QED BY <1>1, Invariant, PTL

\* A production promotion that reports success published the acquisition its
\* attestation names, for every number of runs, edits and faults
\* (SuccessIsAttested).
THEOREM SuccessAsAttested == Spec => []SuccessIsAttested
<1>1. Inv => SuccessIsAttested
  BY DEF Inv, HeldInv, HeldOK, Vouched, Whole, SuccessIsAttested
<1> QED BY <1>1, Invariant, PTL

\* A calibration's candidates exist only beside two whole promotions of the
\* authorised acquisition with the same members, and its receipt only beside
\* both candidates, whatever is edited in between (ReceiptIsReproduced).
THEOREM ReceiptBacked == Spec => []ReceiptIsReproduced
<1>1. Inv => ReceiptIsReproduced
  BY DEF Inv, TypeInv, CandidateInv, Reproduced, Vouched, Whole, ReceiptIsReproduced
<1> QED BY <1>1, Invariant, PTL

-----------------------------------------------------------------------------
(* The published names, as slots that are filled once.                     *)

Stage(s) ==
    [stage |-> IF dir[s].p = None THEN "absent"
               ELSE IF Unsettled(s) THEN "pending" ELSE "settled",
     tree |-> IF dir[s].p = None \/ Unsettled(s) THEN None ELSE tree[dir[s].p].man]

LEMMA ShowStage == Shown = [s \in Slot |-> Stage(s)] /\ Shown' = [s \in Slot |-> Stage(s)']
BY DEF Shown, Stage

LEMMA StageIs ==
    ASSUME NEW s \in Slot
    PROVE /\ dir[s].p = None => Stage(s) = Published!Absent
          /\ dir[s].p # None /\ Unsettled(s) => Stage(s) = Published!Pending
          /\ dir[s].p # None /\ ~Unsettled(s) => Stage(s) = Published!Settled(tree[dir[s].p].man)
          /\ dir'[s].p = None => Stage(s)' = Published!Absent
          /\ dir'[s].p # None /\ Unsettled(s)' => Stage(s)' = Published!Pending
          /\ dir'[s].p # None /\ ~Unsettled(s)' =>
               Stage(s)' = Published!Settled(tree'[dir'[s].p].man)
BY DEF Stage, Published!Absent, Published!Pending, Published!Settled

\* Which step begins and which step ends the time a name is not vouched for.
LEMMA UnsettledMoves ==
    ASSUME TypeInv, NEW r \in Run, RunStep(r), NEW s \in Slot
    PROVE /\ Unsettled(s)' /\ ~Unsettled(s) => Rename(r) /\ s = run[r].slot
          /\ Unsettled(s) /\ ~Unsettled(s)' =>
               (ValidatePublished(r) \/ Rollback(r)) /\ s = run[r].slot
<1>0. \A t \in Run \ {r} : run'[t] = run[t]
  BY Moves
<1>1. ASSUME Unsettled(s)', ~Unsettled(s) PROVE Rename(r) /\ s = run[r].slot
  BY <1>0, <1>1, LandingMoves DEF Unsettled, Landing
<1>2. ASSUME Unsettled(s), ~Unsettled(s)'
      PROVE (ValidatePublished(r) \/ Rollback(r)) /\ s = run[r].slot
  <2>1. run[r].slot = s /\ run[r].pc \in Landing
    BY <1>0, <1>2, LandingMoves DEF Unsettled, Landing
  <2>2. run'[r].slot = s /\ run'[r].pc \notin Landing \union {"stuck"}
    BY <1>2, <2>1, LandingMoves DEF Unsettled, Landing
  <2> QED BY <2>1, <2>2, LandingMoves
<1> QED BY <1>1, <1>2

\* While a name and what is said of it stay, so does what it shows.
LEMMA StageStays ==
    ASSUME Inv, [Next]_vars, NEW s \in Slot, dir'[s].p = dir[s].p,
           Unsettled(s)' = Unsettled(s)
    PROVE Stage(s)' = Stage(s)
<1>0. TypeInv /\ NamesInv /\ SettledInv
  BY DEF Inv
<1>1. CASE dir[s].p = None \/ Unsettled(s)
  BY <1>1, StageIs
<1>2. CASE dir[s].p # None /\ ~Unsettled(s)
  <2>1. Vouched(s)
    BY <1>0, <1>2 DEF SettledInv
  <2>2. tree'[dir[s].p].man = tree[dir[s].p].man
    BY <1>0, <2>1, VouchedStays
  <2> QED BY <1>2, <2>2, StageIs
<1> QED BY <1>1, <1>2

\* A step of a run changes what one name shows, as PublishOnce has it.
LEMMA RunPublishes ==
    ASSUME Inv, [Next]_vars, NEW r \in Run, RunStep(r)
    PROVE Published!Next \/ UNCHANGED Shown
<1>0. TypeInv /\ NamesInv /\ HeldInv /\ TypeInv' /\ SettledInv'
  BY TypeStep, SettledStep DEF Inv
<1>p. PICK s0 : s0 = run[r].slot
  OBVIOUS
<1>1. ASSUME NEW s \in Slot,
             s # s0 \/ ~(Rename(r) \/ ValidatePublished(r) \/ Rollback(r))
      PROVE Stage(s)' = Stage(s)
  <2>1. dir'[s].p = dir[s].p
    BY <1>0, <1>1, <1>p, NameMoves
  <2>2. Unsettled(s)' = Unsettled(s)
    BY <1>0, <1>1, <1>p, UnsettledMoves DEF Unsettled
  <2> QED BY <2>1, <2>2, StageStays
<1>2. CASE ~(Rename(r) \/ ValidatePublished(r) \/ Rollback(r))
  BY <1>1, <1>2, ShowStage
<1>3. CASE Rename(r) \/ ValidatePublished(r) \/ Rollback(r)
  <2>1. s0 \in Slot
    BY <1>0, <1>3, <1>p, InSlot DEF Rename, ValidatePublished, Rollback, Promoting
  <2>2. Shown' = [Shown EXCEPT ![s0] = Stage(s0)'] /\ Shown[s0] = Stage(s0)
    BY <1>1, <2>1, ShowStage
  <2>3. CASE Rename(r)
    <3>1. dir[s0].p = None /\ dir'[s0].p # None
      BY <1>0, <1>p, <2>1, <2>3 DEF Rename, TypeInv, TypeOK
    <3>2. Unsettled(s0)'
      BY <1>0, <1>p, <2>3, LandingMoves DEF Unsettled, Landing
    <3>3. Stage(s0) = Published!Absent /\ Stage(s0)' = Published!Pending
      BY <2>1, <3>1, <3>2, StageIs
    <3> QED BY <2>1, <2>2, <3>3 DEF Published!Next, Published!Appear
  <2>4. CASE ValidatePublished(r) \/ Rollback(r)
    <3>1. run[r].pc \in Landing /\ run[r].slot = s0
      BY <1>p, <2>4 DEF ValidatePublished, Rollback, Landing
    <3>2. dir[s0].p # None /\ Unsettled(s0)
      BY <1>0, <3>1 DEF NamesInv, Unsettled, Landing
    <3>3. Stage(s0) = Published!Pending
      BY <2>1, <3>2, StageIs
    <3>4. CASE dir'[s0].p = None
      <4>1. Stage(s0)' = Published!Absent
        BY <2>1, <3>4, StageIs
      <4> QED BY <2>1, <2>2, <3>3, <4>1 DEF Published!Next, Published!Retract
    <3>5. CASE dir'[s0].p # None /\ Unsettled(s0)'
      <4>1. Stage(s0)' = Stage(s0)
        BY <2>1, <3>3, <3>5, StageIs
      <4> QED BY <2>1, <2>2, <4>1, ShowStage
    <3>6. CASE dir'[s0].p # None /\ ~Unsettled(s0)'
      <4>1. PICK t : t = tree'[dir'[s0].p].man
        OBVIOUS
      <4>2. Vouched(s0)'
        BY <1>0, <2>1, <3>6 DEF SettledInv
      <4>3. t # None /\ Acceptable(t)
        BY <4>1, <4>2 DEF Vouched, Whole, Complete
      <4>4. t \in Files
        BY <1>0, <2>1, <3>6, <4>1, <4>3 DEF TypeInv, TypeOK, Names, Directory
      <4>5. Stage(s0)' = Published!Settled(t)
        BY <2>1, <3>6, <4>1, StageIs
      <4> QED BY <2>1, <2>2, <3>3, <4>3, <4>4, <4>5 DEF Published!Next, Published!Settle
    <3> QED BY <3>4, <3>5, <3>6
  <2> QED BY <1>3, <2>3, <2>4
<1> QED BY <1>2, <1>3

\* A power failure takes back only names nobody had vouched for.
LEMMA PowerPublishes ==
    ASSUME Inv, [Next]_vars, PowerLoss
    PROVE Published!Next
<1>0. TypeInv /\ NamesInv /\ SettledInv
  BY DEF Inv
<1> DEFINE lostSlots == {s \in Slot : dir[s].p # None /\ dir'[s].p = None}
<1>1. ASSUME NEW s \in Slot
      PROVE /\ s \in lostSlots => Stage(s) = Published!Pending /\ Stage(s)' = Published!Absent
            /\ s \notin lostSlots => Stage(s)' = Stage(s)
  <2>1. dir'[s].p = dir[s].p \/ (dir'[s].p = None /\ durable[s].p = None)
    BY <1>0, PowerLossFrame DEF NamesInv
  <2>2. Unsettled(s)' = Unsettled(s)
    BY <1>0, PowerLossFrame DEF Unsettled, Running, Fate
  <2>3. CASE s \in lostSlots
    <3>1. Unsettled(s)
      BY <1>0, <2>1, <2>3 DEF SettledInv, Vouched
    <3> QED BY <2>3, <3>1, StageIs
  <2>4. CASE s \notin lostSlots
    BY <2>1, <2>2, <2>4, StageStays
  <2> QED BY <2>3, <2>4
<1>2. lostSlots \in SUBSET {s \in Slot : Shown[s] = Published!Pending}
  BY <1>1, ShowStage
<1>3. \A s \in Slot : Stage(s)' = IF s \in lostSlots THEN Published!Absent ELSE Shown[s]
  BY <1>1, ShowStage
<1> HIDE DEF lostSlots
<1>4. Shown' = [s \in Slot |-> IF s \in lostSlots THEN Published!Absent ELSE Shown[s]]
  BY <1>3, ShowStage
<1>5. Published!Lose
  BY <1>2, <1>4 DEF Published!Lose
<1> QED BY <1>5 DEF Published!Next

\* Promotions and calibrations keep PublishOnce's promise for every set of
\* runs and directories: a published name that was vouched for shows that one
\* tree for good (PublishOnceSpec).
THEOREM CachesArePublishedOnce == Spec => PublishOnceSpec
<1>1. Init => Published!Init
  <2> SUFFICES ASSUME Init PROVE Published!Init
    OBVIOUS
  <2>1. \A s \in Slot : Stage(s) = Published!Absent
    BY StageIs DEF Init
  <2> QED BY <2>1, ShowStage DEF Published!Init
<1>2. Inv /\ [Next]_vars => [Published!Next]_Shown
  <2> SUFFICES ASSUME Inv, [Next]_vars PROVE Published!Next \/ UNCHANGED Shown
    OBVIOUS
  <2>1. ASSUME NEW r \in Run, RunStep(r) PROVE Published!Next \/ UNCHANGED Shown
    BY <2>1, RunPublishes
  <2>2. CASE Around
    <3>0. TypeInv
      BY DEF Inv
    <3>1. ASSUME NEW s \in Slot PROVE Stage(s)' = Stage(s)
      <4>1. dir'[s].p = dir[s].p
        BY <2>2, <3>0, AroundFrame DEF TypeInv, TypeOK, Names
      <4>2. Unsettled(s)' = Unsettled(s)
        BY <2>2, <3>0, AroundFrame DEF Unsettled
      <4> QED BY <4>1, <4>2, StageStays
    <3> QED BY <3>1, ShowStage
  <2>3. CASE PowerLoss
    BY <2>3, PowerPublishes
  <2>4. CASE UNCHANGED vars
    BY <2>4 DEF vars, Shown, Unsettled
  <2> QED BY <2>1, <2>2, <2>3, <2>4 DEF Next, RunStep, Around
<1> QED BY <1>1, <1>2, Invariant, PTL DEF Spec, PublishOnceSpec, Published!Spec

\* What PublishOnce lets a step do to a slot that is settled.
LEMMA SettledStays ==
    ASSUME [Published!Next]_Shown, NEW s \in Slot, Shown[s].stage = "settled"
    PROVE Shown'[s] = Shown[s]
<1> USE DEF Published!Absent, Published!Pending, Published!Settled
<1>1. ASSUME NEW t \in Slot, Published!Appear(t) \/ Published!Retract(t) \/ Published!Settle(t)
      PROVE Shown'[s] = Shown[s]
  <2>1. s # t /\ \E x : Shown' = [Shown EXCEPT ![t] = x]
    BY <1>1 DEF Published!Appear, Published!Retract, Published!Settle
  <2> QED BY <2>1 DEF Shown
<1>2. CASE Published!Lose
  BY <1>2 DEF Published!Lose
<1> QED BY <1>1, <1>2 DEF Published!Next

\* A name that is vouched for keeps standing for a directory with the same files.
VouchedForGood ==
    [][\A s \in Slot : dir[s].p # None /\ ~Unsettled(s) =>
          /\ dir'[s].p # None /\ ~Unsettled(s)'
          /\ tree'[dir'[s].p].man = tree[dir[s].p].man]_vars

\* Once its run has checked it, a cache stays what a reader finds under its name:
\* other runs that rename, roll back or recover, edits of candidates, kills and
\* losses of power do not touch it.  It follows from PublishOnce.
THEOREM VouchedStaysPublished == Spec => VouchedForGood
<1>1. [Published!Next]_Shown /\ [Next]_vars =>
        [\A s \in Slot : dir[s].p # None /\ ~Unsettled(s) =>
            /\ dir'[s].p # None /\ ~Unsettled(s)'
            /\ tree'[dir'[s].p].man = tree[dir[s].p].man]_vars
  <2> SUFFICES ASSUME [Published!Next]_Shown, NEW s \in Slot, dir[s].p # None, ~Unsettled(s)
               PROVE  /\ dir'[s].p # None /\ ~Unsettled(s)'
                      /\ tree'[dir'[s].p].man = tree[dir[s].p].man
    OBVIOUS
  <2>1. Shown[s] = Stage(s) /\ Shown'[s] = Stage(s)'
    BY ShowStage
  <2>2. Shown[s].stage = "settled" /\ Shown[s].tree = tree[dir[s].p].man
    BY <2>1 DEF Stage
  <2>3. Stage(s)' = Stage(s)
    BY <2>1, <2>2, SettledStays
  <2>4. Stage(s)'.stage = "settled" /\ Stage(s)'.tree = tree[dir[s].p].man
    BY <2>1, <2>2, <2>3
  <2>5. dir'[s].p # None /\ ~Unsettled(s)'
    BY <2>4 DEF Stage
  <2> QED BY <2>4, <2>5 DEF Stage
<1> QED BY <1>1, CachesArePublishedOnce, PTL DEF Spec, PublishOnceSpec, Published!Spec,
           VouchedForGood
============================================================================
