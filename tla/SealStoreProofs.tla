-------------------------- MODULE SealStoreProofs --------------------------
(***************************************************************************)
(* What the store, the active policy and the run directories keep for      *)
(* every number of packers, installers, administrators and launchers, and  *)
(* that store and stream file are published once.                          *)
(***************************************************************************)
EXTENDS SealStore, SequenceTheorems, TLAPS

-----------------------------------------------------------------------------
(* Each program changes its own state and its part of what they share.     *)

USE SealStoreAssumption

PackFrame == UNCHANGED <<store, policy, runs, inst, adm, lau>>
InstallFrame == UNCHANGED <<work, out, policy, runs, pack, adm, lau>>
AdminFrame == UNCHANGED <<work, out, store, runs, pack, inst, lau>>
LaunchFrame == UNCHANGED <<work, out, store, policy, pack, inst, adm>>

LEMMA PackOnly ==
    ASSUME NEW k \in Packer, PackStep(k)
    PROVE PackFrame
<1>1. CASE Preflight(k)
  BY <1>1 DEF Preflight, PackFrame
<1>2. CASE Derive(k)
  BY <1>2 DEF Derive, PackFrame
<1>3. CASE CreateTemporary(k)
  BY <1>3 DEF CreateTemporary, PackFrame
<1>4. CASE WriteManifest(k)
  BY <1>4 DEF WriteManifest, PackFrame
<1>5. CASE WriteMembers(k)
  BY <1>5 DEF WriteMembers, PackFrame
<1>6. CASE Rederive(k)
  BY <1>6 DEF Rederive, PackFrame
<1>7. CASE RenameNoReplace(k)
  BY <1>7 DEF RenameNoReplace, PackFrame
<1>8. CASE Commit(k)
  BY <1>8 DEF Commit, PackFrame
<1>9. CASE Interrupt(k)
  BY <1>9 DEF Interrupt, PackFrame
<1>10. CASE UnlinkOurs(k)
  BY <1>10 DEF UnlinkOurs, PackFrame
<1> QED BY <1>1, <1>2, <1>3, <1>4, <1>5, <1>6, <1>7, <1>8, <1>9, <1>10 DEF PackStep

LEMMA InstallOnly ==
    ASSUME NEW i \in Installer, InstallStep(i)
    PROVE InstallFrame
<1>1. CASE OpenInput(i)
  BY <1>1 DEF OpenInput, InstallFrame
<1>2. CASE LockStore(i)
  BY <1>2 DEF LockStore, InstallFrame
<1>3. CASE ReadManifest(i)
  BY <1>3 DEF ReadManifest, InstallFrame
<1>4. CASE FillIncoming(i)
  BY <1>4 DEF FillIncoming, InstallFrame
<1>5. CASE PublishSeal(i)
  BY <1>5 DEF PublishSeal, InstallFrame
<1>6. CASE SyncStore(i)
  BY <1>6 DEF SyncStore, InstallFrame
<1>7. CASE SyncStoreFails(i)
  BY <1>7 DEF SyncStoreFails, InstallFrame
<1>8. CASE Withdraw(i)
  BY <1>8 DEF Withdraw, InstallFrame
<1>9. CASE RemoveTree(i)
  BY <1>9 DEF RemoveTree, InstallFrame
<1> QED BY <1>1, <1>2, <1>3, <1>4, <1>5, <1>6, <1>7, <1>8, <1>9 DEF InstallStep

LEMMA AdminOnly ==
    ASSUME NEW a \in Admin, AdminStep(a)
    PROVE AdminFrame
<1>1. CASE Command(a)
  BY <1>1 DEF Command, AdminFrame
<1>2. CASE LockPolicy(a)
  BY <1>2 DEF LockPolicy, AdminFrame
<1>3. CASE VerifyTarget(a)
  BY <1>3 DEF VerifyTarget, AdminFrame
<1>4. CASE CompareGenerations(a)
  BY <1>4 DEF CompareGenerations, AdminFrame
<1>5. CASE SwapActive(a)
  BY <1>5 DEF SwapActive, AdminFrame
<1>6. CASE SyncPolicy(a)
  BY <1>6 DEF SyncPolicy, AdminFrame
<1>7. CASE SyncPolicyFails(a)
  BY <1>7 DEF SyncPolicyFails, AdminFrame
<1> QED BY <1>1, <1>2, <1>3, <1>4, <1>5, <1>6, <1>7 DEF AdminStep

LEMMA LaunchOnly ==
    ASSUME NEW l \in Launcher, LaunchStep(l)
    PROVE LaunchFrame
<1>1. CASE ReadRequest(l)
  BY <1>1 DEF ReadRequest, LaunchFrame
<1>2. CASE ReadActive(l)
  BY <1>2 DEF ReadActive, LaunchFrame
<1>3. CASE LockRuns(l)
  BY <1>3 DEF LockRuns, LaunchFrame
<1>4. CASE VerifyActive(l)
  BY <1>4 DEF VerifyActive, LaunchFrame
<1>5. CASE PruneRun(l)
  BY <1>5 DEF PruneRun, LaunchFrame
<1>6. CASE PruneRefuses(l)
  BY <1>6 DEF PruneRefuses, LaunchFrame
<1>7. CASE CreateRun(l)
  BY <1>7 DEF CreateRun, LaunchFrame
<1>8. CASE Exec(l)
  BY <1>8 DEF Exec, LaunchFrame
<1>9. CASE ExecFails(l)
  BY <1>9 DEF ExecFails, LaunchFrame
<1>10. CASE EnterBuild(l)
  BY <1>10 DEF EnterBuild, LaunchFrame
<1>11. CASE FinishBuild(l)
  BY <1>11 DEF FinishBuild, LaunchFrame
<1>12. CASE GateResult(l)
  BY <1>12 DEF GateResult, LaunchFrame
<1> QED BY <1>1, <1>2, <1>3, <1>4, <1>5, <1>6, <1>7, <1>8, <1>9, <1>10, <1>11, <1>12
   DEF LaunchStep

-----------------------------------------------------------------------------
(* The packers.                                                            *)

IsPack(r) == r = [pc |-> r.pc, man |-> r.man, body |-> r.body, temp |-> r.temp]
IsOut(r) == r = [owner |-> r.owner, man |-> r.man, body |-> r.body, kept |-> r.kept]

\* A manifest that was inventoried meets the contracts, and a stream that was
\* written has what its manifest lists;
PackOne(r) ==
    /\ IsPack(r)
    /\ r.pc \in {"start", "derive", "create", "refused"} => r.temp = FALSE
    /\ r.pc \in {"create", "inventory"} => r.man \in Manifest /\ r.man.current = TRUE
    /\ r.pc \in {"members", "rederive", "rename", "commit"} =>
         r.man \in Manifest /\ r.man.current = TRUE /\ r.man.content \in Sound
    /\ r.pc \in {"rederive", "rename", "commit"} => r.body = r.man.content
OutOne(o) ==
    /\ IsOut(o)
    /\ o.owner \in Packer /\ o.man \in Manifest /\ o.kept \in BOOLEAN
    /\ o.body = o.man.content
    /\ o.man.current = TRUE /\ o.man.content \in Sound

\* the published file's packer is at its commit or past it, and no other has
\* anything to clean up.
Publisher(pc) ==
    /\ pc \in {"commit", "cleanup", "done", "killed"}
    /\ out.kept => pc \in {"done", "killed"}

PackInv ==
    /\ work \in [content : Content, commit : Content]
    /\ pack = [k \in Packer |-> pack[k]]
    /\ \A k \in Packer : PackOne(pack[k])
    /\ out # None => OutOne(out) /\ Publisher(pack[out.owner].pc)

LEMMA PackInit == Init => PackInv
<1> SUFFICES ASSUME Init PROVE PackInv
  OBVIOUS
<1>1. work \in [content : Content, commit : Content] /\ out = None
  BY DEF Init
<1>3. PICK crew : pack = [k \in Packer |-> [PackIdle EXCEPT !.pc =
                          IF k \in crew THEN "start" ELSE "killed"]]
  BY DEF Init
<1>4. \A pc : [PackIdle EXCEPT !.pc = pc] =
            [pc |-> pc, man |-> None, body |-> None, temp |-> FALSE]
  <2> TAKE pc
  <2>1. PICK e : e = [PackIdle EXCEPT !.pc = pc]
    OBVIOUS
  <2>2. e = [pc |-> pc, man |-> None, body |-> None, temp |-> FALSE]
    BY <2>1 DEF PackIdle
  <2> QED BY <2>1, <2>2
<1>2. /\ pack = [k \in Packer |-> pack[k]]
      /\ \A k \in Packer : \E pc \in {"start", "killed"} :
            pack[k] = [pc |-> pc, man |-> None, body |-> None, temp |-> FALSE]
  BY <1>3, <1>4
<1> QED BY <1>1, <1>2 DEF PackInv, PackOne, IsPack

\* A step of a packer that leaves the output alone.
LEMMA SetPack ==
    ASSUME PackInv, NEW k \in Packer, NEW r, PackOne(r), UNCHANGED <<work, out>>,
           pack' = [pack EXCEPT ![k] = r],
           out # None /\ out.owner = k => Publisher(r.pc)
    PROVE PackInv'
<1>1. pack' = [j \in Packer |-> IF j = k THEN r ELSE pack[j]]
  BY DEF PackInv
<1> QED BY <1>1 DEF PackInv, Publisher, OutOne, IsOut

LEMMA PackSteps ==
    ASSUME PackInv, NEW k \in Packer, PackStep(k)
    PROVE PackInv'
<1>1. CASE Preflight(k)
  <2>0. pack = [j \in Packer |-> pack[j]] /\ IsPack(pack[k])
    BY DEF PackInv, PackOne
  <2>1. CASE out = None
    <3> DEFINE r == [pc |-> "derive", man |-> pack[k].man,
                    body |-> pack[k].body, temp |-> pack[k].temp]
    <3>1. /\ pack' = [pack EXCEPT ![k] = [pack[k] EXCEPT !.pc = "derive"]]
          /\ UNCHANGED <<work, out>>
      BY <1>1, <2>0, <2>1 DEF Preflight
    <3>5. PICK e : e = [pack[k] EXCEPT !.pc = "derive"]
      OBVIOUS
    <3>6. e = r
      BY <3>5, <2>0 DEF IsPack
    <3>2. [pack[k] EXCEPT !.pc = "derive"] = r
      BY <3>5, <3>6
    <3>3. PackOne(r) /\ (out # None /\ out.owner = k => Publisher(r.pc))
      BY <1>1, <2>1 DEF Preflight, PackInv, PackOne, IsPack, Publisher
    <3>4. pack' = [pack EXCEPT ![k] = r]
      BY <3>1, <3>2
    <3> HIDE DEF r
    <3> QED BY <3>1, <3>3, <3>4, SetPack
  <2>2. CASE out # None
    <3> DEFINE r == [pc |-> "refused", man |-> pack[k].man,
                    body |-> pack[k].body, temp |-> pack[k].temp]
    <3>1. /\ pack' = [pack EXCEPT ![k] = [pack[k] EXCEPT !.pc = "refused"]]
          /\ UNCHANGED <<work, out>>
      BY <1>1, <2>0, <2>2 DEF Preflight
    <3>5. PICK e : e = [pack[k] EXCEPT !.pc = "refused"]
      OBVIOUS
    <3>6. e = r
      BY <3>5, <2>0 DEF IsPack
    <3>2. [pack[k] EXCEPT !.pc = "refused"] = r
      BY <3>5, <3>6
    <3>3. PackOne(r) /\ (out # None /\ out.owner = k => Publisher(r.pc))
      BY <1>1, <2>2 DEF Preflight, PackInv, PackOne, IsPack, Publisher
    <3>4. pack' = [pack EXCEPT ![k] = r]
      BY <3>1, <3>2
    <3> HIDE DEF r
    <3> QED BY <3>1, <3>3, <3>4, SetPack
  <2> QED BY <2>1, <2>2
<1>2. CASE Derive(k)
  <2>0. pack = [j \in Packer |-> pack[j]] /\ IsPack(pack[k])
    BY DEF PackInv, PackOne
  <2>1. CASE Clean
    <3> DEFINE r == [pc |-> "create", man |-> [content |-> work.content, commit |-> work.commit,
                            gen |-> PackGen[k], current |-> TRUE],
                    body |-> pack[k].body, temp |-> pack[k].temp]
    <3>1. /\ pack' = [pack EXCEPT ![k] = [pack[k] EXCEPT !.pc = "create", !.man = [content |-> work.content, commit |-> work.commit,
                            gen |-> PackGen[k], current |-> TRUE]]]
          /\ UNCHANGED <<work, out>>
      BY <1>2, <2>0, <2>1 DEF Derive
    <3>5. PICK e : e = [pack[k] EXCEPT !.pc = "create", !.man = [content |-> work.content, commit |-> work.commit,
                            gen |-> PackGen[k], current |-> TRUE]]
      OBVIOUS
    <3>6. e = r
      BY <3>5, <2>0 DEF IsPack
    <3>2. [pack[k] EXCEPT !.pc = "create", !.man = [content |-> work.content, commit |-> work.commit,
                            gen |-> PackGen[k], current |-> TRUE]] = r
      BY <3>5, <3>6
    <3>3. PackOne(r) /\ (out # None /\ out.owner = k => Publisher(r.pc))
      BY <1>2, <2>1 DEF Derive, PackInv, PackOne, IsPack, Publisher, Manifest
    <3>4. pack' = [pack EXCEPT ![k] = r]
      BY <3>1, <3>2
    <3> HIDE DEF r
    <3> QED BY <3>1, <3>3, <3>4, SetPack
  <2>2. CASE ~ Clean
    <3> DEFINE r == [pc |-> "refused", man |-> pack[k].man,
                    body |-> pack[k].body, temp |-> pack[k].temp]
    <3>1. /\ pack' = [pack EXCEPT ![k] = [pack[k] EXCEPT !.pc = "refused"]]
          /\ UNCHANGED <<work, out>>
      BY <1>2, <2>0, <2>2 DEF Derive
    <3>5. PICK e : e = [pack[k] EXCEPT !.pc = "refused"]
      OBVIOUS
    <3>6. e = r
      BY <3>5, <2>0 DEF IsPack
    <3>2. [pack[k] EXCEPT !.pc = "refused"] = r
      BY <3>5, <3>6
    <3>3. PackOne(r) /\ (out # None /\ out.owner = k => Publisher(r.pc))
      BY <1>2, <2>2 DEF Derive, PackInv, PackOne, IsPack, Publisher
    <3>4. pack' = [pack EXCEPT ![k] = r]
      BY <3>1, <3>2
    <3> HIDE DEF r
    <3> QED BY <3>1, <3>3, <3>4, SetPack
  <2> QED BY <2>1, <2>2
<1>3. CASE CreateTemporary(k)
  <2>0. pack = [j \in Packer |-> pack[j]] /\ IsPack(pack[k])
    BY DEF PackInv, PackOne
  <2>1. CASE out = None
    <3> DEFINE r == [pc |-> "inventory", man |-> pack[k].man,
                    body |-> pack[k].body, temp |-> TRUE]
    <3>1. /\ pack' = [pack EXCEPT ![k] = [pack[k] EXCEPT !.pc = "inventory", !.temp = TRUE]]
          /\ UNCHANGED <<work, out>>
      BY <1>3, <2>0, <2>1 DEF CreateTemporary
    <3>5. PICK e : e = [pack[k] EXCEPT !.pc = "inventory", !.temp = TRUE]
      OBVIOUS
    <3>6. e = r
      BY <3>5, <2>0 DEF IsPack
    <3>2. [pack[k] EXCEPT !.pc = "inventory", !.temp = TRUE] = r
      BY <3>5, <3>6
    <3>3. PackOne(r) /\ (out # None /\ out.owner = k => Publisher(r.pc))
      BY <1>3, <2>1 DEF CreateTemporary, PackInv, PackOne, IsPack, Publisher
    <3>4. pack' = [pack EXCEPT ![k] = r]
      BY <3>1, <3>2
    <3> HIDE DEF r
    <3> QED BY <3>1, <3>3, <3>4, SetPack
  <2>2. CASE out # None
    <3> DEFINE r == [pc |-> "refused", man |-> pack[k].man,
                    body |-> pack[k].body, temp |-> pack[k].temp]
    <3>1. /\ pack' = [pack EXCEPT ![k] = [pack[k] EXCEPT !.pc = "refused"]]
          /\ UNCHANGED <<work, out>>
      BY <1>3, <2>0, <2>2 DEF CreateTemporary
    <3>5. PICK e : e = [pack[k] EXCEPT !.pc = "refused"]
      OBVIOUS
    <3>6. e = r
      BY <3>5, <2>0 DEF IsPack
    <3>2. [pack[k] EXCEPT !.pc = "refused"] = r
      BY <3>5, <3>6
    <3>3. PackOne(r) /\ (out # None /\ out.owner = k => Publisher(r.pc))
      BY <1>3, <2>2 DEF CreateTemporary, PackInv, PackOne, IsPack, Publisher
    <3>4. pack' = [pack EXCEPT ![k] = r]
      BY <3>1, <3>2
    <3> HIDE DEF r
    <3> QED BY <3>1, <3>3, <3>4, SetPack
  <2> QED BY <2>1, <2>2
<1>4. CASE WriteManifest(k)
  <2>0. pack = [j \in Packer |-> pack[j]] /\ IsPack(pack[k])
    BY DEF PackInv, PackOne
  <2>1. CASE CacheVerified(work.content) /\ SignerTrusted(work.content) /\ SourceLockBinds(work.content)
    <3> DEFINE r == [pc |-> "members", man |-> [pack[k].man EXCEPT !.content = work.content],
                    body |-> pack[k].body, temp |-> pack[k].temp]
    <3>1. /\ pack' = [pack EXCEPT ![k] = [pack[k] EXCEPT !.pc = "members", !.man = [pack[k].man EXCEPT !.content = work.content]]]
          /\ UNCHANGED <<work, out>>
      BY <1>4, <2>0, <2>1 DEF WriteManifest
    <3>5. PICK e : e = [pack[k] EXCEPT !.pc = "members", !.man = [pack[k].man EXCEPT !.content = work.content]]
      OBVIOUS
    <3>6. e = r
      BY <3>5, <2>0 DEF IsPack
    <3>2. [pack[k] EXCEPT !.pc = "members", !.man = [pack[k].man EXCEPT !.content = work.content]] = r
      BY <3>5, <3>6
    <3>3. PackOne(r) /\ (out # None /\ out.owner = k => Publisher(r.pc))
      BY <1>4, <2>1 DEF WriteManifest, PackInv, PackOne, IsPack, Publisher,
         CacheVerified, Manifest
    <3>4. pack' = [pack EXCEPT ![k] = r]
      BY <3>1, <3>2
    <3> HIDE DEF r
    <3> QED BY <3>1, <3>3, <3>4, SetPack
  <2>2. CASE ~ (CacheVerified(work.content) /\ SignerTrusted(work.content) /\ SourceLockBinds(work.content))
    <3> DEFINE r == [pc |-> "cleanup", man |-> pack[k].man,
                    body |-> pack[k].body, temp |-> pack[k].temp]
    <3>1. /\ pack' = [pack EXCEPT ![k] = [pack[k] EXCEPT !.pc = "cleanup"]]
          /\ UNCHANGED <<work, out>>
      BY <1>4, <2>0, <2>2 DEF WriteManifest
    <3>5. PICK e : e = [pack[k] EXCEPT !.pc = "cleanup"]
      OBVIOUS
    <3>6. e = r
      BY <3>5, <2>0 DEF IsPack
    <3>2. [pack[k] EXCEPT !.pc = "cleanup"] = r
      BY <3>5, <3>6
    <3>3. PackOne(r) /\ (out # None /\ out.owner = k => Publisher(r.pc))
      BY <1>4, <2>2 DEF WriteManifest, PackInv, PackOne, IsPack, Publisher
    <3>4. pack' = [pack EXCEPT ![k] = r]
      BY <3>1, <3>2
    <3> HIDE DEF r
    <3> QED BY <3>1, <3>3, <3>4, SetPack
  <2> QED BY <2>1, <2>2
<1>5. CASE WriteMembers(k)
  <2>0. pack = [j \in Packer |-> pack[j]] /\ IsPack(pack[k])
    BY DEF PackInv, PackOne
  <2>1. CASE work.content = pack[k].man.content
    <3> DEFINE r == [pc |-> "rederive", man |-> pack[k].man,
                    body |-> work.content, temp |-> pack[k].temp]
    <3>1. /\ pack' = [pack EXCEPT ![k] = [pack[k] EXCEPT !.pc = "rederive", !.body = work.content]]
          /\ UNCHANGED <<work, out>>
      BY <1>5, <2>0, <2>1 DEF WriteMembers
    <3>5. PICK e : e = [pack[k] EXCEPT !.pc = "rederive", !.body = work.content]
      OBVIOUS
    <3>6. e = r
      BY <3>5, <2>0 DEF IsPack
    <3>2. [pack[k] EXCEPT !.pc = "rederive", !.body = work.content] = r
      BY <3>5, <3>6
    <3>3. PackOne(r) /\ (out # None /\ out.owner = k => Publisher(r.pc))
      BY <1>5, <2>1 DEF WriteMembers, PackInv, PackOne, IsPack, Publisher
    <3>4. pack' = [pack EXCEPT ![k] = r]
      BY <3>1, <3>2
    <3> HIDE DEF r
    <3> QED BY <3>1, <3>3, <3>4, SetPack
  <2>2. CASE work.content # pack[k].man.content
    <3> DEFINE r == [pc |-> "cleanup", man |-> pack[k].man,
                    body |-> work.content, temp |-> pack[k].temp]
    <3>1. /\ pack' = [pack EXCEPT ![k] = [pack[k] EXCEPT !.pc = "cleanup", !.body = work.content]]
          /\ UNCHANGED <<work, out>>
      BY <1>5, <2>0, <2>2 DEF WriteMembers
    <3>5. PICK e : e = [pack[k] EXCEPT !.pc = "cleanup", !.body = work.content]
      OBVIOUS
    <3>6. e = r
      BY <3>5, <2>0 DEF IsPack
    <3>2. [pack[k] EXCEPT !.pc = "cleanup", !.body = work.content] = r
      BY <3>5, <3>6
    <3>3. PackOne(r) /\ (out # None /\ out.owner = k => Publisher(r.pc))
      BY <1>5, <2>2 DEF WriteMembers, PackInv, PackOne, IsPack, Publisher
    <3>4. pack' = [pack EXCEPT ![k] = r]
      BY <3>1, <3>2
    <3> HIDE DEF r
    <3> QED BY <3>1, <3>3, <3>4, SetPack
  <2> QED BY <2>1, <2>2
<1>6. CASE Rederive(k)
  <2>0. pack = [j \in Packer |-> pack[j]] /\ IsPack(pack[k])
    BY DEF PackInv, PackOne
  <2>1. CASE Clean /\ work.commit = pack[k].man.commit
    <3> DEFINE r == [pc |-> "rename", man |-> pack[k].man,
                    body |-> pack[k].body, temp |-> pack[k].temp]
    <3>1. /\ pack' = [pack EXCEPT ![k] = [pack[k] EXCEPT !.pc = "rename"]]
          /\ UNCHANGED <<work, out>>
      BY <1>6, <2>0, <2>1 DEF Rederive
    <3>5. PICK e : e = [pack[k] EXCEPT !.pc = "rename"]
      OBVIOUS
    <3>6. e = r
      BY <3>5, <2>0 DEF IsPack
    <3>2. [pack[k] EXCEPT !.pc = "rename"] = r
      BY <3>5, <3>6
    <3>3. PackOne(r) /\ (out # None /\ out.owner = k => Publisher(r.pc))
      BY <1>6, <2>1 DEF Rederive, PackInv, PackOne, IsPack, Publisher
    <3>4. pack' = [pack EXCEPT ![k] = r]
      BY <3>1, <3>2
    <3> HIDE DEF r
    <3> QED BY <3>1, <3>3, <3>4, SetPack
  <2>2. CASE ~ (Clean /\ work.commit = pack[k].man.commit)
    <3> DEFINE r == [pc |-> "cleanup", man |-> pack[k].man,
                    body |-> pack[k].body, temp |-> pack[k].temp]
    <3>1. /\ pack' = [pack EXCEPT ![k] = [pack[k] EXCEPT !.pc = "cleanup"]]
          /\ UNCHANGED <<work, out>>
      BY <1>6, <2>0, <2>2 DEF Rederive
    <3>5. PICK e : e = [pack[k] EXCEPT !.pc = "cleanup"]
      OBVIOUS
    <3>6. e = r
      BY <3>5, <2>0 DEF IsPack
    <3>2. [pack[k] EXCEPT !.pc = "cleanup"] = r
      BY <3>5, <3>6
    <3>3. PackOne(r) /\ (out # None /\ out.owner = k => Publisher(r.pc))
      BY <1>6, <2>2 DEF Rederive, PackInv, PackOne, IsPack, Publisher
    <3>4. pack' = [pack EXCEPT ![k] = r]
      BY <3>1, <3>2
    <3> HIDE DEF r
    <3> QED BY <3>1, <3>3, <3>4, SetPack
  <2> QED BY <2>1, <2>2
<1>7. CASE RenameNoReplace(k)
  <2>0. pack = [j \in Packer |-> pack[j]] /\ IsPack(pack[k])
    BY DEF PackInv, PackOne
  <2>1. CASE out = None
    <3> DEFINE o == [owner |-> k, man |-> pack[k].man, body |-> pack[k].body, kept |-> FALSE]
               r == [pc |-> "commit", man |-> pack[k].man, body |-> pack[k].body,
                     temp |-> FALSE]
    <3>5. /\ out' = o /\ UNCHANGED work
          /\ pack' = [pack EXCEPT ![k] = [pack[k] EXCEPT !.pc = "commit", !.temp = FALSE]]
      BY <1>7, <2>0, <2>1 DEF RenameNoReplace
    <3>7. PICK e : e = [pack[k] EXCEPT !.pc = "commit", !.temp = FALSE]
      OBVIOUS
    <3>8. e = r
      BY <3>7, <2>0 DEF IsPack
    <3>6. [pack[k] EXCEPT !.pc = "commit", !.temp = FALSE] = r
      BY <3>7, <3>8
    <3>1. out' = o /\ pack' = [pack EXCEPT ![k] = r] /\ UNCHANGED work
      BY <3>5, <3>6
    <3>2. OutOne(o) /\ PackOne(r)
      BY <1>7 DEF RenameNoReplace, PackInv, PackOne, OutOne, IsPack, IsOut
    <3>3. pack' = [j \in Packer |-> IF j = k THEN r ELSE pack[j]]
      BY <3>1 DEF PackInv
    <3>4. out'.owner = k /\ out'.kept = FALSE /\ r.pc = "commit" /\ OutOne(out')
      BY <3>1, <3>2
    <3> HIDE DEF o, r
    <3> QED BY <3>1, <3>2, <3>3, <3>4 DEF PackInv, Publisher
  <2>2. CASE out # None
    <3> DEFINE r == [pc |-> "cleanup", man |-> pack[k].man, body |-> pack[k].body,
                     temp |-> pack[k].temp]
    <3>4. /\ pack' = [pack EXCEPT ![k] = [pack[k] EXCEPT !.pc = "cleanup"]]
          /\ UNCHANGED <<work, out>>
      BY <1>7, <2>0, <2>2 DEF RenameNoReplace
    <3>5. [pack[k] EXCEPT !.pc = "cleanup"] = r
      BY <2>0 DEF IsPack
    <3>1. pack' = [pack EXCEPT ![k] = r] /\ UNCHANGED <<work, out>>
      BY <3>4, <3>5
    <3>2. PackOne(r) /\ (out # None /\ out.owner = k => Publisher(r.pc))
      BY <1>7, <2>2 DEF RenameNoReplace, PackInv, PackOne, IsPack, Publisher
    <3> HIDE DEF r
    <3> QED BY <3>1, <3>2, SetPack
  <2> QED BY <2>1, <2>2
<1>8. CASE Commit(k)
  <2>0. pack = [j \in Packer |-> pack[j]] /\ IsPack(pack[k])
    BY DEF PackInv, PackOne
  <2>1. CASE out # None /\ out.owner = k
    <3> DEFINE o == [owner |-> k, man |-> out.man, body |-> out.body, kept |-> TRUE]
               r == [pc |-> "done", man |-> None, body |-> None, temp |-> FALSE]
    <3>1. out' = o /\ pack' = [pack EXCEPT ![k] = r] /\ UNCHANGED work
      BY <1>8, <2>1 DEF Commit, PackInv, OutOne, IsOut, PackIdle
    <3>2. OutOne(o) /\ PackOne(r)
      BY <1>8, <2>1 DEF PackInv, PackOne, OutOne, IsPack, IsOut
    <3>3. pack' = [j \in Packer |-> IF j = k THEN r ELSE pack[j]]
      BY <3>1 DEF PackInv
    <3>4. out'.owner = k /\ r.pc = "done" /\ OutOne(out')
      BY <3>1, <3>2
    <3> HIDE DEF o, r
    <3> QED BY <3>1, <3>2, <3>3, <3>4 DEF PackInv, Publisher
  <2>2. CASE ~ (out # None /\ out.owner = k)
    <3> DEFINE r == [pc |-> "cleanup", man |-> pack[k].man, body |-> pack[k].body,
                     temp |-> pack[k].temp]
    <3>4. /\ pack' = [pack EXCEPT ![k] = [pack[k] EXCEPT !.pc = "cleanup"]]
          /\ UNCHANGED <<work, out>>
      BY <1>8, <2>0, <2>2 DEF Commit
    <3>5. [pack[k] EXCEPT !.pc = "cleanup"] = r
      BY <2>0 DEF IsPack
    <3>1. pack' = [pack EXCEPT ![k] = r] /\ UNCHANGED <<work, out>>
      BY <3>4, <3>5
    <3>2. PackOne(r) /\ (out # None /\ out.owner = k => Publisher(r.pc))
      BY <1>8, <2>2 DEF Commit, PackInv, PackOne, IsPack, Publisher
    <3> HIDE DEF r
    <3> QED BY <3>1, <3>2, SetPack
  <2> QED BY <2>1, <2>2
<1>9. CASE Interrupt(k)
  <2>0. pack = [j \in Packer |-> pack[j]] /\ IsPack(pack[k])
    BY DEF PackInv, PackOne
  <2>1. CASE TRUE
    <3> DEFINE r == [pc |-> "cleanup", man |-> pack[k].man,
                    body |-> pack[k].body, temp |-> pack[k].temp]
    <3>1. /\ pack' = [pack EXCEPT ![k] = [pack[k] EXCEPT !.pc = "cleanup"]]
          /\ UNCHANGED <<work, out>>
      BY <1>9, <2>0, <2>1 DEF Interrupt
    <3>5. PICK e : e = [pack[k] EXCEPT !.pc = "cleanup"]
      OBVIOUS
    <3>6. e = r
      BY <3>5, <2>0 DEF IsPack
    <3>2. [pack[k] EXCEPT !.pc = "cleanup"] = r
      BY <3>5, <3>6
    <3>3. PackOne(r) /\ (out # None /\ out.owner = k => Publisher(r.pc))
      BY <1>9, <2>1 DEF Interrupt, PackInv, PackOne, IsPack, Publisher, Interruptible
    <3>4. pack' = [pack EXCEPT ![k] = r]
      BY <3>1, <3>2
    <3> HIDE DEF r
    <3> QED BY <3>1, <3>3, <3>4, SetPack
  <2> QED BY <2>1
<1>10. CASE UnlinkOurs(k)
  <2> DEFINE r == [pc |-> "refused", man |-> None, body |-> None, temp |-> FALSE]
  <2>0. pack = [j \in Packer |-> pack[j]]
    BY DEF PackInv
  <2>5. PICK e : e = [PackIdle EXCEPT !.pc = "refused"]
    OBVIOUS
  <2>6. e = r
    BY <2>5 DEF PackIdle
  <2>3. [PackIdle EXCEPT !.pc = "refused"] = r
    BY <2>5, <2>6
  <2>4. /\ out' = IF out # None /\ out.owner = k THEN None ELSE out
        /\ pack' = [pack EXCEPT ![k] = [PackIdle EXCEPT !.pc = "refused"]] /\ UNCHANGED work
    BY <1>10 DEF UnlinkOurs
  <2>1. /\ out' = IF out # None /\ out.owner = k THEN None ELSE out
        /\ pack' = [j \in Packer |-> IF j = k THEN r ELSE pack[j]] /\ UNCHANGED work
    BY <2>0, <2>3, <2>4
  <2>2. PackOne(r)
    BY DEF PackOne, IsPack
  <2>7. r.pc = "refused"
    OBVIOUS
  <2> HIDE DEF r
  <2>8. CASE out # None /\ out.owner = k
    BY <2>1, <2>2, <2>8 DEF PackInv, Publisher
  <2>9. CASE ~ (out # None /\ out.owner = k)
    BY <2>1, <2>2, <2>9 DEF PackInv, Publisher, OutOne, IsOut
  <2> QED BY <2>8, <2>9
<1> QED BY <1>1, <1>2, <1>3, <1>4, <1>5, <1>6, <1>7, <1>8, <1>9, <1>10 DEF PackStep

LEMMA PackRest ==
    ASSUME PackInv,
           \/ \E i \in Installer : InstallStep(i)
           \/ \E a \in Admin : AdminStep(a)
           \/ \E l \in Launcher : LaunchStep(l)
           \/ Edit \/ CommitWork \/ PowerFailure
           \/ \E x \in Packer \union Installer \union Admin \union Launcher : Kill(x)
           \/ UNCHANGED vars
    PROVE PackInv'
<1>1. CASE UNCHANGED <<work, out, pack>>
  BY <1>1 DEF PackInv, PackOne, IsPack, OutOne, IsOut, Publisher
<1>2. CASE Edit \/ CommitWork
  <2>1. work' \in [content : Content, commit : Content] /\ UNCHANGED <<out, pack>>
    BY <1>2 DEF Edit, CommitWork, PackInv
  <2> QED BY <2>1 DEF PackInv, PackOne, IsPack, OutOne, IsOut, Publisher
<1> DEFINE r == [pc |-> "killed", man |-> None, body |-> None, temp |-> FALSE]
<1>3. PackOne(r) /\ r.pc = "killed"
  BY DEF PackOne, IsPack
<1>4. CASE PowerFailure
  <2>5. PICK e : e = [PackIdle EXCEPT !.pc = "killed"]
    OBVIOUS
  <2>6. e = r
    BY <2>5 DEF PackIdle
  <2>2. [PackIdle EXCEPT !.pc = "killed"] = r
    BY <2>5, <2>6
  <2>3. UNCHANGED work /\ pack' = [k \in Packer |-> [PackIdle EXCEPT !.pc = "killed"]]
        /\ out' \in {out, None}
    BY <1>4 DEF PowerFailure
  <2>1. UNCHANGED work /\ pack' = [k \in Packer |-> r] /\ out' \in {out, None}
    BY <2>2, <2>3
  <2> HIDE DEF r
  <2> QED BY <1>3, <2>1 DEF PackInv, Publisher, OutOne, IsOut
<1>5. ASSUME NEW x, Kill(x) PROVE PackInv'
  <2>1. CASE UNCHANGED pack
    BY <1>1, <1>5, <2>1 DEF Kill
  <2>2. CASE x \in Packer /\ pack' = [pack EXCEPT ![x] = r]
    <3>1. UNCHANGED <<work, out>>
      BY <1>5 DEF Kill
    <3>2. out # None /\ out.owner = x => Publisher(r.pc)
      BY <1>3 DEF Publisher
    <3> HIDE DEF r
    <3> QED BY <1>3, <2>2, <3>1, <3>2, SetPack
  <2> QED BY <1>5, <2>1, <2>2 DEF Kill, PackIdle
<1>6. CASE \E i \in Installer : InstallStep(i)
  BY <1>1, <1>6, InstallOnly DEF InstallFrame
<1>7. CASE \E a \in Admin : AdminStep(a)
  BY <1>1, <1>7, AdminOnly DEF AdminFrame
<1>8. CASE \E l \in Launcher : LaunchStep(l)
  BY <1>1, <1>8, LaunchOnly DEF LaunchFrame
<1>9. CASE UNCHANGED vars
  BY <1>1, <1>9 DEF vars
<1> QED BY <1>2, <1>4, <1>5, <1>6, <1>7, <1>8, <1>9

LEMMA PackAlways == Spec => []PackInv
<1>1. PackInv /\ [Next]_vars => PackInv'
  BY PackSteps, PackRest DEF Next
<1> QED BY <1>1, PackInit, PTL DEF Spec

\* Whatever is changed between any two reads of the packer, and whoever
\* interrupts it, a published stream can be installed (pack_seal_stream reads
\* every member twice and derives the provenance twice).
THEOREM StreamInstalls == Spec => []PublishedInstalls
<1>1. PackInv => PublishedInstalls
  BY DEF PackInv, OutOne, PublishedInstalls, CurrentSchema, SourceLockBinds,
     OfflineContract,
     CacheVerified, SignerTrusted
<1> QED BY <1>1, PackAlways, PTL

\* A packer that gave up has nothing under the output name and no private
\* file (the signal boundary of the packer).
THEOREM RefusedPackerIsGone == Spec => []InterruptLeavesNothing
<1>1. PackInv => InterruptLeavesNothing
  BY DEF PackInv, PackOne, Publisher, InterruptLeavesNothing
<1> QED BY <1>1, PackAlways, PTL

-----------------------------------------------------------------------------
(* The administrators.                                                     *)

IsAdm(r) == r = [pc |-> r.pc, op |-> r.op, target |-> r.target, expect |-> r.expect]

\* What an administrator about to swap has compared still holds.
Compared(r) ==
    r.pc = "swap" =>
        /\ active = r.expect
        /\ active # None => IF r.op = "activate" THEN active.gen < r.target.gen
                                                 ELSE r.target.gen < active.gen

\* One administrator at a time is between the lock and its end.
PolicyInv ==
    /\ adm = [a \in Admin |-> adm[a]]
    /\ \A a \in Admin : IsAdm(adm[a]) /\ Compared(adm[a])
    /\ \A a, b \in Admin : HoldsPolicy(a) /\ HoldsPolicy(b) => a = b

AdmEnded(pc) == [pc |-> pc, op |-> None, target |-> None, expect |-> None]

LEMMA AdmEndedIs == \A pc : [AdmIdle EXCEPT !.pc = pc] = AdmEnded(pc)
<1> TAKE pc
<1>1. PICK e : e = [AdmIdle EXCEPT !.pc = pc]
  OBVIOUS
<1>2. e = AdmEnded(pc)
  BY <1>1 DEF AdmIdle, AdmEnded
<1> QED BY <1>1, <1>2

LEMMA PolicyInit == Init => PolicyInv
<1> SUFFICES ASSUME Init PROVE PolicyInv
  OBVIOUS
<1>1. PICK crew : adm = [a \in Admin |-> [AdmIdle EXCEPT !.pc =
                          IF a \in crew THEN "start" ELSE "killed"]]
  BY DEF Init
<1>2. /\ adm = [a \in Admin |-> adm[a]]
      /\ \A a \in Admin : \E pc \in {"start", "killed"} : adm[a] = AdmEnded(pc)
  BY <1>1, AdmEndedIs
<1> QED BY <1>2 DEF PolicyInv, IsAdm, Compared, HoldsPolicy, AdmEnded

\* A step of an administrator that leaves the policy alone, and takes the lock
\* only if nobody has it.
LEMMA SetAdm ==
    ASSUME PolicyInv, NEW a \in Admin, NEW r, IsAdm(r), Compared(r), UNCHANGED active,
           adm' = [adm EXCEPT ![a] = r],
           r.pc \in {"target", "compare", "swap", "sync"} =>
              \A b \in Admin \ {a} : ~ HoldsPolicy(b)
    PROVE PolicyInv'
<1>1. adm' = [b \in Admin |-> IF b = a THEN r ELSE adm[b]]
  BY DEF PolicyInv
<1> QED BY <1>1 DEF PolicyInv, HoldsPolicy, Compared, IsAdm

LEMMA EndAdm ==
    ASSUME PolicyInv, NEW a \in Admin, NEW pc \in {"done", "refused", "killed"},
           UNCHANGED active, adm' = AdminEnds(a, pc)
    PROVE PolicyInv'
<1>1. PICK r : r = AdmEnded(pc)
  OBVIOUS
<1>2. adm' = [adm EXCEPT ![a] = r]
  BY <1>1, AdmEndedIs DEF AdminEnds
<1>3. IsAdm(r) /\ r.pc = pc
  BY <1>1 DEF AdmEnded, IsAdm
<1> QED BY <1>2, <1>3, SetAdm DEF Compared

\* One that only moves on.
LEMMA MoveAdm ==
    ASSUME PolicyInv, NEW a \in Admin, NEW pc, UNCHANGED active,
           adm' = [adm EXCEPT ![a].pc = pc],
           pc \in {"target", "compare", "swap", "sync"} =>
              \A b \in Admin \ {a} : ~ HoldsPolicy(b),
           pc = "swap" => active = adm[a].expect /\ (active # None =>
                IF adm[a].op = "activate" THEN active.gen < adm[a].target.gen
                                          ELSE adm[a].target.gen < active.gen)
    PROVE PolicyInv'
<1>1. PICK r : r = [adm[a] EXCEPT !.pc = pc]
  OBVIOUS
<1>2. r = [pc |-> pc, op |-> adm[a].op, target |-> adm[a].target, expect |-> adm[a].expect]
  BY <1>1 DEF PolicyInv, IsAdm
<1>3. adm' = [adm EXCEPT ![a] = r]
  BY <1>1
<1>4. IsAdm(r) /\ Compared(r) /\ r.pc = pc
  BY <1>2 DEF IsAdm, Compared
<1> QED BY <1>3, <1>4, SetAdm

LEMMA PolicySteps ==
    ASSUME PolicyInv, NEW a \in Admin, AdminStep(a)
    PROVE PolicyInv'
<1>1. CASE Command(a)
  <2>1. PICK op, t, e : adm' = [adm EXCEPT ![a] =
                             [pc |-> "lock", op |-> op, target |-> t, expect |-> e]]
    BY <1>1 DEF Command
  <2>2. PICK r : r = [pc |-> "lock", op |-> op, target |-> t, expect |-> e]
    OBVIOUS
  <2>3. IsAdm(r) /\ r.pc = "lock"
    BY <2>2 DEF IsAdm
  <2> QED BY <1>1, <2>1, <2>2, <2>3, SetAdm DEF Command, Compared, policy
<1>2. CASE LockPolicy(a)
  BY <1>2, MoveAdm DEF LockPolicy, policy
<1>3. CASE VerifyTarget(a)
  <2>1. \A b \in Admin \ {a} : ~ HoldsPolicy(b)
    BY <1>3 DEF VerifyTarget, PolicyInv, HoldsPolicy
  <2>2. adm' = [adm EXCEPT ![a].pc = "compare"] \/ adm' = AdminEnds(a, "refused")
    BY <1>3 DEF VerifyTarget
  <2>3. UNCHANGED active
    BY <1>3 DEF VerifyTarget, policy
  <2> QED BY <2>1, <2>2, <2>3, MoveAdm, EndAdm
<1>4. CASE CompareGenerations(a)
  <2>1. \A b \in Admin \ {a} : ~ HoldsPolicy(b)
    BY <1>4 DEF CompareGenerations, PolicyInv, HoldsPolicy
  <2>2. \/ /\ adm' = [adm EXCEPT ![a].pc = "swap"]
           /\ active = adm[a].expect /\ (active # None =>
                IF adm[a].op = "activate" THEN active.gen < adm[a].target.gen
                                          ELSE adm[a].target.gen < active.gen)
        \/ adm' = AdminEnds(a, "refused")
    BY <1>4 DEF CompareGenerations
  <2>3. UNCHANGED active
    BY <1>4 DEF CompareGenerations, policy
  <2> QED BY <2>1, <2>2, <2>3, MoveAdm, EndAdm
<1>5. CASE SwapActive(a)
  <2>1. \A b \in Admin \ {a} : ~ HoldsPolicy(b)
    BY <1>5 DEF SwapActive, PolicyInv, HoldsPolicy
  <2>2. adm' = [adm EXCEPT ![a] = [adm[a] EXCEPT !.pc = "sync"]]
    BY <1>5 DEF SwapActive, PolicyInv
  <2>3. PICK r : r = [adm[a] EXCEPT !.pc = "sync"]
    OBVIOUS
  <2>4. r = [pc |-> "sync", op |-> adm[a].op, target |-> adm[a].target,
             expect |-> adm[a].expect]
    BY <2>3 DEF PolicyInv, IsAdm
  <2>5. adm' = [b \in Admin |-> IF b = a THEN r ELSE adm[b]]
    BY <2>2, <2>3 DEF PolicyInv
  <2>6. IsAdm(r) /\ r.pc = "sync"
    BY <2>4 DEF IsAdm
  <2> QED BY <2>1, <2>5, <2>6 DEF PolicyInv, HoldsPolicy, Compared, IsAdm
<1>6. CASE SyncPolicy(a)
  <2>1. adm' = AdminEnds(a, "done") \/ adm' = AdminEnds(a, "refused")
    BY <1>6 DEF SyncPolicy
  <2> QED BY <1>6, <2>1, EndAdm DEF SyncPolicy
<1>7. CASE SyncPolicyFails(a)
  BY <1>7, EndAdm DEF SyncPolicyFails, policy
<1> QED BY <1>1, <1>2, <1>3, <1>4, <1>5, <1>6, <1>7 DEF AdminStep

LEMMA PolicyRest ==
    ASSUME PolicyInv,
           \/ \E k \in Packer : PackStep(k)
           \/ \E i \in Installer : InstallStep(i)
           \/ \E l \in Launcher : LaunchStep(l)
           \/ Edit \/ CommitWork \/ PowerFailure
           \/ \E x \in Packer \union Installer \union Admin \union Launcher : Kill(x)
           \/ UNCHANGED vars
    PROVE PolicyInv'
<1>1. CASE UNCHANGED <<active, adm>>
  BY <1>1 DEF PolicyInv, IsAdm, Compared, HoldsPolicy
<1>2. CASE PowerFailure
  <2>1. adm' = [a \in Admin |-> AdmEnded("killed")]
    BY <1>2, AdmEndedIs DEF PowerFailure
  <2> QED BY <2>1 DEF PolicyInv, IsAdm, Compared, HoldsPolicy, AdmEnded
<1>3. ASSUME NEW x, Kill(x) PROVE PolicyInv'
  <2>1. UNCHANGED active
    BY <1>3 DEF Kill, policy
  <2>2. adm' = adm \/ (x \in Admin /\ adm' = AdminEnds(x, "killed"))
    BY <1>3 DEF Kill
  <2> QED BY <1>1, <2>1, <2>2, EndAdm
<1>4. CASE Edit \/ CommitWork \/ UNCHANGED vars
  BY <1>1, <1>4 DEF Edit, CommitWork, vars, policy
<1>5. CASE \E k \in Packer : PackStep(k)
  BY <1>1, <1>5, PackOnly DEF PackFrame, policy
<1>6. CASE \E i \in Installer : InstallStep(i)
  BY <1>1, <1>6, InstallOnly DEF InstallFrame, policy
<1>7. CASE \E l \in Launcher : LaunchStep(l)
  BY <1>1, <1>7, LaunchOnly DEF LaunchFrame, policy
<1> QED BY <1>2, <1>3, <1>4, <1>5, <1>6, <1>7

\* Whatever administrators run at the same time, and whenever one of them is
\* killed, the active generation only moves as the command that moves it was
\* told to (_change_active_policy compares and swaps under its lock).
THEOREM PolicyMovesAsAsked == Spec => ActiveMovesAsAsked
<1> DEFINE Asked ==
      \/ active' = active
      \/ active' = durable /\ \A a \in Admin : adm'[a].pc = "killed"
      \/ \E a \in Admin :
           /\ adm[a].pc = "swap" /\ adm[a].target = active' /\ adm[a].expect = active
           /\ active # None =>
                IF adm[a].op = "activate" THEN active.gen < active'.gen
                                          ELSE active'.gen < active.gen
<1>1. ASSUME PolicyInv, [Next]_vars PROVE Asked
  <2>1. CASE UNCHANGED active
    BY <2>1
  <2>2. CASE PowerFailure
    <3>1. adm' = [a \in Admin |-> AdmEnded("killed")] /\ active' \in {active, durable}
      BY <2>2, AdmEndedIs DEF PowerFailure
    <3> QED BY <3>1 DEF AdmEnded
  <2>3. ASSUME NEW a \in Admin, AdminStep(a) PROVE Asked
    <3>1. SwapActive(a) \/ UNCHANGED active
      BY <2>3 DEF AdminStep, Command, LockPolicy, VerifyTarget, CompareGenerations,
         SyncPolicy,
         SyncPolicyFails, policy
    <3>2. CASE SwapActive(a)
      <4>1. adm[a].pc = "swap" /\ active' = adm[a].target
        BY <3>2 DEF SwapActive
      <4>2. Compared(adm[a])
        BY <1>1 DEF PolicyInv
      <4> QED BY <4>1, <4>2 DEF Compared
    <3> QED BY <2>1, <3>1, <3>2
  <2>4. PowerFailure \/ (\E a \in Admin : AdminStep(a)) \/ UNCHANGED active
    BY <1>1, PackOnly, InstallOnly, LaunchOnly DEF Next, PackFrame, InstallFrame,
       LaunchFrame,
       Kill, Edit, CommitWork, policy, vars
  <2> QED BY <2>1, <2>2, <2>3, <2>4
<1>2. PolicyInv /\ [Next]_vars => PolicyInv'
  BY PolicySteps, PolicyRest DEF Next
<1> QED BY <1>1, <1>2, PolicyInit, PTL DEF Spec, ActiveMovesAsAsked

-----------------------------------------------------------------------------
(* The launchers.                                                          *)

IsLau(r) == r = [pc |-> r.pc, want |-> r.want]
Building == {"exec", "entry", "build", "gate", "return"}
Runs == Seq(Launcher \union {None})

\* One launcher or build has the lock of the runs; while it builds, its own run
\* directory is the newest.
RunsInv ==
    /\ lau = [l \in Launcher |-> lau[l]]
    /\ \A l \in Launcher : IsLau(lau[l])
    /\ \A l, m \in Launcher : HoldsRuns(l) /\ HoldsRuns(m) => l = m
    /\ runs \in Runs /\ Len(runs) <= Retain
    /\ \A l \in Launcher :
         lau[l].pc \in Building => Len(runs) > 0 /\ runs[Len(runs)] = l

LauEnded(pc) == [pc |-> pc, want |-> None]

LEMMA LauEndedIs == \A pc : [LauIdle EXCEPT !.pc = pc] = LauEnded(pc)
<1> TAKE pc
<1>1. PICK e : e = [LauIdle EXCEPT !.pc = pc]
  OBVIOUS
<1>2. e = LauEnded(pc)
  BY <1>1 DEF LauIdle, LauEnded
<1> QED BY <1>1, <1>2

LEMMA RunsInit == Init => RunsInv
<1> SUFFICES ASSUME Init PROVE RunsInv
  OBVIOUS
<1>1. PICK crew : lau = [l \in Launcher |-> [LauIdle EXCEPT !.pc =
                          IF l \in crew THEN "start" ELSE "killed"]]
  BY DEF Init
<1>2. /\ lau = [l \in Launcher |-> lau[l]]
      /\ \A l \in Launcher : \E pc \in {"start", "killed"} : lau[l] = LauEnded(pc)
  BY <1>1, LauEndedIs
<1>3. runs = [n \in 1 .. Retain |-> None] /\ Retain \in Nat
  BY DEF Init
<1>4. runs \in [1 .. Retain -> Launcher \union {None}]
  BY <1>3
<1>5. runs \in Runs
  BY <1>3, <1>4, SeqDef DEF Runs
<1>6. Len(runs) = Retain
  BY <1>3, <1>4, <1>5, LenProperties DEF Runs
<1>7. runs \in Runs /\ Len(runs) <= Retain
  BY <1>3, <1>5, <1>6
<1>8. \A l \in Launcher : IsLau(lau[l]) /\ ~ HoldsRuns(l) /\ lau[l].pc \notin Building
  BY <1>2 DEF IsLau, LauEnded, HoldsRuns, Building
<1> QED BY <1>2, <1>7, <1>8 DEF RunsInv

LEMMA RemoveOne ==
    ASSUME runs \in Runs, NEW n \in 1 .. Len(runs), RemoveRun(n)
    PROVE runs' \in Runs /\ Len(runs') = Len(runs) - 1
<1> DEFINE before == SubSeq(runs, 1, n - 1)
           after == SubSeq(runs, n + 1, Len(runs))
<1>1. Len(runs) \in Nat /\ n \in Nat /\ 1 <= n /\ n <= Len(runs)
  BY LenProperties DEF Runs
<1>2. \A j \in 1 .. n - 1 : j \in 1 .. Len(runs)
  BY <1>1
<1>3. \A j \in n + 1 .. Len(runs) : j \in 1 .. Len(runs)
  BY <1>1
<1>4. before \in Runs /\ Len(before) = n - 1
  BY <1>1, <1>2, SubSeqProperties DEF Runs
<1>5. after \in Runs /\ Len(after) = Len(runs) - n
  BY <1>1, <1>3, SubSeqProperties DEF Runs
<1>6. runs' = before \o after
  BY DEF RemoveRun
<1> HIDE DEF before, after
<1>7. /\ before \o after \in Seq(Launcher \union {None})
      /\ Len(before \o after) = Len(before) + Len(after)
  BY <1>4, <1>5, ConcatProperties DEF Runs
<1>8. Len(before) + Len(after) = Len(runs) - 1
  BY <1>1, <1>4, <1>5
<1> QED BY <1>6, <1>7, <1>8 DEF Runs

\* A step of a launcher that takes the lock only if nobody has it, and builds
\* only when the newest run directory is its own.
LEMMA SetLau ==
    ASSUME RunsInv, NEW l \in Launcher, NEW r, IsLau(r), lau' = [lau EXCEPT ![l] = r],
           runs' \in Runs, Len(runs') <= Retain,
           UNCHANGED runs \/ \A m \in Launcher \ {l} : ~ HoldsRuns(m),
           r.pc \in {"verify", "prune"} \union Building =>
              \A m \in Launcher \ {l} : ~ HoldsRuns(m),
           r.pc \in Building => Len(runs') > 0 /\ runs'[Len(runs')] = l
    PROVE RunsInv'
<1>1. lau' = [m \in Launcher |-> IF m = l THEN r ELSE lau[m]]
  BY DEF RunsInv
<1> QED BY <1>1 DEF RunsInv, HoldsRuns, Building, IsLau

LEMMA EndLau ==
    ASSUME RunsInv, NEW l \in Launcher, NEW pc \in {"done", "refused", "failed", "killed"},
           lau' = LauncherEnds(l, pc), runs' \in Runs, Len(runs') <= Retain,
           UNCHANGED runs \/ \A m \in Launcher \ {l} : ~ HoldsRuns(m)
    PROVE RunsInv'
<1>1. PICK r : r = LauEnded(pc)
  OBVIOUS
<1>2. lau' = [lau EXCEPT ![l] = r]
  BY <1>1, LauEndedIs DEF LauncherEnds
<1>3. IsLau(r) /\ r.pc = pc
  BY <1>1 DEF LauEnded, IsLau
<1> QED BY <1>2, <1>3, SetLau DEF Building

LEMMA MoveLau ==
    ASSUME RunsInv, NEW l \in Launcher, NEW pc, lau' = [lau EXCEPT ![l].pc = pc],
           runs' \in Runs, Len(runs') <= Retain,
           UNCHANGED runs \/ \A m \in Launcher \ {l} : ~ HoldsRuns(m),
           pc \in {"verify", "prune"} \union Building =>
              \A m \in Launcher \ {l} : ~ HoldsRuns(m),
           pc \in Building => Len(runs') > 0 /\ runs'[Len(runs')] = l
    PROVE RunsInv'
<1>1. PICK r : r = [lau[l] EXCEPT !.pc = pc]
  OBVIOUS
<1>2. r = [pc |-> pc, want |-> lau[l].want]
  BY <1>1 DEF RunsInv, IsLau
<1>3. lau' = [lau EXCEPT ![l] = r]
  BY <1>1
<1>4. IsLau(r) /\ r.pc = pc
  BY <1>2 DEF IsLau
<1> QED BY <1>3, <1>4, SetLau

LEMMA RunsSteps ==
    ASSUME RunsInv, NEW l \in Launcher, LaunchStep(l)
    PROVE RunsInv'
<1>1. CASE ReadRequest(l)
  <2>1. PICK p : lau' = [lau EXCEPT ![l] = [pc |-> "active", want |-> p]]
    BY <1>1 DEF ReadRequest
  <2>2. PICK r : r = [pc |-> "active", want |-> p]
    OBVIOUS
  <2>3. IsLau(r) /\ r.pc = "active"
    BY <2>2 DEF IsLau
  <2>4. UNCHANGED runs /\ runs' \in Runs /\ Len(runs') <= Retain
    BY <1>1 DEF ReadRequest, RunsInv
  <2> QED BY <2>1, <2>2, <2>3, <2>4, SetLau DEF Building
<1>2. CASE ReadActive(l)
  <2>1. UNCHANGED runs /\ runs' \in Runs /\ Len(runs') <= Retain
    BY <1>2 DEF ReadActive, RunsInv
  <2> QED BY <1>2, <2>1, MoveLau, EndLau DEF ReadActive, Building
<1>3. CASE LockRuns(l)
  <2>1. UNCHANGED runs /\ runs' \in Runs /\ Len(runs') <= Retain
    BY <1>3 DEF LockRuns, RunsInv
  <2>2. CASE \E m \in Launcher \ {l} : HoldsRuns(m)
    BY <1>3, <2>1, <2>2, EndLau DEF LockRuns
  <2>3. CASE \A m \in Launcher \ {l} : ~ HoldsRuns(m)
    BY <1>3, <2>1, <2>3, MoveLau DEF LockRuns, Building
  <2> QED BY <2>2, <2>3
<1>4. CASE VerifyActive(l)
  <2>1. \A m \in Launcher \ {l} : ~ HoldsRuns(m)
    BY <1>4 DEF VerifyActive, RunsInv, HoldsRuns
  <2>2. /\ UNCHANGED runs
        /\ \/ lau' = [lau EXCEPT ![l].pc = "prune"]
           \/ lau' = LauncherEnds(l, "refused")
    BY <1>4 DEF VerifyActive
  <2>3. runs' \in Runs /\ Len(runs') <= Retain
    BY <2>2 DEF RunsInv
  <2>4. lau[l].pc \in Building => Len(runs') > 0 /\ runs'[Len(runs')] = l
    BY <2>2 DEF RunsInv
  <2> QED BY <1>4, <2>1, <2>2, <2>3, <2>4, MoveLau, EndLau DEF Building, VerifyActive
<1>5. CASE PruneRun(l)
  <2>1. \A m \in Launcher \ {l} : ~ HoldsRuns(m)
    BY <1>5 DEF PruneRun, RunsInv, HoldsRuns
  <2>2. lau[l].pc = "prune" /\ UNCHANGED lau
    BY <1>5 DEF PruneRun
  <2>3. PICK n : n = Len(runs) - Retain + 1
    OBVIOUS
  <2>4. n \in 1 .. Len(runs) /\ RemoveRun(n)
    BY <1>5, <2>3, LenProperties DEF PruneRun, RunsInv, Runs
  <2>5. runs' \in Runs /\ Len(runs') = Len(runs) - 1
    BY <2>4, RemoveOne DEF RunsInv
  <2>6. Len(runs') <= Retain
    BY <2>5, LenProperties DEF RunsInv, Runs
  <2> QED BY <2>1, <2>2, <2>5, <2>6 DEF RunsInv, HoldsRuns, Building
<1>6. CASE PruneRefuses(l)
  <2>1. \A m \in Launcher \ {l} : ~ HoldsRuns(m)
    BY <1>6 DEF PruneRefuses, RunsInv, HoldsRuns
  <2>2. /\ UNCHANGED runs
        /\ lau' = LauncherEnds(l, "refused")
    BY <1>6 DEF PruneRefuses
  <2>3. runs' \in Runs /\ Len(runs') <= Retain
    BY <2>2 DEF RunsInv
  <2>4. lau[l].pc \in Building => Len(runs') > 0 /\ runs'[Len(runs')] = l
    BY <2>2 DEF RunsInv
  <2> QED BY <1>6, <2>1, <2>2, <2>3, <2>4, MoveLau, EndLau DEF Building, PruneRefuses
<1>7. CASE CreateRun(l)
  <2>1. \A m \in Launcher \ {l} : ~ HoldsRuns(m)
    BY <1>7 DEF CreateRun, RunsInv, HoldsRuns
  <2>2. Len(runs) \in Nat /\ Len(runs) < Retain
    BY <1>7, LenProperties DEF CreateRun, RunsInv, Runs
  <2>3. runs' = Append(runs, l)
    BY <1>7 DEF CreateRun
  <2>4. runs' \in Runs /\ Len(runs') = Len(runs) + 1 /\ runs'[Len(runs) + 1] = l
    BY <2>3, AppendProperties DEF RunsInv, Runs
  <2>5. Len(runs') <= Retain /\ Len(runs') > 0 /\ runs'[Len(runs')] = l
    BY <2>2, <2>4
  <2> QED BY <1>7, <2>1, <2>4, <2>5, MoveLau DEF CreateRun
<1>8. CASE Exec(l)
  <2>1. \A m \in Launcher \ {l} : ~ HoldsRuns(m)
    BY <1>8 DEF Exec, RunsInv, HoldsRuns
  <2>2. /\ UNCHANGED runs
        /\ lau' = [lau EXCEPT ![l].pc = "entry"]
    BY <1>8 DEF Exec
  <2>3. runs' \in Runs /\ Len(runs') <= Retain
    BY <2>2 DEF RunsInv
  <2>4. lau[l].pc \in Building => Len(runs') > 0 /\ runs'[Len(runs')] = l
    BY <2>2 DEF RunsInv
  <2> QED BY <1>8, <2>1, <2>2, <2>3, <2>4, MoveLau, EndLau DEF Building, Exec
<1>9. CASE ExecFails(l)
  <2>1. \A m \in Launcher \ {l} : ~ HoldsRuns(m)
    BY <1>9 DEF ExecFails, RunsInv, HoldsRuns
  <2>2. PICK n \in 1 .. Len(runs) : RemoveRun(n)
    BY <1>9, LenProperties DEF ExecFails, RunsInv, Runs
  <2>3. runs' \in Runs /\ Len(runs') = Len(runs) - 1
    BY <2>2, RemoveOne DEF RunsInv
  <2>4. Len(runs') <= Retain
    BY <2>3, LenProperties DEF RunsInv, Runs
  <2> QED BY <1>9, <2>1, <2>3, <2>4, EndLau DEF ExecFails
<1>10. CASE EnterBuild(l)
  <2>1. \A m \in Launcher \ {l} : ~ HoldsRuns(m)
    BY <1>10 DEF EnterBuild, RunsInv, HoldsRuns
  <2>2. /\ UNCHANGED runs
        /\ \/ lau' = [lau EXCEPT ![l].pc = "build"]
           \/ lau' = LauncherEnds(l, "refused")
    BY <1>10 DEF EnterBuild
  <2>3. runs' \in Runs /\ Len(runs') <= Retain
    BY <2>2 DEF RunsInv
  <2>4. lau[l].pc \in Building => Len(runs') > 0 /\ runs'[Len(runs')] = l
    BY <2>2 DEF RunsInv
  <2> QED BY <1>10, <2>1, <2>2, <2>3, <2>4, MoveLau, EndLau DEF Building, EnterBuild
<1>11. CASE FinishBuild(l)
  <2>1. \A m \in Launcher \ {l} : ~ HoldsRuns(m)
    BY <1>11 DEF FinishBuild, RunsInv, HoldsRuns
  <2>2. /\ UNCHANGED runs
        /\ \/ lau' = [lau EXCEPT ![l].pc = "gate"]
           \/ lau' = LauncherEnds(l, "failed")
    BY <1>11 DEF FinishBuild
  <2>3. runs' \in Runs /\ Len(runs') <= Retain
    BY <2>2 DEF RunsInv
  <2>4. lau[l].pc \in Building => Len(runs') > 0 /\ runs'[Len(runs')] = l
    BY <2>2 DEF RunsInv
  <2> QED BY <1>11, <2>1, <2>2, <2>3, <2>4, MoveLau, EndLau DEF Building, FinishBuild
<1>12. CASE GateResult(l)
  <2>1. \A m \in Launcher \ {l} : ~ HoldsRuns(m)
    BY <1>12 DEF GateResult, RunsInv, HoldsRuns
  <2>2. /\ UNCHANGED runs
        /\ \/ lau' = [lau EXCEPT ![l].pc = "return"]
           \/ lau' = LauncherEnds(l, "refused")
           \/ lau' = LauncherEnds(l, "done")
    BY <1>12 DEF GateResult
  <2>3. runs' \in Runs /\ Len(runs') <= Retain
    BY <2>2 DEF RunsInv
  <2>4. lau[l].pc \in Building => Len(runs') > 0 /\ runs'[Len(runs')] = l
    BY <2>2 DEF RunsInv
  <2> QED BY <1>12, <2>1, <2>2, <2>3, <2>4, MoveLau, EndLau DEF Building, GateResult
<1> QED BY <1>1, <1>2, <1>3, <1>4, <1>5, <1>6, <1>7, <1>8, <1>9, <1>10, <1>11, <1>12
   DEF LaunchStep

LEMMA RunsRest ==
    ASSUME RunsInv,
           \/ \E k \in Packer : PackStep(k)
           \/ \E i \in Installer : InstallStep(i)
           \/ \E a \in Admin : AdminStep(a)
           \/ Edit \/ CommitWork \/ PowerFailure
           \/ \E x \in Packer \union Installer \union Admin \union Launcher : Kill(x)
           \/ UNCHANGED vars
    PROVE RunsInv'
<1>1. CASE UNCHANGED <<runs, lau>>
  BY <1>1 DEF RunsInv, IsLau, HoldsRuns
<1>2. CASE PowerFailure
  <2>1. lau' = [l \in Launcher |-> LauEnded("killed")] /\ UNCHANGED runs
    BY <1>2, LauEndedIs DEF PowerFailure
  <2> QED BY <2>1 DEF RunsInv, IsLau, HoldsRuns, LauEnded, Building
<1>3. ASSUME NEW x, Kill(x) PROVE RunsInv'
  <2>1. UNCHANGED runs /\ runs' \in Runs /\ Len(runs') <= Retain
    BY <1>3 DEF Kill, RunsInv
  <2>2. lau' = lau \/ (x \in Launcher /\ lau' = LauncherEnds(x, "killed"))
    BY <1>3 DEF Kill
  <2> QED BY <1>1, <2>1, <2>2, EndLau
<1>4. CASE Edit \/ CommitWork \/ UNCHANGED vars
  BY <1>1, <1>4 DEF Edit, CommitWork, vars
<1>5. CASE \E k \in Packer : PackStep(k)
  BY <1>1, <1>5, PackOnly DEF PackFrame
<1>6. CASE \E i \in Installer : InstallStep(i)
  BY <1>1, <1>6, InstallOnly DEF InstallFrame
<1>7. CASE \E a \in Admin : AdminStep(a)
  BY <1>1, <1>7, AdminOnly DEF AdminFrame
<1> QED BY <1>2, <1>3, <1>4, <1>5, <1>6, <1>7

\* A build that outlives its launcher keeps the lock and its run directory,
\* whoever launches or is killed besides, for every number of runs kept (the
\* lock descriptor is inherited over execve).
THEOREM OwnRunKept == Spec => []RunsKept
<1>1. RunsInv => RunsKept
  BY LenProperties DEF RunsInv, RunsKept, Building, Runs
<1>2. RunsInv /\ [Next]_vars => RunsInv'
  BY RunsSteps, RunsRest DEF Next
<1> QED BY <1>1, <1>2, RunsInit, PTL DEF Spec

-----------------------------------------------------------------------------
(* The installers, and what a reader of store and stream file sees.        *)

IsInst(r) == r = [pc |-> r.pc, file |-> r.file, owner |-> r.owner]
Locked == {"manifest", "fill", "publish", "sync", "withdraw", "remove"}

\* What an installer knows of the name it installs under.
NameKnown(r) ==
    /\ r.pc \in {"fill", "publish"} => r.file.man \notin whole \union partial
    /\ r.pc \in {"sync", "withdraw"} => r.file.man \in whole \ reported
    /\ r.pc = "remove" => r.file.man \in partial

\* One installer has the lock; what was reported stays whole, and what is
\* being removed is not whole any more.
InstallInv ==
    /\ inst = [i \in Installer |-> inst[i]]
    /\ \A i \in Installer : IsInst(inst[i]) /\ NameKnown(inst[i])
    /\ \A i, j \in Installer : HoldsStore(i) /\ HoldsStore(j) => i = j
    /\ Installed0 \subseteq reported
    /\ reported \subseteq whole /\ whole \intersect partial = {}

InstEnded(pc) == [pc |-> pc, file |-> None, owner |-> None]

LEMMA InstEndedIs == \A pc : [InstIdle EXCEPT !.pc = pc] = InstEnded(pc)
<1> TAKE pc
<1>1. PICK e : e = [InstIdle EXCEPT !.pc = pc]
  OBVIOUS
<1>2. e = InstEnded(pc)
  BY <1>1 DEF InstIdle, InstEnded
<1> QED BY <1>1, <1>2

LEMMA InstallInit == Init => InstallInv
<1> SUFFICES ASSUME Init PROVE InstallInv
  OBVIOUS
<1>1. PICK crew : inst = [i \in Installer |-> [InstIdle EXCEPT !.pc =
                          IF i \in crew THEN "start" ELSE "killed"]]
  BY DEF Init
<1>2. /\ inst = [i \in Installer |-> inst[i]]
      /\ \A i \in Installer : \E pc \in {"start", "killed"} : inst[i] = InstEnded(pc)
  BY <1>1, InstEndedIs
<1>3. whole = Installed0 /\ partial = {} /\ reported = Installed0
  BY DEF Init
<1> QED BY <1>2, <1>3 DEF InstallInv, IsInst, NameKnown, HoldsStore, InstEnded

\* A step of an installer that has the lock, or does not take or need it.
LEMMA SetInst ==
    ASSUME InstallInv, NEW i \in Installer, NEW r, IsInst(r), NameKnown(r)',
           inst' = [inst EXCEPT ![i] = r],
           Installed0 \subseteq reported', reported' \subseteq whole',
           whole' \intersect partial' = {},
           UNCHANGED store \/ \A j \in Installer \ {i} : ~ HoldsStore(j),
           r.pc \in Locked => \A j \in Installer \ {i} : ~ HoldsStore(j)
    PROVE InstallInv'
<1>1. inst' = [j \in Installer |-> IF j = i THEN r ELSE inst[j]]
  BY DEF InstallInv
<1>2. CASE UNCHANGED store
  BY <1>1, <1>2 DEF InstallInv, HoldsStore, Locked, NameKnown, store
<1>3. CASE \A j \in Installer \ {i} : ~ HoldsStore(j)
  BY <1>1, <1>3 DEF InstallInv, HoldsStore, Locked, NameKnown
<1> QED BY <1>2, <1>3

LEMMA EndInst ==
    ASSUME InstallInv, NEW i \in Installer, NEW pc \in {"done", "refused", "killed"},
           inst' = InstallerEnds(i, pc),
           Installed0 \subseteq reported', reported' \subseteq whole',
           whole' \intersect partial' = {},
           UNCHANGED store \/ \A j \in Installer \ {i} : ~ HoldsStore(j)
    PROVE InstallInv'
<1>1. PICK r : r = InstEnded(pc)
  OBVIOUS
<1>2. inst' = [inst EXCEPT ![i] = r]
  BY <1>1, InstEndedIs DEF InstallerEnds
<1>3. IsInst(r) /\ r.pc = pc
  BY <1>1 DEF InstEnded, IsInst
<1>4. NameKnown(r)'
  BY <1>3 DEF NameKnown
<1> QED BY <1>2, <1>3, <1>4, SetInst DEF Locked

LEMMA MoveInst ==
    ASSUME InstallInv, NEW i \in Installer, NEW pc \in Locked,
           inst' = [inst EXCEPT ![i].pc = pc],
           pc \in {"fill", "publish"} => inst[i].file.man \notin whole' \union partial',
           pc \in {"sync", "withdraw"} => inst[i].file.man \in whole' \ reported',
           pc = "remove" => inst[i].file.man \in partial',
           Installed0 \subseteq reported', reported' \subseteq whole',
           whole' \intersect partial' = {},
           \A j \in Installer \ {i} : ~ HoldsStore(j)
    PROVE InstallInv'
<1>1. PICK r : r = [inst[i] EXCEPT !.pc = pc]
  OBVIOUS
<1>2. r = [pc |-> pc, file |-> inst[i].file, owner |-> inst[i].owner]
  BY <1>1 DEF InstallInv, IsInst
<1>3. inst' = [inst EXCEPT ![i] = r]
  BY <1>1
<1>4. IsInst(r) /\ r.pc = pc /\ r.file = inst[i].file
  BY <1>2 DEF IsInst
<1>5. NameKnown(r)'
  BY <1>4 DEF NameKnown
<1> QED BY <1>3, <1>4, <1>5, SetInst

LEMMA InstallSteps ==
    ASSUME InstallInv, NEW i \in Installer, InstallStep(i)
    PROVE InstallInv'
<1>1. CASE OpenInput(i)
  <2>1. PICK f, o : inst' = [inst EXCEPT ![i] = [pc |-> "lock", file |-> f, owner |-> o]]
    BY <1>1 DEF OpenInput
  <2>2. PICK r : r = [pc |-> "lock", file |-> f, owner |-> o]
    OBVIOUS
  <2>3. IsInst(r) /\ r.pc = "lock"
    BY <2>2 DEF IsInst
  <2>4. NameKnown(r)'
    BY <2>3 DEF NameKnown
  <2>5. /\ UNCHANGED store /\ Installed0 \subseteq reported' /\ reported' \subseteq whole'
        /\ whole' \intersect partial' = {}
    BY <1>1 DEF OpenInput, InstallInv, store
  <2> QED BY <2>1, <2>2, <2>3, <2>4, <2>5, SetInst DEF Locked
<1>2. CASE LockStore(i)
  <2>1. /\ UNCHANGED store /\ Installed0 \subseteq reported' /\ reported' \subseteq whole'
        /\ whole' \intersect partial' = {}
    BY <1>2 DEF LockStore, InstallInv, store
  <2>2. CASE \E j \in Installer \ {i} : HoldsStore(j)
    BY <1>2, <2>1, <2>2, EndInst DEF LockStore
  <2>3. CASE \A j \in Installer \ {i} : ~ HoldsStore(j)
    BY <1>2, <2>1, <2>3, MoveInst DEF LockStore, Locked
  <2> QED BY <2>2, <2>3
<1>3. CASE ReadManifest(i)
  <2>1. \A j \in Installer \ {i} : ~ HoldsStore(j)
    BY <1>3 DEF ReadManifest, InstallInv, HoldsStore
  <2>2. NameKnown(inst[i])
    BY DEF InstallInv
  <2>3. /\ UNCHANGED store
        /\ \/ inst' = [inst EXCEPT ![i].pc = "fill"] /\ inst[i].file.man \notin whole \union partial
           \/ inst' = InstallerEnds(i, "refused")
    BY <1>3, <2>2 DEF ReadManifest, NameKnown, store
  <2>4. /\ Installed0 \subseteq reported' /\ reported' \subseteq whole'
        /\ whole' \intersect partial' = {}
    BY <1>3, <2>2, <2>3 DEF ReadManifest, NameKnown, InstallInv, store
  <2> QED BY <1>3, <2>1, <2>2, <2>3, <2>4, MoveInst, EndInst
          DEF Locked, store
<1>4. CASE FillIncoming(i)
  <2>1. \A j \in Installer \ {i} : ~ HoldsStore(j)
    BY <1>4 DEF FillIncoming, InstallInv, HoldsStore
  <2>2. NameKnown(inst[i])
    BY DEF InstallInv
  <2>3. /\ UNCHANGED store
        /\ \/ inst' = [inst EXCEPT ![i].pc = "publish"] /\ inst[i].file.man \notin whole \union partial
           \/ inst' = InstallerEnds(i, "refused")
    BY <1>4, <2>2 DEF FillIncoming, NameKnown, store
  <2>4. /\ Installed0 \subseteq reported' /\ reported' \subseteq whole'
        /\ whole' \intersect partial' = {}
    BY <1>4, <2>2, <2>3 DEF FillIncoming, NameKnown, InstallInv, store
  <2> QED BY <1>4, <2>1, <2>2, <2>3, <2>4, MoveInst, EndInst
          DEF Locked, store
<1>5. CASE PublishSeal(i)
  <2>1. \A j \in Installer \ {i} : ~ HoldsStore(j)
    BY <1>5 DEF PublishSeal, InstallInv, HoldsStore
  <2>2. NameKnown(inst[i])
    BY DEF InstallInv
  <2>3. \/ /\ inst' = [inst EXCEPT ![i].pc = "sync"] /\ UNCHANGED <<partial, reported>>
           /\ inst[i].file.man \notin whole \union partial
           /\ whole' = whole \union {inst[i].file.man}
        \/ inst' = InstallerEnds(i, "refused") /\ UNCHANGED store
    BY <1>5, <2>2 DEF PublishSeal, NameKnown, store
  <2>4. /\ Installed0 \subseteq reported' /\ reported' \subseteq whole'
        /\ whole' \intersect partial' = {}
    BY <1>5, <2>2, <2>3 DEF PublishSeal, NameKnown, InstallInv, store
  <2> QED BY <1>5, <2>1, <2>2, <2>3, <2>4, MoveInst, EndInst
          DEF Locked, InstallInv
<1>6. CASE SyncStore(i)
  <2>1. \A j \in Installer \ {i} : ~ HoldsStore(j)
    BY <1>6 DEF SyncStore, InstallInv, HoldsStore
  <2>2. NameKnown(inst[i])
    BY DEF InstallInv
  <2>3. /\ inst' = InstallerEnds(i, "done") /\ UNCHANGED <<whole, partial>> /\ inst[i].file.man \in whole
        /\ reported' = reported \union {inst[i].file.man}
    BY <1>6, <2>2 DEF SyncStore, NameKnown, store
  <2>4. /\ Installed0 \subseteq reported' /\ reported' \subseteq whole'
        /\ whole' \intersect partial' = {}
    BY <1>6, <2>2, <2>3 DEF SyncStore, NameKnown, InstallInv, store
  <2> QED BY <1>6, <2>1, <2>2, <2>3, <2>4, MoveInst, EndInst
          DEF Locked
<1>7. CASE SyncStoreFails(i)
  <2>1. \A j \in Installer \ {i} : ~ HoldsStore(j)
    BY <1>7 DEF SyncStoreFails, InstallInv, HoldsStore
  <2>2. NameKnown(inst[i])
    BY DEF InstallInv
  <2>3. /\ inst' = [inst EXCEPT ![i].pc = "withdraw"] /\ UNCHANGED <<whole, partial, reported>>
        /\ inst[i].file.man \in whole \ reported
    BY <1>7, <2>2 DEF SyncStoreFails, NameKnown, store
  <2>4. /\ Installed0 \subseteq reported' /\ reported' \subseteq whole'
        /\ whole' \intersect partial' = {}
    BY <1>7, <2>2, <2>3 DEF SyncStoreFails, NameKnown, InstallInv, store
  <2> QED BY <1>7, <2>1, <2>2, <2>3, <2>4, MoveInst, EndInst
          DEF Locked
<1>8. CASE Withdraw(i)
  <2>1. \A j \in Installer \ {i} : ~ HoldsStore(j)
    BY <1>8 DEF Withdraw, InstallInv, HoldsStore
  <2>2. NameKnown(inst[i])
    BY DEF InstallInv
  <2>3. /\ inst' = [inst EXCEPT ![i].pc = "remove"] /\ UNCHANGED reported /\ inst[i].file.man \in whole \ reported
        /\ whole' = whole \ {inst[i].file.man} /\ partial' = partial \union {inst[i].file.man}
    BY <1>8, <2>2 DEF Withdraw, NameKnown, store
  <2>4. /\ Installed0 \subseteq reported' /\ reported' \subseteq whole'
        /\ whole' \intersect partial' = {}
    BY <1>8, <2>2, <2>3 DEF Withdraw, NameKnown, InstallInv, store
  <2> QED BY <1>8, <2>1, <2>2, <2>3, <2>4, MoveInst, EndInst
          DEF Locked
<1>9. CASE RemoveTree(i)
  <2>1. \A j \in Installer \ {i} : ~ HoldsStore(j)
    BY <1>9 DEF RemoveTree, InstallInv, HoldsStore
  <2>2. NameKnown(inst[i])
    BY DEF InstallInv
  <2>3. /\ inst' = InstallerEnds(i, "refused") /\ UNCHANGED <<whole, reported>> /\ inst[i].file.man \in partial
        /\ partial' = partial \ {inst[i].file.man}
    BY <1>9, <2>2 DEF RemoveTree, NameKnown, store
  <2>4. /\ Installed0 \subseteq reported' /\ reported' \subseteq whole'
        /\ whole' \intersect partial' = {}
    BY <1>9, <2>2, <2>3 DEF RemoveTree, NameKnown, InstallInv, store
  <2> QED BY <1>9, <2>1, <2>2, <2>3, <2>4, MoveInst, EndInst
          DEF Locked
<1> QED BY <1>1, <1>2, <1>3, <1>4, <1>5, <1>6, <1>7, <1>8, <1>9 DEF InstallStep

LEMMA InstallRest ==
    ASSUME InstallInv,
           \/ \E k \in Packer : PackStep(k)
           \/ \E a \in Admin : AdminStep(a)
           \/ \E l \in Launcher : LaunchStep(l)
           \/ Edit \/ CommitWork \/ PowerFailure
           \/ \E x \in Packer \union Installer \union Admin \union Launcher : Kill(x)
           \/ UNCHANGED vars
    PROVE InstallInv'
<1>1. CASE UNCHANGED <<store, inst>>
  BY <1>1 DEF InstallInv, IsInst, HoldsStore, NameKnown, store
<1>2. CASE PowerFailure
  <2>1. inst' = [i \in Installer |-> InstEnded("killed")]
    BY <1>2, InstEndedIs DEF PowerFailure
  <2>2. PICK lost \in SUBSET ((whole \union partial) \ reported) :
           whole' = whole \ lost /\ partial' = partial \ lost
    BY <1>2 DEF PowerFailure
  <2>3. UNCHANGED reported
    BY <1>2 DEF PowerFailure
  <2>4. /\ Installed0 \subseteq reported' /\ reported' \subseteq whole'
        /\ whole' \intersect partial' = {}
    BY <2>2, <2>3 DEF InstallInv
  <2> QED BY <2>1, <2>4 DEF InstallInv, IsInst, HoldsStore, NameKnown, InstEnded
<1>3. ASSUME NEW x, Kill(x) PROVE InstallInv'
  <2>1. /\ UNCHANGED store /\ Installed0 \subseteq reported' /\ reported' \subseteq whole'
        /\ whole' \intersect partial' = {}
    BY <1>3 DEF Kill, InstallInv, store
  <2>2. inst' = inst \/ (x \in Installer /\ inst' = InstallerEnds(x, "killed"))
    BY <1>3 DEF Kill
  <2> QED BY <1>1, <2>1, <2>2, EndInst
<1>4. CASE Edit \/ CommitWork \/ UNCHANGED vars
  BY <1>1, <1>4 DEF Edit, CommitWork, vars, store
<1>5. CASE \E k \in Packer : PackStep(k)
  BY <1>1, <1>5, PackOnly DEF PackFrame
<1>6. CASE \E a \in Admin : AdminStep(a)
  BY <1>1, <1>6, AdminOnly DEF AdminFrame
<1>7. CASE \E l \in Launcher : LaunchStep(l)
  BY <1>1, <1>7, LaunchOnly DEF LaunchFrame
<1> QED BY <1>2, <1>3, <1>4, <1>5, <1>6, <1>7

LEMMA InstallAlways == Spec => []InstallInv
<1>1. InstallInv /\ [Next]_vars => InstallInv'
  BY InstallSteps, InstallRest DEF Next
<1> QED BY InstallInit, <1>1, PTL DEF Spec

\* What a reader sees of the slots, as PublishOnce is given it.
Shown == [s \in Slots |-> Stage(s)]

LEMMA SlotsAre == Slots' = Slots /\ Output \in Slots /\ Slots \ {Output} \subseteq Manifest
<1>1. \A s \in Stray : s.man \in Manifest
  BY DEF Stream
<1>2. \A c \in Sound, d \in Sound, k \in Packer :
        [content |-> c, commit |-> d, gen |-> PackGen[k], current |-> TRUE] \in Manifest
  BY DEF Manifest
<1> QED BY <1>1, <1>2 DEF Slots, Fresh

\* A step that changes what one slot shows.
LEMMA ShowOne ==
    ASSUME NEW x \in Slots, NEW v, Stage(x)' = v,
           \A s \in Slots \ {x} : Stage(s)' = Stage(s)
    PROVE Shown[x] = Stage(x) /\ Shown' = [Shown EXCEPT ![x] = v]
BY SlotsAre DEF Shown

LEMMA ShowSame ==
    ASSUME UNCHANGED <<out, store>>
    PROVE UNCHANGED Shown
<1>1. \A s \in Slots : Stage(s)' = Stage(s)
  BY DEF Stage, StreamStage, SealStage, store
<1> QED BY <1>1, SlotsAre DEF Shown

\* The stream file's slot.
LEMMA ShowStream ==
    ASSUME UNCHANGED store
    PROVE /\ Shown[Output] = StreamStage
          /\ Shown' = [Shown EXCEPT ![Output] = StreamStage']
<1>1. \A s \in Slots \ {Output} : Stage(s)' = Stage(s)
  BY DEF Stage, SealStage, store
<1>2. Stage(Output) = StreamStage /\ Stage(Output)' = StreamStage'
  BY DEF Stage
<1> QED BY <1>1, <1>2, SlotsAre, ShowOne

\* The slot of one seal, or none.
LEMMA ShowSeal ==
    ASSUME NEW m, UNCHANGED out, \A s : s # m => SealStage(s)' = SealStage(s)
    PROVE \/ UNCHANGED Shown
          \/ /\ m \in Slots \ {Output} /\ m \in Manifest
             /\ Shown[m] = SealStage(m)
             /\ Shown' = [Shown EXCEPT ![m] = SealStage(m)']
<1>1. \A s \in Slots \ {m} : Stage(s)' = Stage(s)
  BY DEF Stage, StreamStage
<1>2. CASE m \in Slots \ {Output}
  <2>1. Stage(m) = SealStage(m) /\ Stage(m)' = SealStage(m)'
    BY <1>2 DEF Stage
  <2> QED BY <1>1, <1>2, <2>1, SlotsAre, ShowOne
<1>3. CASE m \notin Slots \ {Output}
  <2>1. \A s \in Slots : Stage(s)' = Stage(s)
    BY <1>1, <1>3 DEF Stage, StreamStage
  <2> QED BY <2>1, SlotsAre DEF Shown
<1> QED BY <1>2, <1>3

LEMMA PackPublishes ==
    ASSUME PackInv, NEW k \in Packer, PackStep(k)
    PROVE Publication!Next \/ UNCHANGED Shown
<1>0. UNCHANGED store
  BY PackOnly DEF PackFrame
<1>1. CASE UNCHANGED out
  BY <1>0, <1>1, ShowSame
<1>2. CASE RenameNoReplace(k) /\ out' # out
  <2>1. out = None /\ ~ out'.kept
    BY <1>2 DEF RenameNoReplace
  <2>2. StreamStage = Publication!Absent
    BY <2>1 DEF StreamStage, Publication!Absent
  <2>3. StreamStage' = Publication!Pending
    BY <1>2, <2>1 DEF StreamStage, Publication!Pending
  <2>4. Publication!Appear(Output)
    BY <1>0, <2>2, <2>3, ShowStream DEF Publication!Appear, Shown
  <2> QED BY <2>4, SlotsAre DEF Publication!Next
<1>3. CASE Commit(k) /\ out' # out
  <2>1. /\ out # None /\ out.owner = k /\ out' = [out EXCEPT !.kept = TRUE]
        /\ IsOut(out) /\ out.man \in Manifest /\ ~ out.kept
    BY <1>3 DEF Commit, PackInv, OutOne, Publisher
  <2>2. PICK o : o = [out EXCEPT !.kept = TRUE]
    OBVIOUS
  <2>3. o = [owner |-> out.owner, man |-> out.man, body |-> out.body, kept |-> TRUE]
    BY <2>1, <2>2 DEF IsOut
  <2>4. out'.kept = TRUE /\ out'.man = out.man
    BY <2>1, <2>2, <2>3
  <2>5. StreamStage = Publication!Pending
    BY <2>1 DEF StreamStage, Publication!Pending
  <2>6. CASE out' = None
    <3>1. StreamStage' = Publication!Absent
      BY <2>6 DEF StreamStage, Publication!Absent
    <3>2. Publication!Retract(Output)
      BY <1>0, <2>5, <3>1, ShowStream DEF Publication!Retract, Shown
    <3> QED BY <3>2, SlotsAre DEF Publication!Next
  <2>7. CASE out' # None
    <3>1. StreamStage' = Publication!Settled(out.man)
      BY <2>4, <2>7 DEF StreamStage, Publication!Settled
    <3>2. Publication!Settle(Output)
      BY <1>0, <2>1, <2>5, <3>1, ShowStream DEF Publication!Settle, Shown
    <3> QED BY <3>2, SlotsAre DEF Publication!Next
  <2> QED BY <2>6, <2>7
<1>4. CASE UnlinkOurs(k) /\ out' # out
  <2>1. out # None /\ out' = None /\ ~ out.kept
    BY <1>4 DEF UnlinkOurs, PackInv, Publisher
  <2>2. StreamStage = Publication!Pending /\ StreamStage' = Publication!Absent
    BY <2>1 DEF StreamStage, Publication!Pending, Publication!Absent
  <2>3. Publication!Retract(Output)
    BY <1>0, <2>2, ShowStream DEF Publication!Retract, Shown
  <2> QED BY <2>3, SlotsAre DEF Publication!Next
<1>5. UNCHANGED out \/ RenameNoReplace(k) \/ Commit(k) \/ UnlinkOurs(k)
  BY DEF PackStep, Preflight, Derive, CreateTemporary, WriteManifest, WriteMembers,
         Rederive, Interrupt
<1> QED BY <1>1, <1>2, <1>3, <1>4, <1>5

LEMMA InstallPublishes ==
    ASSUME InstallInv, NEW i \in Installer, InstallStep(i)
    PROVE Publication!Next \/ UNCHANGED Shown
<1>7. PICK m : m = inst[i].file.man
  OBVIOUS
<1>0. UNCHANGED out /\ NameKnown(inst[i]) /\ reported \subseteq whole
      /\ whole \intersect partial = {}
  BY InstallOnly DEF InstallFrame, InstallInv
<1>1. CASE UNCHANGED store
  BY <1>0, <1>1, ShowSame
<1>2. CASE PublishSeal(i) /\ ~ UNCHANGED store
  <2>1. /\ m \notin whole \union partial /\ UNCHANGED <<partial, reported>>
        /\ whole' = whole \union {m}
    BY <1>0, <1>7, <1>2 DEF PublishSeal, NameKnown, store
  <2>2. SealStage(m) = Publication!Absent /\ SealStage(m)' = Publication!Pending
    BY <1>0, <2>1 DEF SealStage, Publication!Absent, Publication!Pending
  <2>3. \A s : s # m => SealStage(s)' = SealStage(s)
    BY <2>1 DEF SealStage
  <2>4. UNCHANGED Shown \/ (m \in Slots /\ Publication!Appear(m))
    BY <1>0, <2>2, <2>3, ShowSeal DEF Publication!Appear, Shown
  <2> QED BY <2>4 DEF Publication!Next
<1>3. CASE SyncStore(i)
  <2>1. /\ m \in whole \ reported /\ UNCHANGED <<whole, partial>>
        /\ reported' = reported \union {m}
    BY <1>0, <1>7, <1>3 DEF SyncStore, NameKnown
  <2>2. SealStage(m) = Publication!Pending /\ SealStage(m)' = Publication!Settled(m)
    BY <1>0, <2>1 DEF SealStage, Publication!Pending, Publication!Settled
  <2>3. \A s : s # m => SealStage(s)' = SealStage(s)
    BY <2>1 DEF SealStage
  <2>4. UNCHANGED Shown \/ (m \in Slots /\ Publication!Settle(m))
    BY <1>0, <2>2, <2>3, ShowSeal DEF Publication!Settle, Shown
  <2> QED BY <2>4 DEF Publication!Next
<1>4. CASE Withdraw(i)
  <2>1. /\ m \in whole \ reported /\ UNCHANGED reported
        /\ whole' = whole \ {m} /\ partial' = partial \union {m}
    BY <1>0, <1>7, <1>4 DEF Withdraw, NameKnown
  <2>2. \A s : SealStage(s)' = SealStage(s)
    BY <2>1 DEF SealStage
  <2>3. SealStage(m)' = SealStage(m)
    BY <2>2
  <2>4. UNCHANGED Shown \/ Shown' = [Shown EXCEPT ![m] = Shown[m]]
    BY <1>0, <2>2, <2>3, ShowSeal
  <2> QED BY <2>4 DEF Shown
<1>5. CASE RemoveTree(i)
  <2>1. /\ m \in partial /\ m \notin whole /\ UNCHANGED <<whole, reported>>
        /\ partial' = partial \ {m}
    BY <1>0, <1>7, <1>5 DEF RemoveTree, NameKnown
  <2>2. SealStage(m) = Publication!Pending /\ SealStage(m)' = Publication!Absent
    BY <1>0, <2>1 DEF SealStage, Publication!Pending, Publication!Absent
  <2>3. \A s : s # m => SealStage(s)' = SealStage(s)
    BY <2>1 DEF SealStage
  <2>4. UNCHANGED Shown \/ (m \in Slots /\ Publication!Retract(m))
    BY <1>0, <2>2, <2>3, ShowSeal DEF Publication!Retract, Shown
  <2> QED BY <2>4 DEF Publication!Next
<1>6. UNCHANGED store \/ PublishSeal(i) \/ SyncStore(i) \/ Withdraw(i) \/ RemoveTree(i)
  BY DEF InstallStep, OpenInput, LockStore, ReadManifest, FillIncoming, SyncStoreFails,
         store
<1> QED BY <1>1, <1>2, <1>3, <1>4, <1>5, <1>6

\* A power failure takes back only what no publisher had vouched for.
LEMMA PowerPublishes ==
    ASSUME InstallInv, PowerFailure
    PROVE Publication!Next
<1> DEFINE lostSlots == {s \in Slots : Shown[s] = Publication!Pending
                                       /\ Stage(s)' = Publication!Absent}
<1>1. PICK lost \in SUBSET ((whole \union partial) \ reported) :
        whole' = whole \ lost /\ partial' = partial \ lost
  BY DEF PowerFailure
<1>2. UNCHANGED reported /\ reported \subseteq whole /\ whole \intersect partial = {}
  BY DEF PowerFailure, InstallInv
<1>3. out' = out \/ (out' = None /\ ~ out.kept)
  BY DEF PowerFailure
<1>4. \A s : SealStage(s)' = SealStage(s)
             \/ (SealStage(s) = Publication!Pending /\ SealStage(s)' = Publication!Absent)
  BY <1>1, <1>2 DEF SealStage, Publication!Pending, Publication!Absent
<1>5. StreamStage' = StreamStage
      \/ (StreamStage = Publication!Pending /\ StreamStage' = Publication!Absent)
  BY <1>3 DEF StreamStage, Publication!Pending, Publication!Absent
<1>6. \A s \in Slots : Stage(s)' = IF s \in lostSlots THEN Publication!Absent
                                                      ELSE Shown[s]
  BY <1>4, <1>5 DEF Stage, Shown
<1> HIDE DEF lostSlots
<1>7. Shown' = [s \in Slots |-> IF s \in lostSlots THEN Publication!Absent ELSE Shown[s]]
  BY <1>6, SlotsAre DEF Shown
<1>8. lostSlots \in SUBSET {s \in Slots : Shown[s] = Publication!Pending}
  BY DEF lostSlots
<1>9. Publication!Lose
  BY <1>7, <1>8 DEF Publication!Lose, Shown
<1> QED BY <1>9 DEF Publication!Next

\* Store and stream file keep PublishOnce's promise for every set of packers,
\* installers and seals, and any number of failed fsyncs, kills and power
\* failures: a name whose installer returned it, or whose packer committed it,
\* shows that one tree for good (StorePublishOnce).
THEOREM SealsArePublishedOnce == Spec => StorePublishOnce
<1>1. Init => Publication!Init
  <2> SUFFICES ASSUME Init PROVE Publication!Init
    OBVIOUS
  <2>1. out = None /\ whole = Installed0 /\ partial = {} /\ reported = Installed0
    BY DEF Init
  <2>2. \A s \in Slots : Stage(s) = Publication!Absent
    BY <2>1 DEF Slots, Stage, StreamStage, SealStage, Publication!Absent
  <2> QED BY <2>2 DEF Publication!Init
<1>2. PackInv /\ InstallInv /\ [Next]_vars => [Publication!Next]_Shown
  <2> SUFFICES ASSUME PackInv, InstallInv, [Next]_vars
               PROVE Publication!Next \/ UNCHANGED Shown
    OBVIOUS
  <2>1. ASSUME NEW k \in Packer, PackStep(k) PROVE Publication!Next \/ UNCHANGED Shown
    BY <2>1, PackPublishes
  <2>2. ASSUME NEW i \in Installer, InstallStep(i)
        PROVE Publication!Next \/ UNCHANGED Shown
    BY <2>2, InstallPublishes
  <2>3. ASSUME NEW a \in Admin, AdminStep(a) PROVE UNCHANGED Shown
    BY <2>3, AdminOnly, ShowSame DEF AdminFrame
  <2>4. ASSUME NEW l \in Launcher, LaunchStep(l) PROVE UNCHANGED Shown
    BY <2>4, LaunchOnly, ShowSame DEF LaunchFrame
  <2>5. ASSUME NEW x, Kill(x) PROVE UNCHANGED Shown
    BY <2>5, ShowSame DEF Kill
  <2>6. CASE Edit \/ CommitWork \/ UNCHANGED vars
    BY <2>6, ShowSame DEF Edit, CommitWork, vars, store
  <2>7. CASE PowerFailure
    BY <2>7, PowerPublishes
  <2> QED BY <2>1, <2>2, <2>3, <2>4, <2>5, <2>6, <2>7 DEF Next
<1> QED BY <1>1, <1>2, PackAlways, InstallAlways, PTL
        DEF Spec, StorePublishOnce, Publication!Spec, Shown

\* What PublishOnce lets a step do to a slot that is settled.
LEMMA SettledStays ==
    ASSUME [Publication!Next]_Shown, NEW s \in Slots, Stage(s).stage = "settled"
    PROVE Stage(s)' = Stage(s)
<1> USE DEF Publication!Absent, Publication!Pending, Publication!Settled
<1>0. Shown[s] = Stage(s) /\ Shown'[s] = Stage(s)'
  BY SlotsAre DEF Shown
<1>1. ASSUME NEW t \in Slots,
             Publication!Appear(t) \/ Publication!Retract(t) \/ Publication!Settle(t)
      PROVE Shown'[s] = Shown[s]
  <2>1. Shown[t].stage \in {"absent", "pending"}
    BY <1>1 DEF Publication!Appear, Publication!Retract, Publication!Settle, Shown
  <2>2. \E x : Shown' = [Shown EXCEPT ![t] = x]
    BY <1>1 DEF Publication!Appear, Publication!Retract, Publication!Settle, Shown
  <2>3. s # t
    BY <1>0, <2>1
  <2>4. s \in DOMAIN Shown
    BY DEF Shown
  <2> QED BY <2>2, <2>3, <2>4
<1>2. CASE Publication!Lose
  <2>1. PICK lost \in SUBSET {t \in Slots : Shown[t] = Publication!Pending} :
            Shown' = [t \in Slots |-> IF t \in lost THEN Publication!Absent ELSE Shown[t]]
    BY <1>2 DEF Publication!Lose, Shown
  <2>2. s \notin lost
    BY <1>0
  <2> QED BY <1>0, <2>1, <2>2
<1>3. CASE UNCHANGED Shown
  BY <1>0, <1>3
<1> QED BY <1>0, <1>1, <1>2, <1>3 DEF Publication!Next

\* A stream file that its packer kept stays, and says the same; a generation
\* whose name was returned stays in the store, whole.
KeptForGood ==
    [][/\ out # None /\ out.kept => out' # None /\ out'.kept /\ out'.man = out.man
       /\ \A s \in Slots \ {Output} : s \in reported \cap whole => s \in (reported \cap whole)'
      ]_vars

\* Whatever other packers, installers, administrators and launchers do, and
\* whatever is killed or loses its power, what was vouched for is not replaced,
\* withdrawn or damaged.  It follows from PublishOnce.
THEOREM KeptStaysPublished == Spec => KeptForGood
<1>1. [Publication!Next]_Shown /\ [Next]_vars =>
        [/\ out # None /\ out.kept => out' # None /\ out'.kept /\ out'.man = out.man
         /\ \A s \in Slots \ {Output} :
               s \in reported \cap whole => s \in (reported \cap whole)'
        ]_vars
  <2> SUFFICES ASSUME [Publication!Next]_Shown
               PROVE  /\ out # None /\ out.kept => out' # None /\ out'.kept /\ out'.man = out.man
                      /\ \A s \in Slots \ {Output} :
                            s \in reported \cap whole => s \in (reported \cap whole)'
    OBVIOUS
  <2>1. ASSUME out # None, out.kept PROVE out' # None /\ out'.kept /\ out'.man = out.man
    <3>1. Stage(Output).stage = "settled" /\ Stage(Output).tree = out.man
      BY <2>1 DEF Stage, StreamStage
    <3>2. Stage(Output)' = Stage(Output)
      BY <3>1, SlotsAre, SettledStays
    <3>3. Stage(Output)' = StreamStage'
      BY DEF Stage
    <3>4. StreamStage'.stage = "settled" /\ StreamStage'.tree = out.man
      BY <3>1, <3>2, <3>3
    <3>5. out' # None /\ out'.kept
      BY <3>4 DEF StreamStage
    <3> QED BY <3>4, <3>5 DEF StreamStage
  <2>2. ASSUME NEW s \in Slots \ {Output}, s \in reported, s \in whole
        PROVE  s \in reported' /\ s \in whole'
    <3>1. Stage(s).stage = "settled"
      BY <2>2 DEF Stage, SealStage
    <3>2. Stage(s)'.stage = "settled"
      BY <3>1, SettledStays
    <3>3. Stage(s)' = SealStage(s)'
      BY <2>2 DEF Stage
    <3> QED BY <3>2, <3>3 DEF SealStage
  <2> QED BY <2>1, <2>2
<1> QED BY <1>1, SealsArePublishedOnce, PTL DEF Spec, StorePublishOnce, Publication!Spec,
           KeptForGood, Shown
============================================================================
