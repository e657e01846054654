-------------------------- MODULE GovernanceProofs --------------------------
(* Proofs about the governance engine, for every instance. *)
EXTENDS Governance, TLAPS

\* What a process knows at each of its steps: the record, policy or request it
\* works on is there, and is of the kind its subcommand accepted.
LocalOK ==
    \A p \in Proc :
      /\ pc[p] \in {"create", "check", "hash", "guard", "append", "commit", "rename", "print"}
            => rec[p] \in Record
      /\ pc[p] = "create" => rec[p].status = "ready"
      /\ pc[p] \in {"check", "guard", "append", "print"} \/
         (cmd[p] = "claim" /\ pc[p] \in {"hash", "commit", "rename"})
            => rec[p].action # None /\ rec[p].status = "ready"
      /\ pc[p] = "check" => cmd[p] \in {"claim", "preflight"}
      /\ pc[p] \in {"guard", "append", "print"} => cmd[p] = "claim"
      /\ pc[p] \in {"hash", "commit", "rename"} =>
            \/ cmd[p] = "claim"
            \/ cmd[p] = "observe" /\ rec[p].obs < MaxObs
            \/ cmd[p] = "result" /\ (rec[p].action = None \/ rec[p].status = "claimed")
      /\ pc[p] \in {"confirm", "record", "replace"} => cmd[p] = "authorize" /\ req[p] \in Request
      /\ pc[p] = "preview" => cmd[p] = "authorize"
      /\ pc[p] \in {"wait", "locked"} /\ cmd[p] = "authorize" => req[p] \in Request

TypeInv == TypeOK /\ LocalOK

USE TextAssumption, NoneAssumption, InstanceAssumption

\* The actions and repeat guards that `new` computes are well formed.
LEMMA OfferedTypes ==
    ASSUME TypeOK
    PROVE  /\ OfferedActions \subseteq Action \cup {None}
           /\ \A a \in OfferedActions : OfferedRepeats(a) \subseteq RepeatGuard \cup {None}
<1>1. \A op \in {"device_reboot", "runtime_handoff"} : PlainAction(op, None) \in Action
  BY DEF PlainAction, Action, Operation, FixedTarget
<1>2. \A f \in File : PlainAction("ram_boot", f) \in Action
  BY DEF PlainAction, Action, Operation, FixedTarget, TypeOK
<1>3. \A path \in ProfilePath : WriteAction(path) \in Action
  <2> SUFFICES ASSUME NEW path \in ProfilePath PROVE WriteAction(path) \in Action
    OBVIOUS
  <2>1. profiles[path] \in [target : Partition, artifact : File, sha : Content,
                           rollback : File, rollbackSha : Content]
    BY DEF TypeOK
  <2> QED BY <2>1 DEF WriteAction, Action, Operation, TypeOK
<1>4. OfferedActions \subseteq Action \cup {None}
  BY <1>1, <1>2, <1>3 DEF OfferedActions
<1>5. \A a \in OfferedActions : OfferedRepeats(a) \subseteq RepeatGuard \cup {None}
  BY DEF OfferedRepeats, RepeatGuard, TypeOK
<1> QED BY <1>4, <1>5

\* Ending a process keeps the types: used by every action that ends with it.
LEMMA EndTypes ==
    ASSUME TypeInv, NEW p \in Proc, End(p)
    PROVE  /\ lock' \in Proc \cup {None}
           /\ pc' \in [Proc -> Steps] /\ cmd' \in [Proc -> AllCommands \cup {"none"}]
           /\ rec' \in [Proc -> Record \cup {None}] /\ seen' \in [Proc -> Record \cup {None}]
           /\ pol' \in [Proc -> Policy \cup {None}] /\ req' \in [Proc -> Request \cup {None}]
           /\ LocalOK'
<1>1. /\ lock' \in Proc \cup {None}
      /\ pc' \in [Proc -> Steps] /\ cmd' \in [Proc -> AllCommands \cup {"none"}]
      /\ rec' \in [Proc -> Record \cup {None}] /\ seen' \in [Proc -> Record \cup {None}]
      /\ pol' \in [Proc -> Policy \cup {None}] /\ req' \in [Proc -> Request \cup {None}]
  BY DEF TypeInv, TypeOK, End, Goto, Unlock, Steps
<1>2. LocalOK'
  BY DEF TypeInv, TypeOK, LocalOK, End, Goto
<1> QED BY <1>1, <1>2

\* A refusal keeps the types.
LEMMA RefuseTypes ==
    ASSUME TypeInv, NEW p \in Proc, Refuse(p)
    PROVE  TypeInv'
<1>1. UNCHANGED <<store, tree, issued, confirmed>> /\ End(p)
  BY DEF Refuse
<1> QED BY <1>1, EndTypes DEF TypeInv, TypeOK, store, tree

\* Switching a policy, and giving one of its profiles an entry, is a policy.
LEMMA PolicyEdits ==
    ASSUME NEW pl \in Policy
    PROVE  /\ \A b \in BOOLEAN : [pl EXCEPT !.enabled = b] \in Policy
           /\ \A path \in ProfilePath, x \in Entry \cup {None} :
                 [pl EXCEPT !.auth[path] = x] \in Policy
<1>1. \A b \in BOOLEAN : [pl EXCEPT !.enabled = b] \in Policy
  BY Zenon DEF Policy
<1>2. ASSUME NEW path \in ProfilePath, NEW x \in Entry \cup {None}
      PROVE  [pl EXCEPT !.auth[path] = x] \in Policy
  <2>1. [pl.auth EXCEPT ![path] = x] \in [ProfilePath -> Entry \cup {None}]
    BY DEF Policy
  <2>2. \A f \in [ProfilePath -> Entry \cup {None}] : [pl EXCEPT !.auth = f] \in Policy
    BY Zenon DEF Policy
  <2>3. [pl EXCEPT !.auth[path] = x] = [pl EXCEPT !.auth = [pl.auth EXCEPT ![path] = x]]
    OBVIOUS
  <2> QED BY <2>1, <2>2, <2>3
<1> QED BY <1>1, <1>2

\* A line that was cut, and one that was glued to what was cut, are lines.
LEMMA FragmentTypes ==
    ASSUME NEW line \in LedgerLine, NEW n \in 0..4
    PROVE  Fragment(line, n) \in LedgerLine
BY DEF Fragment, LedgerLine

LEMMA AppendedTypes ==
    ASSUME tail \in LedgerLine \cup {None}, NEW line \in LedgerLine
    PROVE  Appended(line) \subseteq LedgerLine
<1>1. CASE tail = None
  BY <1>1 DEF Appended
<1>2. ASSUME tail \in LedgerLine PROVE Glued(tail, line) \subseteq LedgerLine
  BY <1>2 DEF Glued, LedgerLine
<1> QED BY <1>1, <1>2 DEF Appended

\* Every step keeps the types and what each process knows.
LEMMA TypeStep == TypeInv /\ [Next]_vars => TypeInv'
<1> SUFFICES ASSUME TypeInv, [Next]_vars PROVE TypeInv'
  OBVIOUS
<1> USE DEF TypeInv, Goto, Enter
<1>1. ASSUME NEW p \in Proc, NEW c \in Commands, Start(p, c) PROVE TypeInv'
  BY <1>1 DEF Start, TypeOK, LocalOK, store, tree, local, Steps
<1>2. ASSUME NEW p \in Proc, Acquire(p) PROVE TypeInv'
  BY <1>2 DEF Acquire, TypeOK, LocalOK, store, tree, local, Steps
<1>3. ASSUME NEW p \in Proc, NewPrepare(p) PROVE TypeInv'
  <2>1. CASE Refuse(p)
    BY <2>1, RefuseTypes
  <2>2. CASE ~Refuse(p)
    <3>1. PICK e \in Exp, a \in OfferedActions : \E r \in OfferedRepeats(a) :
            rec' = [rec EXCEPT ![p] = [id |-> e, action |-> a, repeat |-> r,
                                       status |-> "ready", obs |-> 0]]
      BY <1>3, <2>2 DEF NewPrepare
    <3>2. PICK r \in OfferedRepeats(a) :
            rec' = [rec EXCEPT ![p] = [id |-> e, action |-> a, repeat |-> r,
                                       status |-> "ready", obs |-> 0]]
      BY <3>1
    <3>3. [id |-> e, action |-> a, repeat |-> r, status |-> "ready", obs |-> 0] \in Record
      BY OfferedTypes DEF Record
    <3>4. UNCHANGED <<store, tree, lock, cmd, seen, pol, req, issued, confirmed>>
          /\ pc' = [pc EXCEPT ![p] = "create"]
      BY <1>3, <2>2 DEF NewPrepare
    <3> QED BY <3>2, <3>3, <3>4 DEF TypeOK, LocalOK, store, tree, Steps
  <2> QED BY <2>1, <2>2
<1>4. ASSUME NEW p \in Proc, NewCreate(p) PROVE TypeInv'
  <2>1. CASE Refuse(p)
    BY <2>1, RefuseTypes
  <2>2. CASE ~Refuse(p)
    <3>1. active' = rec[p] /\ End(p) /\ rec[p] \in Record
          /\ UNCHANGED <<guards, ledger, tail, archived, tree, issued, confirmed>>
      BY <1>4, <2>2 DEF NewCreate, LocalOK
    <3> QED BY <3>1, EndTypes DEF TypeOK, tree
  <2> QED BY <2>1, <2>2
<1>5. ASSUME NEW p \in Proc, ClaimLoad(p) PROVE TypeInv'
  <2>1. CASE Refuse(p)
    BY <2>1, RefuseTypes
  <2>2. CASE ~Refuse(p)
    <3>1. active \in Record /\ active.action # None /\ active.status = "ready"
          /\ rec' = [rec EXCEPT ![p] = active]
      BY <1>5, <2>2 DEF ClaimLoad, Claimable, TypeOK
    <3>2. pol' = [pol EXCEPT ![p] = policy] /\ pc' = [pc EXCEPT ![p] = "check"]
          /\ UNCHANGED <<store, tree, lock, cmd, seen, req, issued, confirmed>>
      BY <1>5, <2>2 DEF ClaimLoad
    <3>3. TypeOK'
      BY <3>1, <3>2 DEF TypeOK, store, tree, Steps
    <3>4. LocalOK'
      BY <1>5, <2>2, <3>1 DEF ClaimLoad, TypeOK, LocalOK, store, tree
    <3> QED BY <3>3, <3>4
  <2> QED BY <2>1, <2>2
<1>6. ASSUME NEW p \in Proc, ClaimCheck(p) PROVE TypeInv'
  <2>1. CASE Refuse(p)
    BY <2>1, RefuseTypes
  <2>2. CASE ~Refuse(p)
    BY <1>6, <2>2 DEF ClaimCheck, TypeOK, LocalOK, store, tree, local, Steps
  <2> QED BY <2>1, <2>2
<1>7. ASSUME NEW p \in Proc, HashActive(p) PROVE TypeInv'
  <2>1. CASE Refuse(p)
    BY <2>1, RefuseTypes
  <2>2. CASE ~Refuse(p)
    <3>1. active \in Record /\ seen' = [seen EXCEPT ![p] = active] /\ pc[p] = "hash"
          /\ UNCHANGED <<store, tree, lock, cmd, rec, pol, req, issued, confirmed>>
      BY <1>7, <2>2 DEF HashActive, TypeOK
    <3>2. \/ cmd[p] = "claim" /\ pc' = [pc EXCEPT ![p] = "guard"]
          \/ cmd[p] # "claim" /\ pc' = [pc EXCEPT ![p] = "commit"]
      BY <1>7, <2>2 DEF HashActive
    <3>3. TypeOK'
      BY <3>1, <3>2 DEF TypeOK, store, tree, Steps
    <3>4. LocalOK'
      BY <3>1, <3>2 DEF TypeOK, LocalOK
    <3> QED BY <3>3, <3>4
  <2> QED BY <2>1, <2>2
<1>8. ASSUME NEW p \in Proc, WriteGuard(p) PROVE TypeInv'
  <2>1. CASE Refuse(p)
    BY <2>1, RefuseTypes
  <2>2. CASE ~Refuse(p)
    <3>1. rec[p].id \in Exp
      BY <1>8 DEF WriteGuard, LocalOK, Record
    <3> QED BY <1>8, <2>2, <3>1 DEF WriteGuard, TypeOK, LocalOK, tree, local, Steps
  <2> QED BY <2>1, <2>2
<1>9. ASSUME NEW p \in Proc, pc[p] = "append" PROVE LineOf(rec[p]) \in LedgerLine
  <2>1. rec[p] \in Record /\ rec[p].action \in Action
    BY <1>9 DEF LocalOK, Record
  <2> QED BY <2>1 DEF LineOf, LedgerLine, Record, Action
<1>10. ASSUME NEW p \in Proc, AppendLedger(p) PROVE TypeInv'
  <2>1. PICK line \in Appended(LineOf(rec[p])) : ledger' = ledger \cup {line}
    BY <1>10 DEF AppendLedger
  <2>2. line \in LedgerLine
    BY <1>9, <1>10, AppendedTypes DEF AppendLedger, TypeOK
  <2> QED BY <1>10, <2>1, <2>2 DEF AppendLedger, TypeOK, LocalOK, tree, local, Steps
<1>11. ASSUME NEW p \in Proc, TearLedger(p) PROVE TypeInv'
  <2>1. PICK n \in 0..4 : tail' \in Appended(Fragment(LineOf(rec[p]), n))
    BY <1>11 DEF TearLedger
  <2>2. Fragment(LineOf(rec[p]), n) \in LedgerLine
    BY <1>9, <1>11, FragmentTypes DEF TearLedger
  <2>3. tail' \in LedgerLine
    BY <2>1, <2>2, AppendedTypes DEF TypeOK
  <2>4. End(p) /\ UNCHANGED <<active, guards, ledger, archived, tree, issued, confirmed>>
    BY <1>11 DEF TearLedger
  <2> QED BY <2>3, <2>4, EndTypes DEF TypeOK, tree
<1>32. ASSUME NEW p \in Proc, CompareActive(p) PROVE TypeInv'
  <2>1. CASE Refuse(p)
    BY <2>1, RefuseTypes
  <2>2. CASE ~Refuse(p)
    <3>1. /\ UNCHANGED <<store, tree, lock, cmd, local, issued, confirmed>>
          /\ pc[p] = "commit" /\ pc' = [pc EXCEPT ![p] = "rename"]
      BY <1>32, <2>2 DEF CompareActive
    <3>2. TypeOK'
      BY <3>1 DEF TypeOK, store, tree, local, Steps
    <3>3. LocalOK'
      BY <3>1 DEF TypeOK, LocalOK, local
    <3> QED BY <3>2, <3>3
  <2> QED BY <2>1, <2>2
<1>12. ASSUME NEW p \in Proc, ClaimCommit(p) PROVE TypeInv'
  <2>1. [rec[p] EXCEPT !.status = "claimed"] \in Record
    BY <1>12 DEF ClaimCommit, LocalOK, Record
  <2>2. TypeOK'
    BY <1>12, <2>1 DEF ClaimCommit, Unlock, TypeOK, tree, local, Steps
  <2>3. LocalOK'
    <3>1. /\ pc[p] = "rename" /\ cmd[p] = "claim" /\ pc' = [pc EXCEPT ![p] = "print"]
          /\ cmd' = cmd /\ rec' = rec /\ req' = req
      BY <1>12 DEF ClaimCommit, local
    <3> QED BY <3>1 DEF TypeOK, LocalOK
  <2> QED BY <2>2, <2>3
<1>13. ASSUME NEW p \in Proc, ClaimPrint(p) PROVE TypeInv'
  <2>1. [id |-> rec[p].id, action |-> rec[p].action, repeat |-> rec[p].repeat] \in Issue
    BY <1>13 DEF ClaimPrint, LocalOK, Record, Issue
  <2>2. issued' \in Seq(Issue)
    BY <1>13, <2>1 DEF ClaimPrint, TypeOK
  <2>3. End(p) /\ UNCHANGED <<store, tree, confirmed>>
    BY <1>13 DEF ClaimPrint
  <2> QED BY <2>2, <2>3, EndTypes DEF TypeOK, store, tree
<1>14. ASSUME NEW p \in Proc, ResultLoad(p) PROVE TypeInv'
  <2>1. CASE Refuse(p)
    BY <2>1, RefuseTypes
  <2>2. CASE ~Refuse(p)
    <3>1. active \in Record /\ (active.action = None \/ active.status = "claimed")
          /\ rec' = [rec EXCEPT ![p] = active]
      BY <1>14, <2>2 DEF ResultLoad, TakesResult, TypeOK
    <3>2. /\ UNCHANGED <<store, tree, lock, cmd, seen, pol, req, issued, confirmed>>
          /\ pc' = [pc EXCEPT ![p] = "hash"] /\ cmd[p] = "result"
      BY <1>14, <2>2 DEF ResultLoad
    <3>3. TypeOK'
      BY <3>1, <3>2 DEF TypeOK, store, tree, Steps
    <3>4. LocalOK'
      BY <3>1, <3>2 DEF TypeOK, LocalOK
    <3> QED BY <3>3, <3>4
  <2> QED BY <2>1, <2>2
<1>15. ASSUME NEW p \in Proc, ObserveLoad(p) PROVE TypeInv'
  <2>1. CASE Refuse(p)
    BY <2>1, RefuseTypes
  <2>2. CASE ~Refuse(p)
    <3>1. active \in Record /\ active.obs < MaxObs
          /\ rec' = [rec EXCEPT ![p] = active]
      BY <1>15, <2>2 DEF ObserveLoad, Observable, TypeOK
    <3>2. TypeOK'
      BY <1>15, <2>2, <3>1 DEF ObserveLoad, Observable, TypeOK, store, tree, Steps
    <3>3. LocalOK'
      BY <1>15, <2>2, <3>1 DEF ObserveLoad, Observable, TypeOK, LocalOK, store, tree
    <3> QED BY <3>2, <3>3
  <2> QED BY <2>1, <2>2
<1>16. ASSUME NEW p \in Proc, NEW r \in Record, Rewrite(p, r) PROVE TypeInv'
  <2>1. active' \in Record /\ End(p)
        /\ UNCHANGED <<guards, ledger, tail, archived, tree, issued, confirmed>>
    BY <1>16 DEF Rewrite
  <2> QED BY <2>1, EndTypes DEF TypeOK, tree
<1>17. ASSUME NEW p \in Proc, ResultCommit(p) PROVE TypeInv'
  <2>1. [rec[p] EXCEPT !.status = "completed"] \in Record
    BY <1>17 DEF ResultCommit, LocalOK, Record
  <2> QED BY <1>16, <1>17, <2>1 DEF ResultCommit
<1>18. ASSUME NEW p \in Proc, ObserveCommit(p) PROVE TypeInv'
  <2>1. [rec[p] EXCEPT !.obs = @ + 1] \in Record
    BY <1>18 DEF ObserveCommit, LocalOK, Record
  <2> QED BY <1>16, <1>18, <2>1 DEF ObserveCommit
<1>19. ASSUME NEW p \in Proc, ArchiveWrite(p) PROVE TypeInv'
  <2>1. CASE Refuse(p)
    BY <2>1, RefuseTypes
  <2>2. CASE ~Refuse(p)
    <3>1. active \in Record /\ active.id \in Exp
      BY <1>19, <2>2 DEF ArchiveWrite, Archivable, TypeOK, Record
    <3>2. archived' = [archived EXCEPT ![active.id] = active]
          /\ pc' = [pc EXCEPT ![p] = "unlink"]
          /\ UNCHANGED <<active, guards, ledger, tail, tree, lock, cmd, local,
                         issued, confirmed>>
      BY <1>19, <2>2 DEF ArchiveWrite
    <3>3. TypeOK'
      BY <3>1, <3>2 DEF TypeOK, tree, local, Steps
    <3>4. LocalOK'
      BY <3>2 DEF TypeOK, LocalOK, local
    <3> QED BY <3>3, <3>4
  <2> QED BY <2>1, <2>2
<1>20. ASSUME NEW p \in Proc, ArchiveUnlink(p) PROVE TypeInv'
  BY <1>20, EndTypes DEF ArchiveUnlink, TypeOK, tree
<1>21. ASSUME NEW p \in Proc, AuthPreview(p) PROVE TypeInv'
  <2>1. CASE Refuse(p)
    BY <2>1, RefuseTypes
  <2>2. CASE ~Refuse(p)
    <3>1. PICK path \in ProfilePath, target \in Partition :
            req' = [req EXCEPT ![p] = [path |-> path, target |-> target,
                      text |-> profiles[path], policy |-> policy, commit |-> head.commit]]
      BY <1>21, <2>2 DEF AuthPreview
    <3>2. [path |-> path, target |-> target, text |-> profiles[path],
           policy |-> policy, commit |-> head.commit] \in Request
      BY DEF Request, TypeOK
    <3>3. pc' = [pc EXCEPT ![p] = "confirm"] /\ pc[p] = "preview"
          /\ UNCHANGED <<store, tree, lock, cmd, rec, seen, pol, issued, confirmed>>
      BY <1>21, <2>2 DEF AuthPreview
    <3> QED BY <3>1, <3>2, <3>3 DEF TypeOK, LocalOK, store, tree, Steps
  <2> QED BY <2>1, <2>2
<1>22. ASSUME NEW p \in Proc, AuthConfirm(p) PROVE TypeInv'
  <2>1. CASE Refuse(p)
    BY <2>1, RefuseTypes
  <2>2. CASE ~Refuse(p)
    <3>1. [path |-> req[p].path, target |-> req[p].target, text |-> req[p].text] \in Grant
      BY <1>22 DEF AuthConfirm, LocalOK, Request, Grant
    <3> QED BY <1>22, <2>2, <3>1 DEF AuthConfirm, TypeOK, LocalOK, store, tree, local, Steps
  <2> QED BY <2>1, <2>2
<1>23. ASSUME NEW p \in Proc, AuthCheck(p) PROVE TypeInv'
  <2>1. CASE Refuse(p)
    BY <2>1, RefuseTypes
  <2>2. CASE ~Refuse(p)
    <3>1. /\ UNCHANGED <<store, tree, lock, cmd, local, issued, confirmed>>
          /\ pc[p] = "locked" /\ pc' = [pc EXCEPT ![p] = "record"] /\ cmd[p] = "authorize"
      BY <1>23, <2>2 DEF AuthCheck
    <3>2. TypeOK'
      BY <3>1 DEF TypeOK, store, tree, local, Steps
    <3>3. LocalOK'
      BY <3>1 DEF TypeOK, LocalOK, local
    <3> QED BY <3>2, <3>3
  <2> QED BY <2>1, <2>2
<1>33. ASSUME NEW p \in Proc, AuthCompare(p) PROVE TypeInv'
  <2>1. CASE Refuse(p)
    BY <2>1, RefuseTypes
  <2>2. CASE ~Refuse(p)
    <3>1. /\ UNCHANGED <<store, policy, profiles, files, head, lock, cmd, local,
                          issued, confirmed>>
          /\ pc[p] = "record" /\ pc' = [pc EXCEPT ![p] = "replace"] /\ late' = late \ {p}
      BY <1>33, <2>2 DEF AuthCompare
    <3>2. TypeOK'
      BY <3>1 DEF TypeOK, store, local, Steps
    <3>3. LocalOK'
      BY <3>1 DEF TypeOK, LocalOK, local
    <3> QED BY <3>2, <3>3
  <2> QED BY <2>1, <2>2
<1>24. ASSUME NEW p \in Proc, AuthRecord(p) PROVE TypeInv'
  <2>1. req[p] \in Request
    BY <1>24 DEF AuthRecord, LocalOK
  <2>2. policy' \in Policy
    <3>1. req[p].policy \in Policy /\ req[p].path \in ProfilePath
          /\ [text |-> req[p].text, targets |-> {req[p].target}] \in Entry
      BY <2>1 DEF Request, Entry
    <3> QED BY <1>24, <3>1, PolicyEdits DEF AuthRecord
  <2>3. End(p) /\ UNCHANGED <<store, profiles, files, head, late, issued, confirmed>>
    BY <1>24 DEF AuthRecord
  <2> QED BY <2>2, <2>3, EndTypes DEF TypeOK, store
<1>25. ASSUME NEW p \in Proc, Crash(p) PROVE TypeInv'
  BY <1>25, RefuseTypes DEF Crash
<1>26. CASE RewindActive
  BY <1>26 DEF RewindActive, TypeOK, LocalOK, Record, tree, local
<1>34. CASE AuditActive
  BY <1>34 DEF AuditActive, TypeOK, LocalOK, tree, local
<1>27. CASE EditFile
  BY <1>27 DEF EditFile, Undisturbed, TypeOK, LocalOK, store, local
<1>28. CASE EditProfile
  BY <1>28 DEF EditProfile, Undisturbed, TypeOK, LocalOK, store, local
<1>29. CASE EditPolicy
  <2>1. policy' \in Policy
    BY <1>29, PolicyEdits DEF EditPolicy, TypeOK
  <2> QED BY <1>29, <2>1 DEF EditPolicy, Undisturbed, TypeOK, LocalOK, store, local
<1>30. CASE CommitTree
  BY <1>30 DEF CommitTree, Undisturbed, TypeOK, LocalOK, store, local
<1>31. CASE UNCHANGED vars
  BY <1>31 DEF vars, store, tree, local, TypeOK, LocalOK
<1> QED
  BY <1>1, <1>2, <1>3, <1>4, <1>5, <1>6, <1>7, <1>8, <1>10, <1>11, <1>12, <1>13,
     <1>14, <1>15, <1>17, <1>18, <1>19, <1>20, <1>21, <1>22, <1>23, <1>24, <1>25,
     <1>26, <1>27, <1>28, <1>29, <1>30, <1>31, <1>32, <1>33, <1>34 DEF Next, Step, Environment

\* The engine starts well typed.
LEMMA TypeInit == Init => TypeInv
  BY DEF Init, TypeInv, TypeOK, LocalOK, Steps

\* Every reachable state is well typed: the engine never works on a record,
\* line or request that its validator would not have produced.
THEOREM TypeCorrect == Spec => []TypeOK
<1>1. TypeInv => TypeOK
  BY DEF TypeInv
<1> QED BY <1>1, TypeInit, TypeStep, PTL DEF Spec

-----------------------------------------------------------------------------
(* The replay guard.                                                        *)

\* A step that starts no claim transaction, creates no guard and prints nothing.
Quiet == /\ \A q \in Proc, e \in Exp : Owns(q, e)' => Owns(q, e) /\ rec'[q] = rec[q]
         /\ guards' = guards /\ issued' = issued

\* The step of process p that creates the guard of the experiment it loaded.
Guarding(p) ==
    /\ rec[p].id \in Exp \ guards /\ guards' = guards \cup {rec[p].id} /\ issued' = issued
    /\ \A q \in Proc, e \in Exp : Owns(q, e)' =>
          \/ Owns(q, e) /\ rec'[q] = rec[q]
          \/ q = p /\ e = rec[p].id

\* The step of process p that prints the command of the experiment it owns.
Printing(p) ==
    /\ rec[p].id \in Exp /\ Owns(p, rec[p].id)
    /\ issued' = Append(issued, [id |-> rec[p].id, action |-> rec[p].action,
                                 repeat |-> rec[p].repeat])
    /\ guards' = guards
    /\ \A q \in Proc, e \in Exp : Owns(q, e)' => q # p /\ Owns(q, e) /\ rec'[q] = rec[q]

\* A process that ends owns nothing any more.
LEMMA EndIsQuiet ==
    ASSUME TypeInv, NEW p \in Proc, End(p)
    PROVE  \A q \in Proc, e \in Exp :
              Owns(q, e)' => q # p /\ Owns(q, e) /\ rec'[q] = rec[q]
BY DEF TypeInv, TypeOK, End, Goto, Owns

\* A refusal prints nothing and guards nothing.
LEMMA RefuseIsQuiet ==
    ASSUME TypeInv, NEW p \in Proc, Refuse(p)
    PROVE  Quiet
BY EndIsQuiet DEF Refuse, Quiet, store

\* Of all steps only the creation of a guard makes a process the owner of an
\* experiment, and only its owner prints.
LEMMA StepKinds ==
    ASSUME TypeInv, [Next]_vars
    PROVE  Quiet \/ \E p \in Proc : Guarding(p) \/ Printing(p)
<1> USE DEF TypeInv, Goto, Enter
<1>1. ASSUME NEW p \in Proc, NEW c \in Commands, Start(p, c) PROVE Quiet
  BY <1>1 DEF Start, Quiet, Owns, TypeOK, store, local
<1>2. ASSUME NEW p \in Proc, Acquire(p) PROVE Quiet
  BY <1>2 DEF Acquire, Quiet, Owns, TypeOK, store, local
<1>3. ASSUME NEW p \in Proc, WriteGuard(p) PROVE Quiet \/ Guarding(p)
  <2>1. CASE Refuse(p)
    BY <2>1, RefuseIsQuiet
  <2>2. CASE ~Refuse(p)
    <3>1. rec[p].id \in Exp
      BY <1>3 DEF WriteGuard, LocalOK, Record
    <3> QED BY <1>3, <2>2, <3>1 DEF WriteGuard, ClaimGuardExists, Guarding, Owns, TypeOK, local
  <2> QED BY <2>1, <2>2
<1>4. ASSUME NEW p \in Proc, ClaimPrint(p) PROVE Printing(p)
  <2>1. rec[p].id \in Exp /\ Owns(p, rec[p].id)
    BY <1>4 DEF ClaimPrint, LocalOK, Record, Owns
  <2>2. \A q \in Proc, e \in Exp :
            Owns(q, e)' => q # p /\ Owns(q, e) /\ rec'[q] = rec[q]
    BY <1>4, EndIsQuiet DEF ClaimPrint
  <2> QED BY <1>4, <2>1, <2>2 DEF ClaimPrint, Printing, store
<1>5. ASSUME NEW p \in Proc, NEW r, Rewrite(p, r) PROVE Quiet
  BY <1>5, EndIsQuiet DEF Rewrite, Quiet
<1>6. ASSUME NEW p \in Proc,
             NewPrepare(p) \/ NewCreate(p) \/ ClaimLoad(p) \/ ClaimCheck(p) \/ HashActive(p)
      PROVE Quiet
  <2>1. CASE Refuse(p)
    BY <2>1, RefuseIsQuiet
  <2>2. CASE ~Refuse(p) /\ NewPrepare(p)
    BY <2>2 DEF NewPrepare, Quiet, Owns, TypeOK, store
  <2>3. CASE ~Refuse(p) /\ NewCreate(p)
    BY <2>3, EndIsQuiet DEF NewCreate, Quiet
  <2>4. CASE ~Refuse(p) /\ ClaimLoad(p)
    BY <2>4 DEF ClaimLoad, Quiet, Owns, TypeOK, store
  <2>5. CASE ~Refuse(p) /\ ClaimCheck(p)
    BY <2>5 DEF ClaimCheck, Quiet, Owns, TypeOK, store, local
  <2>6. CASE ~Refuse(p) /\ HashActive(p)
    <3>1. \/ cmd[p] # "claim"
          \/ pc' = [pc EXCEPT ![p] = "guard"]
      BY <2>6 DEF HashActive
    <3> QED BY <2>6, <3>1 DEF HashActive, Quiet, Owns, TypeOK, store
  <2> QED BY <1>6, <2>1, <2>2, <2>3, <2>4, <2>5, <2>6
<1>7. ASSUME NEW p \in Proc,
             AppendLedger(p) \/ TearLedger(p) \/ CompareActive(p) \/ ClaimCommit(p)
      PROVE Quiet
  <2>1. CASE Refuse(p)
    BY <2>1, RefuseIsQuiet
  <2>2. CASE ~Refuse(p) /\ AppendLedger(p)
    BY <2>2 DEF AppendLedger, Quiet, Owns, TypeOK, local
  <2>3. CASE ~Refuse(p) /\ TearLedger(p)
    BY <2>3, EndIsQuiet DEF TearLedger, Quiet
  <2>4. CASE ~Refuse(p) /\ ClaimCommit(p)
    BY <2>4 DEF ClaimCommit, Quiet, Owns, TypeOK, local
  <2>5. CASE ~Refuse(p) /\ CompareActive(p)
    BY <2>5 DEF CompareActive, Quiet, Owns, TypeOK, store, local
  <2> QED BY <1>7, <2>1, <2>2, <2>3, <2>4, <2>5
<1>8. ASSUME NEW p \in Proc, ResultLoad(p) \/ ObserveLoad(p) \/ ResultCommit(p) \/ ObserveCommit(p)
      PROVE Quiet
  <2>1. CASE Refuse(p)
    BY <2>1, RefuseIsQuiet
  <2>2. CASE ~Refuse(p) /\ ResultLoad(p)
    BY <2>2 DEF ResultLoad, Quiet, Owns, TypeOK, store
  <2>3. CASE ~Refuse(p) /\ ObserveLoad(p)
    BY <2>3 DEF ObserveLoad, Quiet, Owns, TypeOK, store
  <2> QED BY <1>5, <1>8, <2>1, <2>2, <2>3 DEF ResultCommit, ObserveCommit
<1>9. ASSUME NEW p \in Proc, ArchiveWrite(p) \/ ArchiveUnlink(p) PROVE Quiet
  <2>1. CASE Refuse(p)
    BY <2>1, RefuseIsQuiet
  <2>2. CASE ~Refuse(p) /\ ArchiveWrite(p)
    BY <2>2 DEF ArchiveWrite, Quiet, Owns, TypeOK, local
  <2>3. CASE ArchiveUnlink(p)
    BY <2>3, EndIsQuiet DEF ArchiveUnlink, Quiet
  <2> QED BY <1>9, <2>1, <2>2, <2>3
<1>10. ASSUME NEW p \in Proc,
              \/ AuthPreview(p) \/ AuthConfirm(p) \/ AuthCheck(p) \/ AuthCompare(p)
              \/ AuthRecord(p)
       PROVE Quiet
  <2>1. CASE Refuse(p)
    BY <2>1, RefuseIsQuiet
  <2>2. CASE ~Refuse(p) /\ AuthPreview(p)
    BY <2>2 DEF AuthPreview, Quiet, Owns, TypeOK, store
  <2>3. CASE ~Refuse(p) /\ AuthConfirm(p)
    BY <2>3 DEF AuthConfirm, Quiet, Owns, TypeOK, store, local
  <2>4. CASE ~Refuse(p) /\ AuthCheck(p)
    BY <2>4 DEF AuthCheck, Quiet, Owns, TypeOK, store, local
  <2>5. CASE ~Refuse(p) /\ AuthRecord(p)
    BY <2>5, EndIsQuiet DEF AuthRecord, Quiet, store
  <2>6. CASE ~Refuse(p) /\ AuthCompare(p)
    BY <2>6 DEF AuthCompare, Quiet, Owns, TypeOK, store, local
  <2> QED BY <1>10, <2>1, <2>2, <2>3, <2>4, <2>5, <2>6
<1>11. ASSUME NEW p \in Proc, Crash(p) PROVE Quiet
  BY <1>11, RefuseIsQuiet DEF Crash
<1>12. CASE Environment \/ UNCHANGED vars
  BY <1>12 DEF Environment, RewindActive, AuditActive, EditFile, EditProfile,
               EditPolicy, CommitTree, Undisturbed, vars, Quiet, Owns, store, local
<1> QED
  BY <1>1, <1>2, <1>3, <1>4, <1>6, <1>7, <1>8, <1>9, <1>10, <1>11, <1>12 DEF Next, Step

\* The strengthening that makes AtMostOneIssue inductive: a claim in progress is
\* the only one for its experiment and nothing was printed for it yet.
OwnOK ==
    /\ \A p \in Proc, e \in Exp : Owns(p, e) =>
          e \in guards /\ \A i \in DOMAIN issued : issued[i].id # e
    /\ \A p, q \in Proc, e \in Exp : Owns(p, e) /\ Owns(q, e) => p = q
    /\ \A i \in DOMAIN issued : issued[i].id \in guards
    /\ AtMostOneIssue

\* Every step keeps it: one case per kind of step.
LEMMA OwnStep == TypeInv /\ OwnOK /\ [Next]_vars => OwnOK'
<1> SUFFICES ASSUME TypeInv, OwnOK, [Next]_vars PROVE OwnOK'
  OBVIOUS
<1>1. CASE Quiet
  BY <1>1 DEF Quiet, OwnOK, AtMostOneIssue
<1>2. ASSUME NEW p \in Proc, Guarding(p) PROVE OwnOK'
  BY <1>2 DEF Guarding, OwnOK, AtMostOneIssue
<1>3. ASSUME NEW p \in Proc, Printing(p) PROVE OwnOK'
  <2>1. issued \in Seq(Issue) /\ rec[p].id \in guards
        /\ \A i \in DOMAIN issued : issued[i].id # rec[p].id
    BY <1>3 DEF Printing, OwnOK, TypeInv, TypeOK
  <2>2. /\ Len(issued') = Len(issued) + 1 /\ DOMAIN issued' = 1..(Len(issued) + 1)
        /\ issued'[Len(issued) + 1].id = rec[p].id
        /\ \A i \in DOMAIN issued : issued'[i] = issued[i]
        /\ DOMAIN issued = 1..Len(issued) /\ Len(issued) \in Nat
    BY <1>3, <2>1 DEF Printing
  <2>3. \A i \in DOMAIN issued' : i \in DOMAIN issued \/ i = Len(issued) + 1
    BY <2>2
  <2>4. AtMostOneIssue'
    BY <2>1, <2>2, <2>3 DEF OwnOK, AtMostOneIssue
  <2>5. \A i \in DOMAIN issued' : issued'[i].id \in guards'
    BY <1>3, <2>1, <2>2, <2>3 DEF Printing, OwnOK
  <2>6. \A q \in Proc, e \in Exp : Owns(q, e)' => e # rec[p].id /\ Owns(q, e)
    BY <1>3 DEF Printing, OwnOK
  <2>7. \A q \in Proc, e \in Exp : Owns(q, e)' =>
           e \in guards' /\ \A i \in DOMAIN issued' : issued'[i].id # e
    BY <1>3, <2>2, <2>3, <2>6 DEF Printing, OwnOK
  <2> QED BY <2>4, <2>5, <2>6, <2>7 DEF OwnOK
<1> QED BY <1>1, <1>2, <1>3, StepKinds

\* For every number of processes and experiments, however their steps, crashes
\* and restored records interleave, a command is printed at most once.  The
\* guard alone carries the proof: nothing is assumed of the lock.
THEOREM NeverReissued == Spec => []AtMostOneIssue
<1>1. Init => TypeInv /\ OwnOK
  BY TypeInit DEF Init, OwnOK, Owns, AtMostOneIssue
<1>2. TypeInv /\ OwnOK /\ [Next]_vars => (TypeInv /\ OwnOK)'
  BY TypeStep, OwnStep
<1>3. TypeInv /\ OwnOK => AtMostOneIssue
  BY DEF OwnOK
<1> QED BY <1>1, <1>2, <1>3, PTL DEF Spec

\* A claim transaction that stopped half-way stays stopped.
THEOREM PartialClaimStops == Spec => PartialClaimIsFinal
<1>1. TypeInv /\ [Next]_vars =>
        [\A e \in Exp : e \in guards /\ (\A p \in Proc : ~Owns(p, e)) =>
           /\ \A p \in Proc : ~Owns(p, e)'
           /\ \A i \in DOMAIN issued' \ DOMAIN issued : issued'[i].id # e]_vars
  <2> SUFFICES ASSUME TypeInv, [Next]_vars,
                      NEW e \in Exp, e \in guards, \A p \in Proc : ~Owns(p, e)
               PROVE  /\ \A p \in Proc : ~Owns(p, e)'
                      /\ \A i \in DOMAIN issued' \ DOMAIN issued : issued'[i].id # e
    OBVIOUS
  <2>1. CASE Quiet
    BY <2>1 DEF Quiet
  <2>2. ASSUME NEW p \in Proc, Guarding(p)
        PROVE  /\ \A q \in Proc : ~Owns(q, e)'
               /\ \A i \in DOMAIN issued' \ DOMAIN issued : issued'[i].id # e
    BY <2>2 DEF Guarding
  <2>3. ASSUME NEW p \in Proc, Printing(p)
        PROVE  /\ \A q \in Proc : ~Owns(q, e)'
               /\ \A i \in DOMAIN issued' \ DOMAIN issued : issued'[i].id # e
    <3>1. rec[p].id # e /\ issued \in Seq(Issue)
      BY <2>3 DEF Printing, TypeInv, TypeOK
    <3>2. \A i \in DOMAIN issued' \ DOMAIN issued : issued'[i].id = rec[p].id
      BY <2>3, <3>1 DEF Printing
    <3> QED BY <2>3, <3>1, <3>2 DEF Printing
  <2> QED BY <2>1, <2>2, <2>3, StepKinds
<1> QED BY <1>1, TypeInit, TypeStep, PTL DEF Spec, PartialClaimIsFinal

-----------------------------------------------------------------------------
(* The ledger.                                                              *)

Kept == /\ guards \subseteq guards' /\ ledger \subseteq ledger'
        /\ \A e \in Exp : archived[e] # None => archived'[e] = archived[e]

\* Every step keeps guards, ledger lines and archived records.
LEMMA KeptStep == TypeInv /\ [Next]_vars => Kept
<1> SUFFICES ASSUME TypeInv, [Next]_vars PROVE Kept
  OBVIOUS
<1> USE DEF Kept
<1>1. ASSUME NEW p \in Proc, ArchiveWrite(p) PROVE Kept
  BY <1>1 DEF ArchiveWrite, Archivable, Refuse, store, TypeInv, TypeOK
<1>2. ASSUME NEW p \in Proc, WriteGuard(p) \/ AppendLedger(p) PROVE Kept
  BY <1>2 DEF WriteGuard, AppendLedger, Refuse, store
<1>3. ASSUME NEW p \in Proc, Step(p), ~ArchiveWrite(p), ~WriteGuard(p), ~AppendLedger(p)
      PROVE Kept
  BY <1>3 DEF Step, NewPrepare, NewCreate, ClaimLoad, ClaimCheck, HashActive, CompareActive,
              ClaimCommit, ClaimPrint, ResultLoad, ResultCommit, ObserveLoad, ObserveCommit,
              Rewrite, ArchiveUnlink, AuthPreview, AuthCheck, AuthCompare, AuthRecord,
              Refuse, store
<1>4. ASSUME NEW p \in Proc, \/ \E c \in Commands : Start(p, c)
                             \/ Acquire(p) \/ AuthConfirm(p) \/ TearLedger(p) \/ Crash(p)
      PROVE Kept
  BY <1>4 DEF Start, Acquire, AuthConfirm, TearLedger, Crash, Refuse, store
<1>5. CASE Environment \/ UNCHANGED vars
  BY <1>5 DEF Environment, RewindActive, AuditActive, EditFile, EditProfile, EditPolicy,
              CommitTree, Undisturbed, vars, store
<1> QED BY <1>1, <1>2, <1>3, <1>4, <1>5 DEF Next

\* Evidence is append-only in every behaviour: no step removes a guard or a
\* ledger line, or replaces an archived record.
THEOREM EvidenceKept == Spec => EvidenceAppendOnly
<1>1. TypeInv /\ [Next]_vars => [Kept]_vars
  BY KeptStep
<1> QED BY <1>1, TypeInit, TypeStep, PTL DEF Spec, EvidenceAppendOnly, Kept

\* What is stored, and which claims stopped half-way, stays so.
Grows == /\ guards \subseteq guards' /\ ledger \subseteq ledger'
         /\ \A e : Stopped(e) => Stopped(e)'

\* Every step lets them grow.
LEMMA GrowsStep == TypeInv /\ [Next]_vars => Grows
<1> SUFFICES ASSUME TypeInv, [Next]_vars PROVE Grows
  OBVIOUS
<1>1. Kept
  BY KeptStep
<1>2. ASSUME NEW e, Stopped(e) PROVE Stopped(e)'
  <2>1. e \in Exp /\ e \in guards /\ (\A p \in Proc : ~Owns(p, e))
        /\ issued \in Seq(Issue) /\ \A i \in DOMAIN issued : issued[i].id # e
    BY <1>2 DEF Stopped, TypeInv, TypeOK
  <2>2. CASE Quiet
    BY <2>1, <2>2 DEF Quiet, Stopped
  <2>3. ASSUME NEW p \in Proc, Guarding(p) PROVE Stopped(e)'
    BY <2>1, <2>3 DEF Guarding, Stopped
  <2>4. ASSUME NEW p \in Proc, Printing(p) PROVE Stopped(e)'
    <3>1. rec[p].id # e
      BY <2>1, <2>4 DEF Printing
    <3>2. \A i \in DOMAIN issued' :
             issued'[i].id = rec[p].id \/ (i \in DOMAIN issued /\ issued'[i] = issued[i])
      BY <2>1, <2>4 DEF Printing
    <3>3. \A i \in DOMAIN issued' : issued'[i].id # e
      BY <2>1, <3>1, <3>2
    <3> QED BY <2>1, <2>4, <3>3 DEF Printing, Stopped
  <2> QED BY <2>2, <2>3, <2>4, StepKinds
<1> QED BY <1>1, <1>2 DEF Grows, Kept

\* The line that a tear left is one of a claim that stopped.
TornOK == tail # None /\ tail.id # Absent => Stopped(tail.id)

\* A ledger line under the id of a claim in progress, or of a printed command,
\* is of its action.
Faithful(line) ==
    line.id # Absent =>
        /\ line.id \in guards
        /\ \A q \in Proc : Owns(q, line.id) => SameAction(line, rec[q].action)
        /\ \A i \in DOMAIN issued : issued[i].id = line.id => SameAction(line, issued[i].action)

LinesOK == \A line \in ledger : Faithful(line)

LedgerInv == TypeInv /\ OwnOK /\ TornOK /\ LinesOK

\* What can be read of a new line: its own action, under its own id or that of
\* the line it was glued to, or under none.
LEMMA AppendedReads ==
    ASSUME NEW r, r.id \in Exp, r.action \in Action,
           NEW line \in Appended(LineOf(r))
    PROVE  /\ SameAction(line, r.action)
           /\ line.id \in {r.id, Absent} \/ (tail # None /\ line.id = tail.id)
<1>1. /\ LineOf(r).op \in Operation /\ LineOf(r).sha \in Content \cup {None}
      /\ LineOf(r).target \in Partition \cup {"device", "ram", "initramfs"}
  BY DEF LineOf, Action
<1>2. LineOf(r).op # Absent /\ LineOf(r).target # Absent /\ LineOf(r).sha # Absent
  BY <1>1, AbsentAssumption
<1>3. CASE tail = None
  BY <1>3 DEF Appended, LineOf, SameAction
<1>4. CASE tail # None
  <2>1. line \in Glued(tail, LineOf(r))
    BY <1>4 DEF Appended
  <2>2. /\ line.op = LineOf(r).op /\ line.target = LineOf(r).target /\ line.sha = LineOf(r).sha
        /\ line.id \in {tail.id, LineOf(r).id, Absent}
    BY <1>2, <2>1 DEF Glued
  <2> QED BY <1>4, <2>2 DEF LineOf, SameAction
<1> QED BY <1>3, <1>4

\* What can be read of a torn one goes under the same ids.
LEMMA TornReads ==
    ASSUME NEW r, NEW n \in 0..4, NEW line \in Appended(Fragment(LineOf(r), n))
    PROVE  line.id \in {r.id, Absent} \/ (tail # None /\ line.id = tail.id)
BY DEF Appended, Glued, Fragment, LineOf

\* A line that is faithful stays so: nobody but its owner takes up its id.
LEMMA FaithfulStays ==
    ASSUME TypeInv, [Next]_vars, NEW line, line.id \in Exp \cup {Absent}, Faithful(line)
    PROVE  Faithful(line)'
<1> SUFFICES ASSUME line.id # Absent PROVE Faithful(line)'
  BY DEF Faithful
<1>0. /\ line.id \in guards /\ line.id \in Exp /\ issued \in Seq(Issue)
      /\ \A q \in Proc : Owns(q, line.id) => SameAction(line, rec[q].action)
      /\ \A i \in DOMAIN issued : issued[i].id = line.id => SameAction(line, issued[i].action)
  BY DEF Faithful, TypeInv, TypeOK
<1>1. CASE Quiet
  BY <1>0, <1>1 DEF Quiet, Faithful, SameAction
<1>2. ASSUME NEW p \in Proc, Guarding(p) PROVE Faithful(line)'
  BY <1>0, <1>2 DEF Guarding, Faithful, SameAction
<1>3. ASSUME NEW p \in Proc, Printing(p) PROVE Faithful(line)'
  <2>1. \A i \in DOMAIN issued' :
           \/ i \in DOMAIN issued /\ issued'[i] = issued[i]
           \/ issued'[i].id = rec[p].id /\ issued'[i].action = rec[p].action
    BY <1>0, <1>3 DEF Printing
  <2>2. Owns(p, rec[p].id) /\ guards' = guards
    BY <1>3 DEF Printing
  <2>3. \A i \in DOMAIN issued' : issued'[i].id = line.id => SameAction(line, issued'[i].action)
    BY <1>0, <2>1, <2>2
  <2>4. \A q \in Proc : Owns(q, line.id)' => SameAction(line, rec'[q].action)
    BY <1>0, <1>3 DEF Printing
  <2> QED BY <1>0, <2>2, <2>3, <2>4 DEF Faithful, SameAction
<1> QED BY <1>1, <1>2, <1>3, StepKinds

\* Only a claim that appends its line changes the ledger or its torn end, and
\* only a host failure leaves one.
LEMMA LedgerKinds ==
    ASSUME [Next]_vars
    PROVE  \/ UNCHANGED <<ledger, tail>>
           \/ \E p \in Proc : AppendLedger(p) \/ TearLedger(p)
<1>1. ASSUME NEW p \in Proc, Step(p), ~AppendLedger(p) PROVE UNCHANGED <<ledger, tail>>
  BY <1>1 DEF Step, NewPrepare, NewCreate, ClaimLoad, ClaimCheck, HashActive, WriteGuard,
              CompareActive, ClaimCommit, ClaimPrint, ResultLoad, ResultCommit, ObserveLoad,
              ObserveCommit, Rewrite, ArchiveWrite, ArchiveUnlink, AuthPreview, AuthCheck,
              AuthCompare, AuthRecord, Refuse, store
<1>2. ASSUME NEW p \in Proc, \/ \E c \in Commands : Start(p, c)
                             \/ Acquire(p) \/ AuthConfirm(p) \/ Crash(p)
      PROVE UNCHANGED <<ledger, tail>>
  BY <1>2 DEF Start, Acquire, AuthConfirm, Crash, Refuse, store
<1>3. CASE Environment \/ UNCHANGED vars
  BY <1>3 DEF Environment, RewindActive, AuditActive, EditFile, EditProfile, EditPolicy,
              CommitTree, Undisturbed, vars, store
<1> QED BY <1>1, <1>2, <1>3 DEF Next

\* A claim that appends owns its experiment, which is of a known action.
LEMMA AppenderOwns ==
    ASSUME TypeInv, NEW p \in Proc, pc[p] = "append"
    PROVE  /\ cmd[p] = "claim" /\ Owns(p, rec[p].id)
           /\ rec[p].id \in Exp /\ rec[p].action \in Action
BY DEF TypeInv, LocalOK, Record, Owns

\* Every step keeps the ledger faithful, torn end included.
LEMMA LedgerStep == LedgerInv /\ [Next]_vars => LedgerInv'
<1> SUFFICES ASSUME LedgerInv, [Next]_vars PROVE LedgerInv'
  OBVIOUS
<1>0. TypeInv /\ OwnOK /\ TornOK /\ LinesOK /\ Grows /\ TypeInv' /\ OwnOK'
  BY TypeStep, OwnStep, GrowsStep DEF LedgerInv
<1>1. ASSUME NEW line, line \in ledger PROVE Faithful(line)'
  <2>1. Faithful(line) /\ line.id \in Exp \cup {Absent}
    BY <1>0, <1>1 DEF LinesOK, TypeInv, TypeOK, LedgerLine
  <2> QED BY <1>0, <2>1, FaithfulStays
<1>2. CASE UNCHANGED <<ledger, tail>>
  <2>1. LinesOK'
    BY <1>1, <1>2 DEF LinesOK
  <2>2. TornOK'
    BY <1>0, <1>2 DEF TornOK, Grows
  <2> QED BY <1>0, <2>1, <2>2 DEF LedgerInv
<1>3. ASSUME NEW p \in Proc, AppendLedger(p) PROVE LedgerInv'
  <2>1. PICK new \in Appended(LineOf(rec[p])) : ledger' = ledger \cup {new}
    BY <1>3 DEF AppendLedger
  <2>2. pc[p] = "append" /\ tail' = None /\ UNCHANGED <<guards, issued, rec, cmd>>
        /\ pc' = [pc EXCEPT ![p] = "commit"]
    BY <1>3 DEF AppendLedger, local, Goto
  <2>3. Owns(p, rec[p].id) /\ rec[p].id \in Exp /\ rec[p].action \in Action
    BY <1>0, <2>2, AppenderOwns
  <2>4. /\ SameAction(new, rec[p].action)
        /\ new.id \in {rec[p].id, Absent} \/ (tail # None /\ new.id = tail.id)
    BY <2>3, AppendedReads
  <2>5. \A q \in Proc, e \in Exp : Owns(q, e)' <=> Owns(q, e)
    BY <1>0, <2>2 DEF Owns, TypeInv, TypeOK, LocalOK
  <2>6. ASSUME new.id = rec[p].id PROVE Faithful(new)'
    <3>1. new.id \in guards' /\ \A i \in DOMAIN issued' : issued'[i].id # new.id
      BY <1>0, <2>2, <2>3, <2>6 DEF OwnOK
    <3>2. \A q \in Proc : Owns(q, new.id)' => q = p
      BY <1>0, <2>3, <2>5, <2>6 DEF OwnOK
    <3> QED BY <2>2, <2>4, <3>1, <3>2 DEF Faithful, SameAction
  <2>7. ASSUME new.id = Absent PROVE Faithful(new)'
    BY <2>7 DEF Faithful
  <2>8. ASSUME tail # None, new.id = tail.id, new.id # Absent PROVE Faithful(new)'
    <3>1. Stopped(new.id)'
      BY <1>0, <2>8 DEF TornOK, Grows
    <3> QED BY <3>1 DEF Stopped, Faithful
  <2>9. Faithful(new)'
    BY <2>4, <2>6, <2>7, <2>8
  <2>10. LinesOK'
    BY <1>1, <2>1, <2>9 DEF LinesOK
  <2>11. TornOK'
    BY <2>2 DEF TornOK
  <2> QED BY <1>0, <2>10, <2>11 DEF LedgerInv
<1>4. ASSUME NEW p \in Proc, TearLedger(p) PROVE LedgerInv'
  <2>9. PICK n \in 0..4 : tail' \in Appended(Fragment(LineOf(rec[p]), n))
    BY <1>4 DEF TearLedger
  <2>1. PICK torn \in Appended(Fragment(LineOf(rec[p]), n)) : tail' = torn
    BY <2>9
  <2>2. pc[p] = "append" /\ End(p) /\ UNCHANGED <<ledger, guards, issued>>
    BY <1>4 DEF TearLedger
  <2>3. PICK e \in Exp : e = rec[p].id /\ Owns(p, e)
    BY <1>0, <2>2, AppenderOwns
  <2>4. Stopped(e)'
    <3>1. e \in guards' /\ \A i \in DOMAIN issued' : issued'[i].id # e
      BY <1>0, <2>2, <2>3 DEF OwnOK
    <3>2. \A q \in Proc : ~Owns(q, e)'
      BY <1>0, <2>2, <2>3, EndIsQuiet DEF OwnOK
    <3> QED BY <3>1, <3>2 DEF Stopped
  <2>5. torn.id \in {e, Absent} \/ (tail # None /\ torn.id = tail.id)
    BY <2>3, TornReads
  <2>6. torn.id # Absent => Stopped(torn.id)'
    BY <1>0, <2>4, <2>5 DEF TornOK, Grows
  <2>7. TornOK'
    BY <2>1, <2>6 DEF TornOK, Stopped, Owns
  <2>8. LinesOK'
    BY <1>1, <2>2 DEF LinesOK
  <2> QED BY <1>0, <2>7, <2>8 DEF LedgerInv
<1> QED BY <1>2, <1>3, <1>4, LedgerKinds

-----------------------------------------------------------------------------
(* The audit trail.                                                         *)

\* A record that says its action was claimed is on record.
Backed(r) == r # None /\ r.action # None /\ r.status # "ready" => OnRecord(r)

StoreBacked ==
    /\ Backed(active) /\ \A e \in Exp : Backed(archived[e])
    /\ \A i \in DOMAIN issued : OnRecord(issued[i])

\* What a process carries is backed too: records in status claimed that result
\* and observe loaded, and the guard and the line a claim has written so far.
ProcBacked ==
    \A p \in Proc :
      /\ Backed(rec[p])
      /\ cmd[p] = "claim" /\ pc[p] \in {"commit", "rename", "print"} => OnRecord(rec[p])

RecordInv == LedgerInv /\ StoreBacked /\ ProcBacked

\* Stored records stay backed while guards and ledger only grow.
LEMMA StoreKept ==
    ASSUME StoreBacked, Grows, UNCHANGED <<active, archived, issued>>
    PROVE  StoreBacked'
BY DEF StoreBacked, Grows, Backed, OnRecord, SameAction

\* A process that ends carries nothing.
LEMMA EndKeepsBacked ==
    ASSUME RecordInv, Grows, NEW p \in Proc, End(p)
    PROVE  ProcBacked'
BY DEF RecordInv, LedgerInv, TypeInv, TypeOK, ProcBacked, Grows, Backed, OnRecord,
       SameAction, End, Goto

\* A refusal leaves everything backed.
LEMMA RefuseKeepsBacked ==
    ASSUME RecordInv, Grows, NEW p \in Proc, Refuse(p)
    PROVE  StoreBacked' /\ ProcBacked'
BY StoreKept, EndKeepsBacked DEF RecordInv, Refuse, store

\* So does every step that moves one process on without touching its record.
LEMMA MoveKeepsBacked ==
    ASSUME RecordInv, Grows, NEW p \in Proc,
           UNCHANGED <<active, archived, issued, rec>>,
           pc[p] \notin {"append", "commit", "rename", "print"},
           \A q \in Proc \ {p} : pc'[q] = pc[q] /\ cmd'[q] = cmd[q],
           \/ cmd'[p] # "claim"
           \/ pc'[p] \notin {"append", "commit", "rename", "print"}
    PROVE  StoreBacked' /\ ProcBacked'
BY StoreKept DEF RecordInv, ProcBacked, Grows, Backed, OnRecord, SameAction

\* Loading a stored record, or preparing a ready one, leaves everything backed.
LEMMA LoadKeepsBacked ==
    ASSUME RecordInv, Grows, NEW p \in Proc, NEW r, Backed(r),
           UNCHANGED <<store, issued, cmd>>, rec' = [rec EXCEPT ![p] = r],
           NEW step \in {"create", "check", "hash"}, pc' = [pc EXCEPT ![p] = step]
    PROVE  StoreBacked' /\ ProcBacked'
<1>1. UNCHANGED <<active, archived, issued>>
  BY DEF store
<1>2. ProcBacked'
  BY DEF RecordInv, LedgerInv, TypeInv, TypeOK, ProcBacked, Grows, Backed, OnRecord, SameAction
<1> QED BY <1>1, <1>2, StoreKept DEF RecordInv

\* A rewrite of the active record by a process that then ends.
LEMMA RewriteKeepsBacked ==
    ASSUME RecordInv, Grows, NEW p \in Proc, NEW r, Backed(r), End(p), active' = r,
           UNCHANGED <<archived, issued>>
    PROVE  StoreBacked' /\ ProcBacked'
<1>1. StoreBacked'
  BY DEF RecordInv, StoreBacked, Grows, Backed, OnRecord, SameAction
<1> QED BY <1>1, EndKeepsBacked

\* Every step leaves what is stored and what is in progress backed.
LEMMA BackedStep == RecordInv /\ [Next]_vars => StoreBacked' /\ ProcBacked'
<1> SUFFICES ASSUME RecordInv, [Next]_vars PROVE StoreBacked' /\ ProcBacked'
  OBVIOUS
<1> DEFINE Goal == StoreBacked' /\ ProcBacked'
<1>0. /\ TypeInv /\ OwnOK /\ TornOK /\ StoreBacked /\ ProcBacked
      /\ Grows
  BY GrowsStep DEF RecordInv, LedgerInv
<1>1. ASSUME NEW p \in Proc, NEW c \in Commands, Start(p, c) PROVE Goal
  BY <1>0, <1>1, MoveKeepsBacked DEF Start, Goto, TypeInv, TypeOK, store, local
<1>2. ASSUME NEW p \in Proc,
             \/ Acquire(p) \/ ClaimCheck(p) \/ AuthCheck(p) \/ AuthCompare(p) \/ AuthConfirm(p)
      PROVE Goal
  <2>1. CASE Refuse(p)
    BY <1>0, <2>1, RefuseKeepsBacked
  <2>2. CASE ~Refuse(p)
    <3>1. /\ UNCHANGED <<store, rec, cmd, issued>>
          /\ pc[p] \in {"wait", "check", "locked", "confirm", "record"}
          /\ \E step \in {"locked", "hash", "record", "replace", "wait"} :
                pc' = [pc EXCEPT ![p] = step]
      BY <1>2, <2>2 DEF Acquire, ClaimCheck, AuthCheck, AuthCompare, AuthConfirm, Enter, Goto,
                        local
    <3>2. /\ \A q \in Proc \ {p} : pc'[q] = pc[q] /\ cmd'[q] = cmd[q]
          /\ pc'[p] \notin {"append", "commit", "rename", "print"}
      BY <1>0, <3>1 DEF TypeInv, TypeOK
    <3>3. UNCHANGED <<active, archived, issued, rec>>
      BY <3>1 DEF store
    <3> QED BY <1>0, <3>1, <3>2, <3>3, MoveKeepsBacked
  <2> QED BY <2>1, <2>2
<1>3. ASSUME NEW p \in Proc, NewPrepare(p) PROVE Goal
  <2>1. CASE Refuse(p)
    BY <1>0, <2>1, RefuseKeepsBacked
  <2>2. CASE ~Refuse(p)
    <3>1. PICK e \in Exp, a \in OfferedActions : \E r \in OfferedRepeats(a) :
            rec' = [rec EXCEPT ![p] = [id |-> e, action |-> a, repeat |-> r,
                                       status |-> "ready", obs |-> 0]]
      BY <1>3, <2>2 DEF NewPrepare
    <3>2. PICK r \in OfferedRepeats(a) :
            rec' = [rec EXCEPT ![p] = [id |-> e, action |-> a, repeat |-> r,
                                       status |-> "ready", obs |-> 0]]
      BY <3>1
    <3>3. Backed([id |-> e, action |-> a, repeat |-> r, status |-> "ready", obs |-> 0])
      BY DEF Backed
    <3>4. UNCHANGED <<store, issued, cmd>> /\ pc' = [pc EXCEPT ![p] = "create"]
      BY <1>3, <2>2 DEF NewPrepare, Goto
    <3> QED BY <1>0, <3>2, <3>3, <3>4, LoadKeepsBacked
  <2> QED BY <2>1, <2>2
<1>4. ASSUME NEW p \in Proc, ClaimLoad(p) \/ ResultLoad(p) \/ ObserveLoad(p) PROVE Goal
  <2>1. CASE Refuse(p)
    BY <1>0, <2>1, RefuseKeepsBacked
  <2>2. CASE ~Refuse(p)
    <3>1. /\ UNCHANGED <<store, issued, cmd>> /\ rec' = [rec EXCEPT ![p] = active]
          /\ \E step \in {"create", "check", "hash"} : pc' = [pc EXCEPT ![p] = step]
      BY <1>4, <2>2 DEF ClaimLoad, ResultLoad, ObserveLoad, Goto
    <3> QED BY <1>0, <3>1, LoadKeepsBacked DEF StoreBacked
  <2> QED BY <2>1, <2>2
<1>5. ASSUME NEW p \in Proc, NewCreate(p) PROVE Goal
  <2>1. CASE Refuse(p)
    BY <1>0, <2>1, RefuseKeepsBacked
  <2>2. CASE ~Refuse(p)
    <3>1. End(p) /\ active' = rec[p] /\ UNCHANGED <<guards, ledger, archived, issued>>
      BY <1>5, <2>2 DEF NewCreate
    <3> QED BY <1>0, <3>1, RewriteKeepsBacked DEF ProcBacked
  <2> QED BY <2>1, <2>2
<1>6. ASSUME NEW p \in Proc, HashActive(p) PROVE Goal
  <2>1. CASE Refuse(p)
    BY <1>0, <2>1, RefuseKeepsBacked
  <2>2. CASE ~Refuse(p)
    <3>1. /\ UNCHANGED <<store, rec, cmd, issued>> /\ pc[p] = "hash"
          /\ \/ cmd[p] # "claim" /\ pc' = [pc EXCEPT ![p] = "commit"]
             \/ cmd[p] = "claim" /\ pc' = [pc EXCEPT ![p] = "guard"]
      BY <1>6, <2>2 DEF HashActive, Goto
    <3>2. /\ \A q \in Proc \ {p} : pc'[q] = pc[q] /\ cmd'[q] = cmd[q]
          /\ cmd'[p] # "claim" \/ pc'[p] \notin {"append", "commit", "rename", "print"}
      BY <1>0, <3>1 DEF TypeInv, TypeOK
    <3>3. UNCHANGED <<active, archived, issued, rec>>
      BY <3>1 DEF store
    <3> QED BY <1>0, <3>1, <3>2, <3>3, MoveKeepsBacked
  <2> QED BY <2>1, <2>2
<1>7. ASSUME NEW p \in Proc, WriteGuard(p) PROVE Goal
  <2>1. CASE Refuse(p)
    BY <1>0, <2>1, RefuseKeepsBacked
  <2>2. CASE ~Refuse(p)
    <3>1. /\ pc' = [pc EXCEPT ![p] = "append"]
          /\ UNCHANGED <<active, archived, issued, cmd, rec>>
      BY <1>7, <2>2 DEF WriteGuard, Goto, local
    <3>2. ProcBacked'
      BY <1>0, <3>1 DEF TypeInv, TypeOK, ProcBacked, Grows, Backed, OnRecord, SameAction
    <3> QED BY <1>0, <3>1, <3>2, StoreKept
  <2> QED BY <2>1, <2>2
<1>8. ASSUME NEW p \in Proc, AppendLedger(p) PROVE Goal
  <2>1. PICK new \in Appended(LineOf(rec[p])) : ledger' = ledger \cup {new}
    BY <1>8 DEF AppendLedger
  <2>2. /\ pc[p] = "append" /\ pc' = [pc EXCEPT ![p] = "commit"]
        /\ UNCHANGED <<active, guards, archived, issued, cmd, rec>>
    BY <1>8 DEF AppendLedger, Goto, local
  <2>3. Owns(p, rec[p].id) /\ rec[p].id \in Exp /\ rec[p].action \in Action
    BY <1>0, <2>2, AppenderOwns
  <2>4. /\ SameAction(new, rec[p].action)
        /\ new.id \in {rec[p].id, Absent} \/ (tail # None /\ new.id = tail.id)
    BY <2>3, AppendedReads
  <2>5. new.id \in {rec[p].id, Absent} \/ Stopped(new.id)'
    BY <1>0, <2>4 DEF TornOK, Grows
  <2>6. rec[p].id \in guards' /\ new \in ledger'
    BY <1>0, <2>1, <2>2, <2>3 DEF OwnOK
  <2>7. OnRecord(rec[p])'
    BY <2>2, <2>4, <2>5, <2>6 DEF OnRecord, SameAction
  <2>8. ProcBacked'
    BY <1>0, <2>2, <2>7 DEF TypeInv, TypeOK, ProcBacked, Grows, Backed, OnRecord, SameAction
  <2> QED BY <1>0, <2>2, <2>8, StoreKept
<1>9. ASSUME NEW p \in Proc, TearLedger(p) PROVE Goal
  BY <1>0, <1>9, StoreKept, EndKeepsBacked DEF TearLedger
<1>22. ASSUME NEW p \in Proc, CompareActive(p) PROVE Goal
  <2>1. CASE Refuse(p)
    BY <1>0, <2>1, RefuseKeepsBacked
  <2>2. CASE ~Refuse(p)
    <3>1. /\ pc[p] = "commit" /\ pc' = [pc EXCEPT ![p] = "rename"]
          /\ UNCHANGED <<active, archived, issued, cmd, rec>>
      BY <1>22, <2>2 DEF CompareActive, Goto, store, local
    <3>2. ProcBacked'
      BY <1>0, <3>1 DEF TypeInv, TypeOK, ProcBacked, Grows, Backed, OnRecord, SameAction
    <3> QED BY <1>0, <3>1, <3>2, StoreKept
  <2> QED BY <2>1, <2>2
<1>10. ASSUME NEW p \in Proc, ClaimCommit(p) PROVE Goal
  <2>1. /\ active' = [rec[p] EXCEPT !.status = "claimed"] /\ pc[p] = "rename"
        /\ cmd[p] = "claim" /\ pc' = [pc EXCEPT ![p] = "print"]
        /\ UNCHANGED <<archived, issued, cmd, rec>>
    BY <1>10 DEF ClaimCommit, Enter, Goto, local
  <2>2. rec[p] \in Record /\ OnRecord(rec[p])
    BY <1>0, <2>1 DEF ProcBacked, TypeInv, LocalOK
  <2>3. active'.id = rec[p].id /\ active'.action = rec[p].action
    BY <2>1, <2>2 DEF Record
  <2>4. OnRecord(active)'
    BY <1>0, <2>2, <2>3 DEF Grows, OnRecord, SameAction
  <2>5. StoreBacked'
    BY <1>0, <2>1, <2>4 DEF StoreBacked, Grows, Backed, OnRecord, SameAction
  <2>6. ProcBacked'
    BY <1>0, <2>1 DEF TypeInv, TypeOK, ProcBacked, Grows, Backed, OnRecord, SameAction
  <2> QED BY <2>5, <2>6
<1>11. ASSUME NEW p \in Proc, ClaimPrint(p) PROVE Goal
  <2>1. PICK i : i = [id |-> rec[p].id, action |-> rec[p].action, repeat |-> rec[p].repeat]
    OBVIOUS
  <2>2. /\ issued' = Append(issued, i) /\ pc[p] = "print" /\ End(p)
        /\ UNCHANGED <<active, archived>>
    BY <1>11, <2>1 DEF ClaimPrint, store
  <2>3. OnRecord(i)
    BY <1>0, <2>1, <2>2 DEF ProcBacked, TypeInv, LocalOK, OnRecord
  <2>4. issued \in Seq(Issue)
    BY <1>0 DEF TypeInv, TypeOK
  <2>5. \A k \in DOMAIN issued' : issued'[k] = i \/ (k \in DOMAIN issued /\ issued'[k] = issued[k])
    BY <2>2, <2>4
  <2>6. \A k \in DOMAIN issued' : OnRecord(issued'[k])
    BY <1>0, <2>3, <2>5 DEF StoreBacked
  <2>7. \A k \in DOMAIN issued' : OnRecord(issued[k])'
    BY <1>0, <2>6 DEF Grows, OnRecord, SameAction
  <2>8. StoreBacked'
    BY <1>0, <2>2, <2>7 DEF StoreBacked, Grows, Backed, OnRecord, SameAction
  <2> QED BY <1>0, <2>2, <2>8, EndKeepsBacked
<1>12. ASSUME NEW p \in Proc, NEW r, Backed(r), Rewrite(p, r) PROVE Goal
  BY <1>0, <1>12, RewriteKeepsBacked DEF Rewrite
<1>13. ASSUME NEW p \in Proc, ResultCommit(p) PROVE Goal
  <2>1. rec[p] \in Record /\ Backed(rec[p]) /\ (rec[p].action = None \/ rec[p].status = "claimed")
    BY <1>0, <1>13 DEF ResultCommit, Enter, ProcBacked, TypeInv, LocalOK
  <2>2. Backed([rec[p] EXCEPT !.status = "completed"])
    BY <2>1 DEF Backed, OnRecord, Record
  <2> QED BY <1>12, <1>13, <2>2 DEF ResultCommit
<1>14. ASSUME NEW p \in Proc, ObserveCommit(p) PROVE Goal
  <2>1. rec[p] \in Record /\ Backed(rec[p])
    BY <1>0, <1>14 DEF ObserveCommit, Enter, ProcBacked, TypeInv, LocalOK
  <2>2. Backed([rec[p] EXCEPT !.obs = @ + 1])
    BY <2>1 DEF Backed, OnRecord, Record
  <2> QED BY <1>12, <1>14, <2>2 DEF ObserveCommit
<1>15. ASSUME NEW p \in Proc, ArchiveWrite(p) PROVE Goal
  <2>1. CASE Refuse(p)
    BY <1>0, <2>1, RefuseKeepsBacked
  <2>2. CASE ~Refuse(p)
    <3>1. /\ archived' = [archived EXCEPT ![active.id] = active]
          /\ pc' = [pc EXCEPT ![p] = "unlink"]
          /\ UNCHANGED <<active, issued, cmd, rec>>
      BY <1>15, <2>2 DEF ArchiveWrite, Goto, local
    <3>2. StoreBacked'
      BY <1>0, <3>1 DEF TypeInv, TypeOK, StoreBacked, Grows, Backed, OnRecord, SameAction
    <3>3. ProcBacked'
      BY <1>0, <3>1 DEF TypeInv, TypeOK, ProcBacked, Grows, Backed, OnRecord, SameAction
    <3> QED BY <3>2, <3>3
  <2> QED BY <2>1, <2>2
<1>16. ASSUME NEW p \in Proc, ArchiveUnlink(p) PROVE Goal
  <2>1. Backed(None)
    BY DEF Backed
  <2> QED BY <1>0, <1>16, <2>1, RewriteKeepsBacked DEF ArchiveUnlink
<1>17. ASSUME NEW p \in Proc, AuthPreview(p) PROVE Goal
  <2>1. CASE Refuse(p)
    BY <1>0, <2>1, RefuseKeepsBacked
  <2>2. CASE ~Refuse(p)
    <3>1. /\ UNCHANGED <<store, rec, cmd, issued>> /\ pc[p] = "preview"
          /\ pc' = [pc EXCEPT ![p] = "confirm"]
      BY <1>17, <2>2 DEF AuthPreview, Goto
    <3> QED BY <1>0, <3>1, MoveKeepsBacked DEF TypeInv, TypeOK, store
  <2> QED BY <2>1, <2>2
<1>18. ASSUME NEW p \in Proc, AuthRecord(p) PROVE Goal
  BY <1>0, <1>18, StoreKept, EndKeepsBacked DEF AuthRecord, store
<1>19. ASSUME NEW p \in Proc, Crash(p) PROVE Goal
  BY <1>0, <1>19, RefuseKeepsBacked DEF Crash
<1>20. ASSUME RewindActive \/ AuditActive PROVE Goal
  <2>1. UNCHANGED <<archived, issued, pc, cmd, rec>>
    BY <1>20 DEF RewindActive, AuditActive, local
  <2>2. active' = None \/ active'.status = "ready"
    BY <1>0, <1>20 DEF RewindActive, AuditActive, TypeInv, TypeOK, Record
  <2>3. StoreBacked'
    BY <1>0, <2>1, <2>2 DEF StoreBacked, Grows, Backed, OnRecord, SameAction
  <2>4. ProcBacked'
    BY <1>0, <2>1 DEF ProcBacked, Grows, Backed, OnRecord, SameAction
  <2> QED BY <2>3, <2>4
<1>21. CASE EditFile \/ EditProfile \/ EditPolicy \/ CommitTree \/ UNCHANGED vars
  <2>1. UNCHANGED <<active, archived, issued, pc, cmd, rec>>
    BY <1>21 DEF EditFile, EditProfile, EditPolicy, CommitTree, Undisturbed, vars, store, local
  <2>2. ProcBacked'
    BY <1>0, <2>1 DEF ProcBacked, Grows, Backed, OnRecord, SameAction
  <2> QED BY <1>0, <2>1, <2>2, StoreKept
<1> QED
  BY <1>1, <1>2, <1>3, <1>4, <1>5, <1>6, <1>7, <1>8, <1>9, <1>10, <1>11, <1>13, <1>14,
     <1>15, <1>16, <1>17, <1>18, <1>19, <1>20, <1>21, <1>22 DEF Next, Step, Environment

\* For every instance, nothing is claimed off the record, whatever claims stop
\* half-way and whatever lines they tear: what was printed, and what any stored
\* record says was claimed, has its guard and a line of its action, and no line
\* puts another action under the id of a printed command.
THEOREM AuditTrail == Spec => []ClaimsOnRecord
<1>1. Init => RecordInv
  BY TypeInit DEF Init, RecordInv, LedgerInv, OwnOK, Owns, AtMostOneIssue, TornOK, LinesOK,
                  StoreBacked, ProcBacked, Backed
<1>2. RecordInv /\ [Next]_vars => RecordInv'
  BY LedgerStep, BackedStep DEF RecordInv
<1>3. RecordInv => ClaimsOnRecord
  <2> SUFFICES ASSUME RecordInv PROVE ClaimsOnRecord
    OBVIOUS
  <2>1. /\ \A i \in DOMAIN issued : OnRecord(issued[i])
        /\ \A r \in {active} \cup {archived[e] : e \in Exp} : Backed(r)
    BY DEF RecordInv, StoreBacked
  <2>2. issued \in Seq(Issue)
    BY DEF RecordInv, LedgerInv, TypeInv, TypeOK
  <2>3. \A i \in DOMAIN issued : issued[i].id \in Exp
    <3>1. \A i \in DOMAIN issued : issued[i] \in Issue
      BY <2>2
    <3> QED BY <3>1 DEF Issue
  <2>4. \A line \in ledger, i \in DOMAIN issued :
           line.id = issued[i].id => SameAction(line, issued[i].action)
    BY <2>3, AbsentAssumption DEF RecordInv, LedgerInv, LinesOK, Faithful
  <2> QED BY <2>1, <2>4 DEF ClaimsOnRecord, Backed
<1> QED BY <1>1, <1>2, <1>3, PTL DEF Spec

-----------------------------------------------------------------------------
(* The lock, and the record, policy and request a process works on.         *)

HoldingSteps == {"locked", "create", "check", "hash", "guard", "append", "commit",
                 "rename", "unlink", "record", "replace"}

\* A process between taking the lock and giving it back holds it.
LockInv == \A p \in Proc : pc[p] \in HoldingSteps => lock = p

\* A process that stops holding gives the lock back, if it had it.
LEMMA ReleaseKeepsLock ==
    ASSUME TypeInv, LockInv, NEW p \in Proc, Unlock(p),
           NEW step \in Steps \ HoldingSteps, Goto(p, step)
    PROVE  LockInv'
BY DEF TypeInv, TypeOK, LockInv, Unlock, Goto

\* A process that moves on keeps what it holds.
LEMMA MoveKeepsLock ==
    ASSUME TypeInv, LockInv, NEW p \in Proc, lock' = lock,
           NEW step, Goto(p, step), step \in HoldingSteps => pc[p] \in HoldingSteps
    PROVE  LockInv'
BY DEF TypeInv, TypeOK, LockInv, Goto

\* Every step keeps it.
LEMMA LockStep == TypeInv /\ LockInv /\ [Next]_vars => LockInv'
<1> SUFFICES ASSUME TypeInv, LockInv, [Next]_vars PROVE LockInv'
  OBVIOUS
<1>1. ASSUME NEW p \in Proc, End(p) PROVE LockInv'
  <2>1. "idle" \in Steps \ HoldingSteps
    BY DEF Steps, HoldingSteps
  <2> QED BY <1>1, <2>1, ReleaseKeepsLock DEF End
<1>2. ASSUME NEW p \in Proc, Refuse(p) PROVE LockInv'
  BY <1>1, <1>2 DEF Refuse
<1>3. ASSUME NEW p \in Proc, NEW c \in Commands, Start(p, c) PROVE LockInv'
  <2>1. PICK step \in {"preview", "wait"} : Goto(p, step)
    BY <1>3 DEF Start
  <2> QED BY <1>3, <2>1, MoveKeepsLock DEF Start, HoldingSteps
<1>4. ASSUME NEW p \in Proc, Acquire(p) PROVE LockInv'
  BY <1>4 DEF Acquire, LockFree, Goto, TypeInv, TypeOK, LockInv
<1>5. ASSUME NEW p \in Proc,
             \/ NewPrepare(p) \/ ClaimLoad(p) \/ ClaimCheck(p) \/ HashActive(p)
             \/ WriteGuard(p) \/ AppendLedger(p) \/ CompareActive(p) \/ ResultLoad(p)
             \/ ObserveLoad(p) \/ ArchiveWrite(p) \/ AuthCheck(p) \/ AuthCompare(p),
             ~Refuse(p)
      PROVE LockInv'
  <2>1. pc[p] \in HoldingSteps /\ lock' = lock /\ \E step \in Steps : Goto(p, step)
    BY <1>5 DEF NewPrepare, ClaimLoad, ClaimCheck, HashActive, WriteGuard, AppendLedger,
                CompareActive, ResultLoad, ObserveLoad, ArchiveWrite, AuthCheck, AuthCompare,
                Enter, HoldingSteps, Steps
  <2> QED BY <2>1, MoveKeepsLock
<1>6. ASSUME NEW p \in Proc, AuthPreview(p) \/ AuthConfirm(p), ~Refuse(p) PROVE LockInv'
  <2>1. lock' = lock /\ \E step \in {"confirm", "wait"} : Goto(p, step)
    BY <1>6 DEF AuthPreview, AuthConfirm
  <2> QED BY <2>1, MoveKeepsLock DEF HoldingSteps
<1>7. ASSUME NEW p \in Proc, ClaimCommit(p), ~Refuse(p) PROVE LockInv'
  <2>1. Unlock(p) /\ Goto(p, "print") /\ "print" \in Steps \ HoldingSteps
    BY <1>7 DEF ClaimCommit, Steps, HoldingSteps
  <2> QED BY <2>1, ReleaseKeepsLock
<1>8. ASSUME NEW p \in Proc,
             \/ NewCreate(p) \/ ClaimPrint(p) \/ ResultCommit(p) \/ ObserveCommit(p)
             \/ ArchiveUnlink(p) \/ AuthRecord(p) \/ TearLedger(p) \/ Crash(p)
      PROVE LockInv'
  BY <1>1, <1>2, <1>8 DEF NewCreate, ClaimPrint, ResultCommit, ObserveCommit, Rewrite,
                          ArchiveUnlink, AuthRecord, TearLedger, Crash
<1>9. CASE Environment \/ UNCHANGED vars
  BY <1>9 DEF Environment, RewindActive, AuditActive, EditFile, EditProfile,
              EditPolicy, CommitTree, Undisturbed, vars, LockInv
<1> QED BY <1>2, <1>3, <1>4, <1>5, <1>6, <1>7, <1>8, <1>9 DEF Next, Step

\* What the lock protects: the record a process works on is the active one, of
\* the same experiment and action and never further on; what it is about to
\* unlink is archived; and the store is in safe idle when it writes the policy.
Fits(step, r) ==
    /\ step \in {"check", "hash", "guard", "append", "commit", "rename"} =>
          /\ active # None /\ active.id = r.id /\ active.action = r.action
          /\ active.obs <= r.obs /\ Rank(active.status) <= Rank(r.status)
    /\ step = "unlink" => active # None /\ archived[active.id] # None
    /\ step \in {"record", "replace"} => active = None

ActiveInv == \A p \in Proc : Fits(pc[p], rec[p])

\* Only the process that holds the lock writes the store, so the others still
\* fit.
LEMMA OthersFit ==
    ASSUME TypeInv, LockInv, ActiveInv, NEW p \in Proc,
           \A q \in Proc \ {p} : pc'[q] = pc[q] /\ rec'[q] = rec[q],
           UNCHANGED <<active, archived>> \/ pc[p] \in HoldingSteps,
           Fits(pc[p], rec[p])'
    PROVE  ActiveInv'
BY DEF ActiveInv, Fits, LockInv, HoldingSteps

\* Every step keeps it.
LEMMA ActiveStep == TypeInv /\ LockInv /\ ActiveInv /\ [Next]_vars => ActiveInv'
<1> SUFFICES ASSUME TypeInv, LockInv, ActiveInv, [Next]_vars PROVE ActiveInv'
  OBVIOUS
<1>1. ASSUME NEW p \in Proc, End(p), UNCHANGED <<active, archived>> \/ pc[p] \in HoldingSteps
      PROVE ActiveInv'
  <2>1. /\ \A q \in Proc \ {p} : pc'[q] = pc[q] /\ rec'[q] = rec[q]
        /\ pc'[p] = "idle"
    BY <1>1 DEF End, Goto, TypeInv, TypeOK
  <2>2. Fits(pc[p], rec[p])'
    BY <2>1 DEF Fits
  <2> QED BY <1>1, <2>1, <2>2, OthersFit
<1>2. ASSUME NEW p \in Proc, Refuse(p) PROVE ActiveInv'
  BY <1>1, <1>2 DEF Refuse, store
<1>3. ASSUME NEW p \in Proc, UNCHANGED <<active, archived, rec>>, NEW step \in Steps,
             Goto(p, step),
             step \in {"check", "hash", "guard", "append", "commit", "rename"} =>
                pc[p] \in {"check", "hash", "guard", "append", "commit", "rename"},
             step \notin {"unlink", "record", "replace"}
      PROVE ActiveInv'
  <2>1. /\ \A q \in Proc \ {p} : pc'[q] = pc[q] /\ rec'[q] = rec[q]
        /\ pc'[p] = step /\ rec'[p] = rec[p]
    BY <1>3 DEF Goto, TypeInv, TypeOK
  <2>2. Fits(pc[p], rec[p])'
    BY <1>3, <2>1 DEF Fits, ActiveInv
  <2> QED BY <1>3, <2>1, <2>2, OthersFit
<1>4. ASSUME NEW p \in Proc,
             \/ \E c \in Commands : Start(p, c)
             \/ Acquire(p) \/ ClaimCheck(p) \/ HashActive(p) \/ WriteGuard(p)
             \/ AppendLedger(p) \/ CompareActive(p) \/ AuthPreview(p) \/ AuthConfirm(p),
             ~Refuse(p)
      PROVE ActiveInv'
  <2>1. UNCHANGED <<active, archived, rec>>
    BY <1>4 DEF Start, Acquire, ClaimCheck, HashActive, WriteGuard, AppendLedger,
                CompareActive, AuthPreview, AuthConfirm, store, local
  <2>2. \E step \in Steps \ {"unlink", "record", "replace"} :
           /\ Goto(p, step)
           /\ step \in {"check", "hash", "guard", "append", "commit", "rename"} =>
                pc[p] \in {"check", "hash", "guard", "append", "commit", "rename"}
    BY <1>4 DEF Start, Acquire, ClaimCheck, HashActive, WriteGuard, AppendLedger,
                CompareActive, AuthPreview, AuthConfirm, Steps
  <2> QED BY <1>3, <2>1, <2>2
<1>5. ASSUME NEW p \in Proc, NewPrepare(p), ~Refuse(p) PROVE ActiveInv'
  <2>1. /\ pc' = [pc EXCEPT ![p] = "create"] /\ UNCHANGED <<active, archived>>
        /\ \E r : rec' = [rec EXCEPT ![p] = r]
    BY <1>5 DEF NewPrepare, Goto, store
  <2>2. /\ \A q \in Proc \ {p} : pc'[q] = pc[q] /\ rec'[q] = rec[q]
        /\ pc'[p] = "create"
    BY <2>1 DEF TypeInv, TypeOK
  <2>3. Fits(pc[p], rec[p])'
    BY <2>2 DEF Fits
  <2> QED BY <2>1, <2>2, <2>3, OthersFit
<1>6. ASSUME NEW p \in Proc, ClaimLoad(p) \/ ResultLoad(p) \/ ObserveLoad(p), ~Refuse(p)
      PROVE ActiveInv'
  <2>1. /\ active # None /\ rec' = [rec EXCEPT ![p] = active] /\ UNCHANGED <<active, archived>>
        /\ \E step \in {"check", "hash"} : pc' = [pc EXCEPT ![p] = step]
    BY <1>6 DEF ClaimLoad, Claimable, ResultLoad, TakesResult, ObserveLoad, Observable,
                Goto, store
  <2>2. /\ \A q \in Proc \ {p} : pc'[q] = pc[q] /\ rec'[q] = rec[q]
        /\ pc'[p] \in {"check", "hash"} /\ rec'[p] = active'
    BY <2>1 DEF TypeInv, TypeOK
  <2>3. active'.obs <= active'.obs /\ Rank(active'.status) <= Rank(active'.status)
    BY <2>1 DEF TypeInv, TypeOK, Record, Rank
  <2>4. Fits(pc[p], rec[p])'
    BY <2>1, <2>2, <2>3 DEF Fits
  <2> QED BY <2>1, <2>2, <2>4, OthersFit
<1>7. ASSUME NEW p \in Proc, ClaimCommit(p), ~Refuse(p) PROVE ActiveInv'
  <2>1. /\ pc[p] = "rename" /\ pc' = [pc EXCEPT ![p] = "print"] /\ rec' = rec
    BY <1>7 DEF ClaimCommit, Enter, Goto, local
  <2>2. /\ \A q \in Proc \ {p} : pc'[q] = pc[q] /\ rec'[q] = rec[q]
        /\ pc'[p] = "print" /\ pc[p] \in HoldingSteps
    BY <2>1 DEF TypeInv, TypeOK, HoldingSteps
  <2>3. Fits(pc[p], rec[p])'
    BY <2>2 DEF Fits
  <2> QED BY <2>2, <2>3, OthersFit
<1>8. ASSUME NEW p \in Proc, ArchiveWrite(p), ~Refuse(p) PROVE ActiveInv'
  <2>1. /\ pc[p] = "locked" /\ pc' = [pc EXCEPT ![p] = "unlink"] /\ rec' = rec
        /\ active \in Record /\ active' = active
        /\ archived' = [archived EXCEPT ![active.id] = active]
    BY <1>8 DEF ArchiveWrite, Archivable, Enter, Goto, local, TypeInv, TypeOK
  <2>2. /\ \A q \in Proc \ {p} : pc'[q] = pc[q] /\ rec'[q] = rec[q]
        /\ pc'[p] = "unlink" /\ pc[p] \in HoldingSteps
    BY <2>1 DEF TypeInv, TypeOK, HoldingSteps
  <2>3. active' # None /\ archived'[active'.id] # None
    BY <2>1 DEF TypeInv, TypeOK, Record
  <2>4. Fits(pc[p], rec[p])'
    BY <2>2, <2>3 DEF Fits
  <2> QED BY <2>2, <2>4, OthersFit
<1>9. ASSUME NEW p \in Proc, AuthCheck(p) \/ AuthCompare(p), ~Refuse(p) PROVE ActiveInv'
  <2>1. /\ \E step \in {"record", "replace"} : pc' = [pc EXCEPT ![p] = step]
        /\ UNCHANGED <<active, archived, rec>>
        /\ active = None
    BY <1>9 DEF AuthCheck, AuthCompare, StillAsPreviewed, Goto, store, local, ActiveInv, Fits
  <2>2. /\ \A q \in Proc \ {p} : pc'[q] = pc[q] /\ rec'[q] = rec[q]
        /\ pc'[p] \in {"record", "replace"}
    BY <2>1 DEF TypeInv, TypeOK
  <2>3. Fits(pc[p], rec[p])'
    BY <2>1, <2>2 DEF Fits
  <2> QED BY <2>1, <2>2, <2>3, OthersFit
<1>10. ASSUME NEW p \in Proc,
              \/ NewCreate(p) \/ ResultCommit(p) \/ ObserveCommit(p) \/ ArchiveUnlink(p),
              ~Refuse(p)
       PROVE ActiveInv'
  <2>1. End(p) /\ pc[p] \in HoldingSteps
    BY <1>10 DEF NewCreate, ResultCommit, ObserveCommit, Rewrite, ArchiveUnlink, Enter,
                 HoldingSteps
  <2> QED BY <1>1, <2>1
<1>11. ASSUME NEW p \in Proc, ClaimPrint(p) \/ AuthRecord(p) \/ TearLedger(p) \/ Crash(p)
       PROVE ActiveInv'
  <2>1. End(p) /\ UNCHANGED <<active, archived>>
    BY <1>11 DEF ClaimPrint, AuthRecord, TearLedger, Crash, Refuse, store
  <2> QED BY <1>1, <2>1
<1>12. CASE RewindActive
  <2>1. /\ UNCHANGED <<archived, pc, rec>> /\ active \in Record
        /\ active' = [active EXCEPT !.status = "ready"]
    BY <1>12 DEF RewindActive, local, TypeInv, TypeOK
  <2>2. /\ active' \in Record /\ active'.id = active.id /\ active'.action = active.action
        /\ active'.obs = active.obs /\ active'.status = "ready"
    BY <2>1 DEF Record
  <2>3. Rank("ready") = 0 /\ \A s : Rank(s) \in Nat
    BY DEF Rank
  <2> QED BY <2>1, <2>2, <2>3 DEF ActiveInv, Fits
<1>14. CASE AuditActive
  BY <1>14 DEF AuditActive, LockFree, LockInv, HoldingSteps, ActiveInv, Fits, local
<1>13. CASE EditFile \/ EditProfile \/ EditPolicy \/ CommitTree \/ UNCHANGED vars
  BY <1>13 DEF EditFile, EditProfile, EditPolicy, CommitTree, Undisturbed, vars, store, local,
               ActiveInv, Fits
<1> QED BY <1>2, <1>4, <1>5, <1>6, <1>7, <1>8, <1>9, <1>10, <1>11, <1>12, <1>13, <1>14
        DEF Next, Step, Environment

GrantOf(q) == [path |-> q.path, target |-> q.target, text |-> q.text]

\* What the owner is asked to confirm adds an entry the previewed policy lacks,
\* and nothing is recorded that the owner did not confirm.
RequestInv ==
    \A p \in Proc :
      /\ (\/ pc[p] \in {"confirm", "record", "replace"}
          \/ pc[p] \in {"wait", "locked"} /\ cmd[p] = "authorize")
            => req[p].policy.enabled /\ req[p].policy.auth[req[p].path] = None
      /\ pc[p] \in {"record", "replace"} \/ (pc[p] \in {"wait", "locked"} /\ cmd[p] = "authorize")
            => GrantOf(req[p]) \in confirmed

\* Every step keeps it.
LEMMA RequestStep == TypeInv /\ RequestInv /\ [Next]_vars => RequestInv'
<1> SUFFICES ASSUME TypeInv, RequestInv, [Next]_vars PROVE RequestInv'
  OBVIOUS
<1>1. ASSUME NEW p \in Proc, End(p), confirmed' = confirmed PROVE RequestInv'
  BY <1>1 DEF End, Goto, TypeInv, TypeOK, RequestInv, GrantOf
<1>2. ASSUME NEW p \in Proc, Refuse(p) PROVE RequestInv'
  BY <1>1, <1>2 DEF Refuse
<1>3. ASSUME NEW p \in Proc, NEW c \in Commands, Start(p, c) PROVE RequestInv'
  BY <1>3 DEF Start, Goto, local, TypeInv, TypeOK, RequestInv, GrantOf
<1>4. ASSUME NEW p \in Proc, Acquire(p) PROVE RequestInv'
  BY <1>4 DEF Acquire, Goto, local, TypeInv, TypeOK, RequestInv, GrantOf
<1>5. ASSUME NEW p \in Proc,
             \/ NewPrepare(p) \/ ClaimLoad(p) \/ ClaimCheck(p) \/ HashActive(p)
             \/ WriteGuard(p) \/ AppendLedger(p) \/ CompareActive(p) \/ ClaimCommit(p)
             \/ ResultLoad(p) \/ ObserveLoad(p) \/ ArchiveWrite(p),
             ~Refuse(p)
      PROVE RequestInv'
  <2>1. UNCHANGED <<req, cmd, confirmed>>
        /\ \E step \in {"create", "check", "hash", "guard", "append", "commit", "rename", "print",
                        "unlink"} : pc' = [pc EXCEPT ![p] = step]
    BY <1>5 DEF NewPrepare, ClaimLoad, ClaimCheck, HashActive, WriteGuard, AppendLedger,
                CompareActive, ClaimCommit, ResultLoad, ObserveLoad, ArchiveWrite, Goto,
                store, local
  <2> QED BY <2>1 DEF TypeInv, TypeOK, RequestInv, GrantOf
<1>6. ASSUME NEW p \in Proc, AuthPreview(p), ~Refuse(p) PROVE RequestInv'
  <2>1. PICK path \in ProfilePath, target \in Partition :
          /\ Previewable(path, target)
          /\ req' = [req EXCEPT ![p] = [path |-> path, target |-> target,
                        text |-> profiles[path], policy |-> policy, commit |-> head.commit]]
    BY <1>6 DEF AuthPreview
  <2>2. /\ pc' = [pc EXCEPT ![p] = "confirm"] /\ UNCHANGED <<cmd, confirmed>>
        /\ policy.enabled /\ policy.auth[path] = None
    BY <1>6, <2>1 DEF AuthPreview, Goto, Previewable
  <2>3. /\ \A q \in Proc \ {p} : pc'[q] = pc[q] /\ req'[q] = req[q]
        /\ pc'[p] = "confirm" /\ req'[p].path = path /\ req'[p].policy = policy
    BY <2>1, <2>2 DEF TypeInv, TypeOK
  <2> QED BY <2>2, <2>3 DEF RequestInv, GrantOf
<1>7. ASSUME NEW p \in Proc, AuthConfirm(p), ~Refuse(p) PROVE RequestInv'
  <2>1. /\ confirmed' = confirmed \cup {GrantOf(req[p])} /\ pc[p] = "confirm"
        /\ pc' = [pc EXCEPT ![p] = "wait"] /\ UNCHANGED <<cmd, req>>
    BY <1>7 DEF AuthConfirm, GrantOf, Goto, local
  <2> QED BY <2>1 DEF TypeInv, TypeOK, RequestInv, GrantOf
<1>8. ASSUME NEW p \in Proc, AuthCheck(p), ~Refuse(p) PROVE RequestInv'
  BY <1>8 DEF AuthCheck, Enter, Goto, local, TypeInv, TypeOK, RequestInv, GrantOf
<1>11. ASSUME NEW p \in Proc, AuthCompare(p), ~Refuse(p) PROVE RequestInv'
  BY <1>11 DEF AuthCompare, Goto, local, TypeInv, TypeOK, RequestInv, GrantOf
<1>9. ASSUME NEW p \in Proc,
             \/ NewCreate(p) \/ ClaimPrint(p) \/ ResultCommit(p) \/ ObserveCommit(p)
             \/ ArchiveUnlink(p) \/ AuthRecord(p) \/ TearLedger(p) \/ Crash(p)
      PROVE RequestInv'
  BY <1>1, <1>2, <1>9 DEF NewCreate, ClaimPrint, ResultCommit, ObserveCommit, Rewrite,
                          ArchiveUnlink, AuthRecord, TearLedger, Crash
<1>10. CASE Environment \/ UNCHANGED vars
  BY <1>10 DEF Environment, RewindActive, AuditActive, EditFile, EditProfile,
               EditPolicy, CommitTree, Undisturbed, vars, local, RequestInv, GrantOf
<1> QED BY <1>2, <1>3, <1>4, <1>5, <1>6, <1>7, <1>8, <1>9, <1>10, <1>11 DEF Next, Step

\* Between its last comparison and the rename an authorisation sees the policy it
\* previewed, unless the owner has edited it since.
LateInv == \A p \in Proc : pc[p] = "replace" => p \in late \/ policy = req[p].policy

\* Every step keeps it: no other invocation writes the policy meanwhile.
LEMMA LateStep == TypeInv /\ LockInv /\ LateInv /\ [Next]_vars => LateInv'
<1> SUFFICES ASSUME TypeInv, LockInv, LateInv, [Next]_vars PROVE LateInv'
  OBVIOUS
<1>1. ASSUME NEW p \in Proc, NEW step, Goto(p, step), step # "replace",
             UNCHANGED <<policy, late>>, \A q \in Proc \ {p} : req'[q] = req[q]
      PROVE LateInv'
  BY <1>1 DEF Goto, TypeInv, TypeOK, LateInv
<1>2. ASSUME NEW p \in Proc, End(p)
      PROVE  /\ pc'[p] = "idle"
             /\ \A q \in Proc \ {p} : pc'[q] = pc[q] /\ req'[q] = req[q]
  BY <1>2 DEF End, Goto, TypeInv, TypeOK
<1>3. ASSUME NEW p \in Proc, End(p), UNCHANGED <<policy, late>> PROVE LateInv'
  BY <1>2, <1>3 DEF LateInv
<1>4. ASSUME NEW p \in Proc, Refuse(p) PROVE LateInv'
  BY <1>3, <1>4 DEF Refuse, tree
<1>5. ASSUME NEW p \in Proc,
             \/ \E c \in Commands : Start(p, c)
             \/ Acquire(p) \/ NewPrepare(p) \/ ClaimLoad(p) \/ ClaimCheck(p) \/ HashActive(p)
             \/ WriteGuard(p) \/ AppendLedger(p) \/ CompareActive(p) \/ ClaimCommit(p)
             \/ ResultLoad(p) \/ ObserveLoad(p) \/ ArchiveWrite(p) \/ AuthConfirm(p)
             \/ AuthCheck(p),
             ~Refuse(p)
      PROVE LateInv'
  <2>1. UNCHANGED <<policy, late, req>> /\ \E step \in Steps \ {"replace"} : Goto(p, step)
    BY <1>5 DEF Start, Acquire, NewPrepare, ClaimLoad, ClaimCheck, HashActive, WriteGuard,
       AppendLedger, CompareActive, ClaimCommit, ResultLoad, ObserveLoad, ArchiveWrite,
       AuthConfirm, AuthCheck, tree, local, Steps
  <2> QED BY <1>1, <2>1
<1>6. ASSUME NEW p \in Proc, AuthPreview(p), ~Refuse(p) PROVE LateInv'
  <2>1. /\ UNCHANGED <<policy, late>> /\ pc' = [pc EXCEPT ![p] = "confirm"]
        /\ \E q : req' = [req EXCEPT ![p] = q]
    BY <1>6 DEF AuthPreview, Goto, tree
  <2> QED BY <2>1 DEF TypeInv, TypeOK, LateInv
<1>7. ASSUME NEW p \in Proc, AuthCompare(p), ~Refuse(p) PROVE LateInv'
  <2>1. /\ pc' = [pc EXCEPT ![p] = "replace"] /\ policy = req[p].policy
        /\ late' = late \ {p} /\ UNCHANGED <<policy, req>>
    BY <1>7 DEF AuthCompare, PolicyUnchanged, Goto, local
  <2> QED BY <2>1 DEF TypeInv, TypeOK, LateInv
<1>8. ASSUME NEW p \in Proc, AuthRecord(p) PROVE LateInv'
  <2>1. End(p) /\ pc[p] = "replace"
    BY <1>8 DEF AuthRecord
  <2>2. \A q \in Proc : pc'[q] # "replace"
    BY <1>2, <2>1 DEF LockInv, HoldingSteps
  <2> QED BY <2>2 DEF LateInv
<1>9. ASSUME NEW p \in Proc,
             \/ NewCreate(p) \/ ClaimPrint(p) \/ ResultCommit(p) \/ ObserveCommit(p)
             \/ ArchiveUnlink(p) \/ TearLedger(p) \/ Crash(p)
      PROVE LateInv'
  BY <1>3, <1>4, <1>9 DEF NewCreate, ClaimPrint, ResultCommit, ObserveCommit, Rewrite,
                          ArchiveUnlink, TearLedger, Crash, tree
<1>10. CASE EditPolicy
  BY <1>10 DEF EditPolicy, Undisturbed, LateInv
<1>11. CASE \/ RewindActive \/ AuditActive \/ EditFile \/ EditProfile \/ CommitTree
            \/ UNCHANGED vars
  BY <1>11 DEF RewindActive, AuditActive, EditFile, EditProfile, CommitTree, Undisturbed,
               vars, tree, local, LateInv
<1> QED BY <1>4, <1>5, <1>6, <1>7, <1>8, <1>9, <1>10, <1>11 DEF Next, Step, Environment

LockedInv == TypeInv /\ LockInv /\ ActiveInv /\ RequestInv /\ LateInv

\* The engine starts with nothing held, and every step keeps the five parts.
LEMMA LockedInvariant == Spec => []LockedInv
<1>1. Init => LockedInv
  BY TypeInit DEF Init, LockedInv, LockInv, ActiveInv, RequestInv, LateInv, Fits,
                  HoldingSteps
<1>2. LockedInv /\ [Next]_vars => LockedInv'
  BY TypeStep, LockStep, ActiveStep, RequestStep, LateStep DEF LockedInv
<1> QED BY <1>1, <1>2, PTL DEF Spec

\* One step of the active record, and one of the policy.
Advances ==
    active # None /\ ~RewindActive /\ ~AuditActive =>
        IF active' = None THEN archived[active.id] # None
        ELSE /\ active'.id = active.id /\ active'.action = active.action
             /\ active'.obs >= active.obs
             /\ Rank(active'.status) >= Rank(active.status)

AddsOne ==
    policy' # policy /\ ~EditPolicy =>
        /\ active = None
        /\ \E p \in Proc, g \in confirmed :
             /\ pc[p] = "replace"
             /\ req[p].policy = policy \/ p \in late
             /\ req[p].policy.enabled /\ req[p].policy.auth[g.path] = None
             /\ policy' = [req[p].policy EXCEPT !.auth[g.path] =
                              [text |-> g.text, targets |-> {g.target}]]

\* A step that leaves the active record alone.
LEMMA StillAdvances == TypeInv /\ active' = active => Advances
<1> SUFFICES ASSUME TypeInv, active' = active, active # None PROVE Advances
  BY DEF Advances
<1>1. active.obs >= active.obs /\ Rank(active.status) >= Rank(active.status)
  BY DEF TypeInv, TypeOK, Record, Rank
<1> QED BY <1>1 DEF Advances

\* A step of the active record keeps the experiment and takes nothing back.
LEMMA StepAdvances == LockedInv /\ [Next]_vars => Advances
<1> SUFFICES ASSUME LockedInv, [Next]_vars PROVE Advances
  OBVIOUS
<1>0. TypeInv /\ LockInv /\ ActiveInv
  BY DEF LockedInv
<1>1. ASSUME NEW p \in Proc, Refuse(p) PROVE active' = active
  BY <1>1 DEF Refuse, store
<1>2. ASSUME NEW p \in Proc, NewCreate(p) PROVE Advances
  <2>1. active = None \/ active' = active
    BY <1>1, <1>2 DEF NewCreate
  <2> QED BY <1>0, <2>1, StillAdvances DEF Advances
<1>3. ASSUME NEW p \in Proc, pc[p] = "rename"
      PROVE  /\ active # None /\ rec[p] \in Record
             /\ active.id = rec[p].id /\ active.action = rec[p].action
             /\ active.obs <= rec[p].obs /\ Rank(active.status) <= Rank(rec[p].status)
  BY <1>0, <1>3 DEF ActiveInv, Fits, TypeInv, LocalOK
<1>4. ASSUME NEW p \in Proc, ClaimCommit(p) PROVE Advances
  <2>1. active' = [rec[p] EXCEPT !.status = "claimed"] /\ pc[p] = "rename"
        /\ rec[p].status = "ready"
    BY <1>0, <1>4 DEF ClaimCommit, Enter, TypeInv, LocalOK
  <2>2. /\ active'.id = rec[p].id /\ active'.action = rec[p].action
        /\ active'.obs = rec[p].obs /\ active'.status = "claimed" /\ active' # None
    BY <1>3, <2>1 DEF Record
  <2>3. active.obs \in Nat /\ Rank(active.status) \in Nat
    BY <1>0, <1>3, <2>1 DEF TypeInv, TypeOK, Record, Rank
  <2>4. Rank("claimed") = 1 /\ Rank("ready") = 0
    BY DEF Rank
  <2> QED BY <1>3, <2>1, <2>2, <2>3, <2>4 DEF Advances, Record
<1>5. ASSUME NEW p \in Proc, ResultCommit(p) PROVE Advances
  <2>1. active' = [rec[p] EXCEPT !.status = "completed"] /\ pc[p] = "rename"
    BY <1>5 DEF ResultCommit, Rewrite, Enter
  <2>2. /\ active'.id = rec[p].id /\ active'.action = rec[p].action
        /\ active'.obs = rec[p].obs /\ active'.status = "completed" /\ active' # None
    BY <1>3, <2>1 DEF Record
  <2>3. active.obs \in Nat /\ Rank(active.status) \in 0..2
    BY <1>0, <1>3, <2>1 DEF TypeInv, TypeOK, Record, Rank
  <2>4. Rank("completed") = 2
    BY DEF Rank
  <2> QED BY <1>3, <2>1, <2>2, <2>3, <2>4 DEF Advances, Record
<1>6. ASSUME NEW p \in Proc, ObserveCommit(p) PROVE Advances
  <2>1. active' = [rec[p] EXCEPT !.obs = @ + 1] /\ pc[p] = "rename"
    BY <1>6 DEF ObserveCommit, Rewrite, Enter
  <2>2. /\ active'.id = rec[p].id /\ active'.action = rec[p].action
        /\ active'.obs = rec[p].obs + 1 /\ active'.status = rec[p].status
    BY <1>3, <2>1 DEF Record
  <2>3. active' # None
    <3>1. rec[p].obs < MaxObs
      BY <1>0, <1>6 DEF ObserveCommit, Enter, TypeInv, LocalOK
    <3>2. [rec[p] EXCEPT !.obs = @ + 1] \in Record
      BY <1>3, <2>1, <3>1 DEF Record
    <3> QED BY <2>1, <3>2
  <2>4. /\ active.obs \in Nat /\ rec[p].obs \in Nat
        /\ Rank(active.status) \in Nat /\ Rank(rec[p].status) \in Nat
    BY <1>0, <1>3, <2>1 DEF TypeInv, TypeOK, Record, Rank
  <2> QED BY <1>3, <2>1, <2>2, <2>3, <2>4 DEF Advances
<1>7. ASSUME NEW p \in Proc, ArchiveUnlink(p) PROVE Advances
  <2>1. active' = None /\ archived[active.id] # None
    BY <1>0, <1>7 DEF ArchiveUnlink, Enter, ActiveInv, Fits
  <2> QED BY <2>1 DEF Advances
<1>8. ASSUME NEW p \in Proc,
             \/ \E c \in Commands : Start(p, c)
             \/ Acquire(p) \/ NewPrepare(p) \/ ClaimLoad(p) \/ ClaimCheck(p) \/ HashActive(p)
             \/ WriteGuard(p) \/ AppendLedger(p) \/ CompareActive(p) \/ ClaimPrint(p)
             \/ ResultLoad(p) \/ ObserveLoad(p) \/ ArchiveWrite(p) \/ AuthPreview(p)
             \/ AuthConfirm(p) \/ AuthCheck(p) \/ AuthCompare(p) \/ AuthRecord(p)
             \/ TearLedger(p) \/ Crash(p)
      PROVE active' = active
  BY <1>1, <1>8 DEF Start, Acquire, NewPrepare, ClaimLoad, ClaimCheck, HashActive, WriteGuard,
        AppendLedger, CompareActive, ClaimPrint, ResultLoad, ObserveLoad, ArchiveWrite,
        AuthPreview, AuthConfirm, AuthCheck, AuthCompare, AuthRecord, TearLedger, Crash, store
<1>9. CASE EditFile \/ EditProfile \/ EditPolicy \/ CommitTree \/ UNCHANGED vars
  <2>1. active' = active
    BY <1>9 DEF EditFile, EditProfile, EditPolicy, CommitTree, Undisturbed, vars, store
  <2> QED BY <1>0, <2>1, StillAdvances
<1>10. CASE RewindActive \/ AuditActive
  BY <1>10 DEF Advances
<1> QED BY <1>0, <1>2, <1>4, <1>5, <1>6, <1>7, <1>8, <1>9, <1>10, StillAdvances
        DEF Next, Step, Environment

\* A step of the policy is the owner's edit or one confirmed entry.
LEMMA StepAddsOne == LockedInv /\ [Next]_vars => AddsOne
<1> SUFFICES ASSUME LockedInv, [Next]_vars, ~EditPolicy PROVE AddsOne
  BY DEF AddsOne
<1>1. ASSUME NEW p \in Proc, Refuse(p) PROVE policy' = policy
  BY <1>1 DEF Refuse, tree
<1>2. ASSUME NEW p \in Proc, AuthRecord(p) PROVE AddsOne
  <2>1. /\ pc[p] = "replace"
        /\ policy' = [req[p].policy EXCEPT !.auth[req[p].path] =
                         [text |-> req[p].text, targets |-> {req[p].target}]]
    BY <1>2 DEF AuthRecord
  <2>2. /\ active = None /\ req[p].policy.enabled /\ req[p].policy.auth[req[p].path] = None
        /\ GrantOf(req[p]) \in confirmed /\ (req[p].policy = policy \/ p \in late)
    <3>1. active = None
      BY <2>1 DEF LockedInv, ActiveInv, Fits
    <3>2. /\ req[p].policy.enabled /\ req[p].policy.auth[req[p].path] = None
          /\ GrantOf(req[p]) \in confirmed
      BY <2>1 DEF LockedInv, RequestInv
    <3>3. req[p].policy = policy \/ p \in late
      BY <2>1 DEF LockedInv, LateInv
    <3> QED BY <3>1, <3>2, <3>3
  <2>3. PICK g \in confirmed : g = GrantOf(req[p])
    BY <2>2
  <2>4. g.path = req[p].path /\ g.target = req[p].target /\ g.text = req[p].text
    BY <2>3 DEF GrantOf
  <2> QED BY <2>1, <2>2, <2>4 DEF AddsOne
<1>3. ASSUME NEW p \in Proc,
             \/ \E c \in Commands : Start(p, c)
             \/ Acquire(p) \/ AuthConfirm(p) \/ TearLedger(p) \/ Crash(p)
      PROVE policy' = policy
  BY <1>1, <1>3 DEF Start, Acquire, AuthConfirm, TearLedger, Crash, tree
<1>4. ASSUME NEW p \in Proc, Step(p), ~AuthRecord(p) PROVE policy' = policy
  BY <1>1, <1>4 DEF Step, NewPrepare, NewCreate, ClaimLoad, ClaimCheck, HashActive, WriteGuard,
        AppendLedger, CompareActive, ClaimCommit, ClaimPrint, ResultLoad, ResultCommit,
        ObserveLoad, ObserveCommit, Rewrite, ArchiveWrite, ArchiveUnlink, AuthPreview,
        AuthCheck, AuthCompare, tree
<1>5. CASE Environment \/ UNCHANGED vars
  BY <1>5 DEF Environment, RewindActive, AuditActive, EditFile, EditProfile,
              CommitTree, Undisturbed, vars, tree, AddsOne
<1> QED BY <1>1, <1>2, <1>3, <1>4, <1>5 DEF Next, AddsOne

\* For every number of processes, no write of the record or of the policy loses
\* what another invocation did.  A rewrite of the active record, which is loaded,
\* hashed, compared and renamed over in separate steps, keeps its experiment and
\* takes nothing back.  An authorisation adds just what was confirmed to what the
\* policy was when it last compared it; an edit the owner makes after that is the
\* one thing it can undo.
THEOREM NothingLost == Spec => WritesLoseNothing
<1>1. LockedInv /\ [Next]_vars => [Advances]_vars /\ [AddsOne]_vars
  BY StepAdvances, StepAddsOne
<1>2. Spec => [][Advances]_vars
  BY <1>1, LockedInvariant, PTL DEF Spec
<1>3. Spec => [][AddsOne]_vars
  BY <1>1, LockedInvariant, PTL DEF Spec
<1> QED BY <1>2, <1>3 DEF WritesLoseNothing, ActiveOnlyAdvances, AuthorizationAddsOne,
                          Advances, AddsOne

-----------------------------------------------------------------------------
(* Authority: from the owner's prompt, through the policy, to the command.  *)

\* The owner confirmed this text and target, or the policy listed them at first.
Covered(path, text, target) ==
    \/ [path |-> path, target |-> target, text |-> text] \in confirmed
    \/ /\ InitPolicy.auth[path] # None
       /\ InitPolicy.auth[path].text = text
       /\ target \in InitPolicy.auth[path].targets

\* A policy lists nothing else.
Earned(pl) ==
    \A path \in ProfilePath : pl.auth[path] # None =>
        \A target \in pl.auth[path].targets : Covered(path, pl.auth[path].text, target)

\* A partition write has a profile, and the artifact that profile's text pins.
Shaped(a) ==
    a # None /\ Tier(a.op) = "persistent" =>
        a.profile \in ProfilePath /\ a.sha = a.text.sha /\ a.artifact = a.text.artifact

Warranted(a) == Tier(a.op) = "persistent" => Covered(a.profile, a.text, a.target)

\* What a process carries: a well shaped record, earned policies, and after its
\* checks an action the policy it loaded covers.
Carries(p) ==
    /\ rec[p] # None => Shaped(rec[p].action)
    /\ pc[p] = "check" => pol[p] \in Policy /\ Earned(pol[p])
    /\ req[p] # None => Earned(req[p].policy)
    /\ pc[p] \in {"hash", "guard", "append", "commit", "rename", "print"} /\ cmd[p] = "claim" =>
          Warranted(rec[p].action)

AuthorityInv ==
    /\ Earned(policy)
    /\ active # None => Shaped(active.action)
    /\ \A p \in Proc : Carries(p)
    /\ \A i \in DOMAIN issued : Shaped(issued[i].action) /\ Warranted(issued[i].action)

\* What was covered stays covered: the owner's confirmations only accumulate.
LEMMA CoverKept ==
    ASSUME confirmed \subseteq confirmed'
    PROVE  /\ \A pl : Earned(pl) => Earned(pl)'
           /\ \A a : Warranted(a) => Warranted(a)'
BY DEF Earned, Warranted, Covered

\* A step of one process leaves the others where they are.
Alone(p) ==
    \A q \in Proc \ {p} :
        /\ pc'[q] = pc[q] /\ cmd'[q] = cmd[q]
        /\ rec'[q] = rec[q] /\ pol'[q] = pol[q] /\ req'[q] = req[q]

\* So it is enough to see what that process carries, and what it stores.
LEMMA OthersCarry ==
    ASSUME AuthorityInv, confirmed \subseteq confirmed', issued' = issued, NEW p \in Proc,
           Alone(p), Carries(p)', Earned(policy)', active' # None => Shaped(active'.action)
    PROVE  AuthorityInv'
<1>1. ASSUME NEW q \in Proc \ {p} PROVE Carries(q)'
  <2>1. /\ pc'[q] = pc[q] /\ cmd'[q] = cmd[q]
        /\ rec'[q] = rec[q] /\ pol'[q] = pol[q] /\ req'[q] = req[q] /\ Carries(q)
    BY DEF Alone, AuthorityInv
  <2>2. rec'[q] # None => Shaped(rec'[q].action)
    BY <2>1 DEF Carries
  <2>3. pc[q] = "check" => pol[q] \in Policy /\ Earned(pol[q])'
    BY <2>1, CoverKept DEF Carries
  <2>4. req[q] # None => Earned(req[q].policy)'
    BY <2>1, CoverKept DEF Carries
  <2>5. /\ pc'[q] = "check" => pol'[q] \in Policy /\ Earned(pol[q])'
        /\ req'[q] # None => Earned(req[q].policy)'
    BY <2>1, <2>3, <2>4
  <2>6. pc[q] \in {"hash", "guard", "append", "commit", "rename", "print"} /\ cmd[q] = "claim" =>
           Warranted(rec[q].action)'
    BY <2>1, CoverKept DEF Carries
  <2> QED BY <2>1, <2>2, <2>5, <2>6 DEF Carries, Warranted, Earned, Covered, Shaped
<1>2. \A i \in DOMAIN issued : Shaped(issued[i].action) /\ Warranted(issued[i].action)'
  BY CoverKept DEF AuthorityInv
<1> QED BY <1>1, <1>2 DEF AuthorityInv, Warranted, Covered, Shaped

\* A process that ends carries nothing.
LEMMA EndCarries ==
    ASSUME TypeInv, AuthorityInv, NEW p \in Proc, End(p),
           UNCHANGED <<policy, issued, confirmed>>,
           active' # None => Shaped(active'.action)
    PROVE  AuthorityInv'
<1>1. Alone(p) /\ pc'[p] = "idle" /\ rec'[p] = None /\ pol'[p] = None /\ req'[p] = None
  BY DEF End, Goto, Alone, TypeInv, TypeOK
<1>2. Carries(p)'
  BY <1>1 DEF Carries
<1>3. Earned(policy)'
  BY DEF AuthorityInv, Earned, Covered
<1> QED BY <1>1, <1>2, <1>3, OthersCarry

\* One that moves on with what it has needs a warrant only past the checks.
LEMMA MoveCarries ==
    ASSUME TypeInv, AuthorityInv, NEW p \in Proc, UNCHANGED <<policy, issued, rec, pol, req>>,
           confirmed \subseteq confirmed', active' # None => Shaped(active'.action),
           NEW step \in Steps \ {"check"}, Goto(p, step),
           \A q \in Proc \ {p} : cmd'[q] = cmd[q],
           step \in {"hash", "guard", "append", "commit", "rename", "print"} /\ cmd'[p] = "claim"
               => Warranted(rec[p].action)
    PROVE  AuthorityInv'
<1>1. Alone(p) /\ pc'[p] = step /\ rec'[p] = rec[p] /\ pol'[p] = pol[p] /\ req'[p] = req[p]
  BY DEF Goto, Alone, TypeInv, TypeOK
<1>2. Earned(policy)'
  <2>1. Earned(policy)
    BY DEF AuthorityInv
  <2> QED BY <2>1 DEF Earned, Covered
<1>3. /\ rec[p] # None => Shaped(rec[p].action)
      /\ req[p] # None => Earned(req[p].policy)'
  <2>1. Carries(p)
    BY DEF AuthorityInv
  <2> QED BY <2>1 DEF Carries, Earned, Covered
<1>4. pc'[p] \in {"hash", "guard", "append", "commit", "rename", "print"} /\ cmd'[p] = "claim" =>
          Warranted(rec[p].action)'
  BY <1>1 DEF Warranted, Covered
<1>5. Carries(p)'
  BY <1>1, <1>3, <1>4 DEF Carries
<1> QED BY <1>1, <1>2, <1>5, OthersCarry

\* One that loads a record has no warrant yet.
LEMMA LoadCarries ==
    ASSUME TypeInv, AuthorityInv, NEW p \in Proc, NEW r, Shaped(r.action),
           rec' = [rec EXCEPT ![p] = r],
           UNCHANGED <<active, policy, issued, confirmed, cmd, req>>,
           NEW step \in {"create", "check", "hash"}, Goto(p, step),
           pol' = pol \/ pol' = [pol EXCEPT ![p] = policy],
           step = "check" => pol' = [pol EXCEPT ![p] = policy],
           step = "hash" => cmd[p] # "claim"
    PROVE  AuthorityInv'
<1>1. Alone(p) /\ pc'[p] = step /\ rec'[p] = r /\ req'[p] = req[p] /\ cmd'[p] = cmd[p]
      /\ (pol'[p] = pol[p] \/ pol'[p] = policy) /\ (step = "check" => pol'[p] = policy)
  BY DEF Goto, Alone, TypeInv, TypeOK
<1>2. Earned(policy)' /\ Earned(policy) /\ Carries(p) /\ (active # None => Shaped(active.action))
  BY DEF AuthorityInv, Earned, Covered
<1>3. /\ pc'[p] = "check" => Earned(pol[p])'
      /\ req'[p] # None => Earned(req[p].policy)'
  BY <1>1, <1>2 DEF Carries, Earned, Covered
<1>4. policy \in Policy
  BY DEF TypeInv, TypeOK
<1>5. Carries(p)'
  BY <1>1, <1>3, <1>4 DEF Carries
<1> QED BY <1>1, <1>2, <1>5, OthersCarry

\* The actions `new` offers are well shaped: a partition write has its pins from
\* its profile text.
LEMMA OfferedShaped == \A a \in OfferedActions : Shaped(a)
BY DEF OfferedActions, PlainAction, WriteAction, Shaped, Tier

\* What the scope check accepts under an earned policy is warranted.
LEMMA ScopeWarrants ==
    ASSUME NEW pl, NEW a \in Action, Earned(pl), Shaped(a), ScopeCovers(a, pl)
    PROVE  Warranted(a)
BY DEF ScopeCovers, Earned, Warranted, Shaped

\* Every step keeps authority earned.
LEMMA AuthorityStep == LockedInv /\ AuthorityInv /\ [Next]_vars => AuthorityInv'
<1> SUFFICES ASSUME LockedInv, AuthorityInv, [Next]_vars PROVE AuthorityInv'
  OBVIOUS
<1>0. /\ TypeInv /\ RequestInv /\ Earned(policy)
      /\ active # None => Shaped(active.action)
      /\ \A p \in Proc : Carries(p)
  BY DEF LockedInv, AuthorityInv
<1>1. ASSUME NEW p \in Proc, Refuse(p) PROVE AuthorityInv'
  <2>1. End(p) /\ UNCHANGED <<active, policy, issued, confirmed>>
    BY <1>1 DEF Refuse, store, tree
  <2> QED BY <1>0, <2>1, EndCarries
<1>2. ASSUME NEW p \in Proc,
             \/ \E c \in Commands : Start(p, c)
             \/ Acquire(p) \/ HashActive(p) \/ WriteGuard(p) \/ AppendLedger(p)
             \/ CompareActive(p) \/ ArchiveWrite(p) \/ AuthCheck(p) \/ AuthCompare(p)
             \/ AuthConfirm(p),
             ~Refuse(p)
      PROVE AuthorityInv'
  <2>1. /\ UNCHANGED <<active, policy, issued, rec, pol, req>>
        /\ confirmed \subseteq confirmed' /\ \A q \in Proc \ {p} : cmd'[q] = cmd[q]
    BY <1>0, <1>2 DEF Start, Acquire, HashActive, WriteGuard, AppendLedger, CompareActive,
                      ArchiveWrite, AuthCheck, AuthCompare, AuthConfirm, store, tree, local,
                      TypeInv, TypeOK
  <2>2. \E step \in Steps \ {"check"} :
           /\ Goto(p, step)
           /\ step \in {"hash", "guard", "append", "commit", "rename", "print"} =>
                 cmd' = cmd /\ pc[p] \in {"hash", "guard", "append", "commit", "rename"}
    BY <1>2 DEF Start, Acquire, HashActive, WriteGuard, AppendLedger, CompareActive,
                ArchiveWrite, AuthCheck, AuthCompare, AuthConfirm, Steps
  <2>3. pc[p] \in {"hash", "guard", "append", "commit", "rename"} /\ cmd[p] = "claim" =>
           Warranted(rec[p].action)
    BY <1>0 DEF Carries
  <2> QED BY <1>0, <2>1, <2>2, <2>3, MoveCarries
<1>3. ASSUME NEW p \in Proc, ClaimCheck(p), ~Refuse(p) PROVE AuthorityInv'
  <2>1. /\ UNCHANGED <<active, policy, issued, confirmed, rec, pol, req, cmd>>
        /\ Goto(p, "hash") /\ pc[p] = "check" /\ ScopeCovers(rec[p].action, pol[p])
    BY <1>3 DEF ClaimCheck, ClaimChecks, store, tree, local
  <2>2. rec[p] \in Record /\ rec[p].action \in Action /\ pol[p] \in Policy
    BY <1>0, <2>1 DEF TypeInv, LocalOK, Record, Carries
  <2>3. Earned(pol[p]) /\ Shaped(rec[p].action)
    BY <1>0, <2>1, <2>2 DEF Carries
  <2>4. Warranted(rec[p].action)
    BY <2>1, <2>2, <2>3, ScopeWarrants
  <2>5. "hash" \in Steps \ {"check"}
    BY DEF Steps
  <2> QED BY <1>0, <2>1, <2>4, <2>5, MoveCarries
<1>4. ASSUME NEW p \in Proc, NewPrepare(p), ~Refuse(p) PROVE AuthorityInv'
  <2>1. PICK e \in Exp, a \in OfferedActions : \E r \in OfferedRepeats(a) :
          rec' = [rec EXCEPT ![p] = [id |-> e, action |-> a, repeat |-> r,
                                     status |-> "ready", obs |-> 0]]
    BY <1>4 DEF NewPrepare
  <2>2. PICK r \in OfferedRepeats(a) :
          rec' = [rec EXCEPT ![p] = [id |-> e, action |-> a, repeat |-> r,
                                     status |-> "ready", obs |-> 0]]
    BY <2>1
  <2>3. UNCHANGED <<active, policy, issued, confirmed, cmd, req, pol>> /\ Goto(p, "create")
    BY <1>4 DEF NewPrepare, store, tree
  <2>4. PICK new : new = [id |-> e, action |-> a, repeat |-> r, status |-> "ready", obs |-> 0]
    OBVIOUS
  <2>5. Shaped(new.action) /\ rec' = [rec EXCEPT ![p] = new]
    BY <2>2, <2>4, OfferedShaped
  <2> QED BY <1>0, <2>3, <2>5, LoadCarries
<1>5. ASSUME NEW p \in Proc, ClaimLoad(p) \/ ResultLoad(p) \/ ObserveLoad(p), ~Refuse(p)
      PROVE AuthorityInv'
  <2>1. /\ active # None /\ rec' = [rec EXCEPT ![p] = active]
        /\ UNCHANGED <<active, policy, issued, confirmed, cmd, req>>
    BY <1>5 DEF ClaimLoad, Claimable, ResultLoad, TakesResult, ObserveLoad, Observable,
                store, tree
  <2>2. \/ Goto(p, "check") /\ pol' = [pol EXCEPT ![p] = policy]
        \/ Goto(p, "hash") /\ pol' = pol /\ cmd[p] # "claim"
    BY <1>5 DEF ClaimLoad, ResultLoad, ObserveLoad, Enter
  <2>3. Shaped(active.action)
    BY <1>0, <2>1
  <2>4. CASE Goto(p, "check") /\ pol' = [pol EXCEPT ![p] = policy]
    BY <1>0, <2>1, <2>3, <2>4, LoadCarries
  <2>5. CASE Goto(p, "hash") /\ pol' = pol /\ cmd[p] # "claim"
    BY <1>0, <2>1, <2>3, <2>5, LoadCarries
  <2> QED BY <2>2, <2>4, <2>5
<1>6. ASSUME NEW p \in Proc, ClaimCommit(p), ~Refuse(p) PROVE AuthorityInv'
  <2>1. /\ UNCHANGED <<policy, issued, confirmed, rec, pol, req, cmd>> /\ cmd[p] = "claim"
        /\ Goto(p, "print") /\ pc[p] = "rename"
        /\ active' = [rec[p] EXCEPT !.status = "claimed"]
    BY <1>6 DEF ClaimCommit, Enter, tree, local
  <2>2. rec[p] \in Record /\ active'.action = rec[p].action
    BY <1>0, <2>1 DEF TypeInv, LocalOK, Record
  <2>3. Shaped(active'.action) /\ Warranted(rec[p].action)
    BY <1>0, <2>1, <2>2 DEF Carries
  <2>4. "print" \in Steps \ {"check"}
    BY DEF Steps
  <2> QED BY <1>0, <2>1, <2>3, <2>4, MoveCarries
<1>7. ASSUME NEW p \in Proc, ClaimPrint(p) PROVE AuthorityInv'
  <2>1. /\ End(p) /\ UNCHANGED <<active, policy, confirmed>> /\ pc[p] = "print"
        /\ issued' = Append(issued, [id |-> rec[p].id, action |-> rec[p].action,
                                     repeat |-> rec[p].repeat])
    BY <1>7 DEF ClaimPrint, store, tree
  <2>2. cmd[p] = "claim" /\ rec[p] \in Record /\ issued \in Seq(Issue)
    BY <1>0, <2>1 DEF TypeInv, TypeOK, LocalOK
  <2>3. Shaped(rec[p].action) /\ Warranted(rec[p].action)
    BY <1>0, <2>1, <2>2 DEF Carries
  <2>4. \A i \in DOMAIN issued' : \/ issued'[i].action = rec[p].action
                                  \/ i \in DOMAIN issued /\ issued'[i] = issued[i]
    BY <2>1, <2>2
  <2>5. \A i \in DOMAIN issued' : Shaped(issued'[i].action) /\ Warranted(issued'[i].action)
    BY <2>3, <2>4 DEF AuthorityInv
  <2>6. \A i \in DOMAIN issued' : Warranted(issued[i].action)'
    BY <2>1, <2>5 DEF Warranted, Covered
  <2>7. /\ \A q \in Proc \ {p} : /\ pc'[q] = pc[q] /\ cmd'[q] = cmd[q] /\ rec'[q] = rec[q]
                                 /\ pol'[q] = pol[q] /\ req'[q] = req[q]
        /\ pc'[p] = "idle" /\ rec'[p] = None /\ pol'[p] = None /\ req'[p] = None
    BY <1>0, <2>1 DEF End, Goto, TypeInv, TypeOK
  <2>8. \A q \in Proc : Carries(q)'
    BY <1>0, <2>1, <2>7 DEF Carries, Earned, Warranted, Covered
  <2>9. Earned(policy)' /\ (active' # None => Shaped(active'.action))
    BY <1>0, <2>1 DEF Earned, Covered
  <2> QED BY <2>5, <2>6, <2>8, <2>9 DEF AuthorityInv
<1>8. ASSUME NEW p \in Proc, NewCreate(p) \/ ResultCommit(p) \/ ObserveCommit(p), ~Refuse(p)
      PROVE AuthorityInv'
  <2>1. /\ End(p) /\ UNCHANGED <<policy, issued, confirmed>> /\ pc[p] \in {"create", "rename"}
        /\ \/ active' = rec[p]
           \/ active' = [rec[p] EXCEPT !.status = "completed"]
           \/ active' = [rec[p] EXCEPT !.obs = @ + 1]
    BY <1>8 DEF NewCreate, ResultCommit, ObserveCommit, Rewrite, Enter, tree
  <2>2. rec[p] \in Record
    BY <1>0, <2>1 DEF TypeInv, LocalOK
  <2>3. active'.action = rec[p].action
    BY <2>1, <2>2 DEF Record
  <2>4. Shaped(active'.action)
    BY <1>0, <2>2, <2>3 DEF Carries
  <2> QED BY <1>0, <2>1, <2>4, EndCarries
<1>9. ASSUME NEW p \in Proc, ArchiveUnlink(p) \/ TearLedger(p) PROVE AuthorityInv'
  <2>1. End(p) /\ UNCHANGED <<policy, issued, confirmed>> /\ (active' = None \/ active' = active)
    BY <1>9 DEF ArchiveUnlink, TearLedger, tree
  <2> QED BY <1>0, <2>1, EndCarries
<1>10. ASSUME NEW p \in Proc, AuthPreview(p), ~Refuse(p) PROVE AuthorityInv'
  <2>1. PICK path \in ProfilePath, target \in Partition :
          req' = [req EXCEPT ![p] = [path |-> path, target |-> target,
                     text |-> profiles[path], policy |-> policy, commit |-> head.commit]]
    BY <1>10 DEF AuthPreview
  <2>2. /\ UNCHANGED <<active, policy, issued, confirmed, cmd, rec, pol>>
        /\ pc' = [pc EXCEPT ![p] = "confirm"]
    BY <1>10 DEF AuthPreview, Goto, store, tree
  <2>3. /\ Alone(p) /\ pc'[p] = "confirm" /\ rec'[p] = rec[p] /\ pol'[p] = pol[p]
        /\ req'[p].policy = policy
    BY <1>0, <2>1, <2>2 DEF Alone, TypeInv, TypeOK
  <2>4. Earned(policy)' /\ Earned(req[p].policy)'
    BY <1>0, <2>2, <2>3 DEF Earned, Covered
  <2>5. Carries(p)'
    BY <1>0, <2>2, <2>3, <2>4 DEF Carries
  <2> QED BY <1>0, <2>2, <2>3, <2>4, <2>5, OthersCarry
<1>11. ASSUME NEW p \in Proc, AuthRecord(p) PROVE AuthorityInv'
  <2>1. /\ End(p) /\ UNCHANGED <<active, issued, confirmed>> /\ pc[p] = "replace"
        /\ policy' = [req[p].policy EXCEPT !.auth[req[p].path] =
                         [text |-> req[p].text, targets |-> {req[p].target}]]
    BY <1>11 DEF AuthRecord, store
  <2>2. GrantOf(req[p]) \in confirmed /\ req[p] \in Request
    BY <1>0, <2>1 DEF RequestInv, TypeInv, LocalOK
  <2>3. req[p].policy \in Policy /\ Earned(req[p].policy)
    BY <1>0, <2>2 DEF Request, Carries
  <2>4. /\ policy'.auth[req[p].path] = [text |-> req[p].text, targets |-> {req[p].target}]
        /\ \A path \in ProfilePath \ {req[p].path} :
              policy'.auth[path] = req[p].policy.auth[path]
    BY <2>1, <2>2, <2>3 DEF Policy, Request
  <2>5. Covered(req[p].path, req[p].text, req[p].target)
    BY <2>2 DEF Covered, GrantOf
  <2>6. Earned(policy')
    BY <2>3, <2>4, <2>5 DEF Earned
  <2>7. Earned(policy)'
    BY <2>1, <2>6 DEF Earned, Covered
  <2>8. /\ Alone(p) /\ pc'[p] = "idle" /\ rec'[p] = None /\ pol'[p] = None /\ req'[p] = None
    BY <1>0, <2>1 DEF Alone, End, Goto, TypeInv, TypeOK
  <2>9. Carries(p)'
    BY <2>8 DEF Carries
  <2> QED BY <1>0, <2>1, <2>7, <2>8, <2>9, OthersCarry
<1>12. ASSUME NEW p \in Proc, Crash(p) PROVE AuthorityInv'
  BY <1>1, <1>12 DEF Crash
<1>13. ASSUME UNCHANGED <<issued, confirmed, pc, cmd, rec, pol, req>>, Earned(policy'),
              active' # None => Shaped(active'.action)
       PROVE AuthorityInv'
  <2>1. Earned(policy)'
    BY <1>13 DEF Earned, Covered
  <2>2. \A q \in Proc : Carries(q)'
    BY <1>0, <1>13 DEF Carries, Earned, Warranted, Covered
  <2>3. \A i \in DOMAIN issued' : Shaped(issued'[i].action) /\ Warranted(issued[i].action)'
    BY <1>13 DEF AuthorityInv, Warranted, Covered
  <2> QED BY <1>13, <2>1, <2>2, <2>3 DEF AuthorityInv
<1>14. CASE RewindActive
  <2>1. /\ UNCHANGED <<policy, issued, confirmed, pc, cmd, rec, pol, req>> /\ active \in Record
        /\ active' = [active EXCEPT !.status = "ready"]
    BY <1>0, <1>14 DEF RewindActive, tree, local, TypeInv, TypeOK
  <2>2. active'.action = active.action /\ active # None
    BY <2>1 DEF Record
  <2> QED BY <1>0, <1>13, <2>1, <2>2
<1>17. CASE AuditActive
  <2>1. /\ UNCHANGED <<policy, issued, confirmed, pc, cmd, rec, pol, req>> /\ active' = None
    BY <1>17 DEF AuditActive, tree, local
  <2> QED BY <1>0, <1>13, <2>1
<1>15. CASE EditPolicy
  <2>1. UNCHANGED <<active, issued, confirmed, pc, cmd, rec, pol, req>> /\ policy \in Policy
    BY <1>0, <1>15 DEF EditPolicy, Undisturbed, store, local, TypeInv, TypeOK
  <2>2. \A path \in ProfilePath :
           policy'.auth[path] = policy.auth[path] \/ policy'.auth[path] = None
    BY <1>15, <2>1 DEF EditPolicy, Policy
  <2>3. Earned(policy')
    BY <1>0, <2>2 DEF Earned
  <2> QED BY <1>0, <1>13, <2>1, <2>3
<1>16. CASE EditFile \/ EditProfile \/ CommitTree \/ UNCHANGED vars
  <2>1. UNCHANGED <<active, policy, issued, confirmed, pc, cmd, rec, pol, req>>
    BY <1>16 DEF EditFile, EditProfile, CommitTree, Undisturbed, vars, store, tree, local
  <2> QED BY <1>0, <1>13, <2>1
<1> QED BY <1>1, <1>2, <1>3, <1>4, <1>5, <1>6, <1>7, <1>8, <1>9, <1>10, <1>11, <1>12,
           <1>14, <1>15, <1>16, <1>17 DEF Next, Step, Environment

\* For every instance, a partition write is printed only under the owner's
\* authority: what the policy says is what was confirmed, also when it was
\* previewed without the lock, and the record that is claimed has that text,
\* that target and the artifact the text pins.
THEOREM WritesAuthorized == Spec => []IssuedAsAuthorized
<1>1. Init => AuthorityInv
  BY DEF Init, AuthorityInv, Earned, Covered, Carries
<1>2. LockedInv /\ AuthorityInv /\ [Next]_vars => AuthorityInv'
  BY AuthorityStep
<1>3. TypeOK /\ AuthorityInv => IssuedAsAuthorized
  <2> SUFFICES ASSUME TypeOK, AuthorityInv, NEW i \in DOMAIN issued,
                      Tier(issued[i].action.op) = "persistent"
               PROVE  /\ issued[i].action.sha = issued[i].action.text.sha
                      /\ issued[i].action.artifact = issued[i].action.text.artifact
                      /\ Covered(issued[i].action.profile, issued[i].action.text,
                                 issued[i].action.target)
    BY DEF IssuedAsAuthorized, Covered
  <2>1. issued \in Seq(Issue)
    BY DEF TypeOK
  <2>2. issued[i] \in Issue
    BY <2>1
  <2>3. issued[i].action # None
    BY <2>2 DEF Issue
  <2> QED BY <2>3 DEF AuthorityInv, Shaped, Warranted
<1>4. LockedInv => TypeOK
  BY DEF LockedInv, TypeInv
<1> QED BY <1>1, <1>2, <1>3, <1>4, LockedInvariant, PTL DEF Spec

-----------------------------------------------------------------------------
(* Repeats.                                                                 *)

\* A claim past its checks, whose command is not printed yet.
Late(p) == pc[p] \in {"hash", "guard", "append", "commit", "rename", "print"} /\ cmd[p] = "claim"

\* Two claims or commands for one partition write, and one that names an
\* archived experiment.
Clash(x, y) == Tier(x.action.op) = "persistent" /\ SameAction(LineOf(x), y.action)
Cited(x) == x.repeat # None /\ archived[x.repeat.prior] # None

RepeatInv ==
    /\ \A i, j \in DOMAIN issued : i # j /\ Clash(issued[i], issued[j])
          => Cited(issued[i]) \/ Cited(issued[j])
    /\ \A p \in Proc, i \in DOMAIN issued : Late(p) /\ Clash(issued[i], rec[p])
          => Cited(issued[i]) \/ Cited(rec[p])
    /\ \A p, q \in Proc : p # q /\ Late(p) /\ Late(q) /\ Clash(rec[p], rec[q])
          => Cited(rec[p]) \/ Cited(rec[q])

LEMMA ClashSymmetric == \A x, y : Clash(x, y) => Clash(y, x)
BY DEF Clash, SameAction, LineOf

\* A step after which no other claim is past its checks, nothing more is
\* printed, and archived records are still there.
Calm ==
    /\ \A p \in Proc : Late(p)' => Late(p) /\ rec'[p] = rec[p]
    /\ issued' = issued
    /\ \A e \in Exp : archived[e] # None => archived'[e] # None

Checking(p) == ClaimCheck(p) /\ ~Refuse(p)

\* Every step is calm, lets one claim past its checks, or prints one command.
LEMMA RepeatKinds ==
    ASSUME TypeInv, [Next]_vars
    PROVE  Calm \/ \E p \in Proc : Checking(p) \/ ClaimPrint(p)
<1>0. TypeOK /\ LocalOK
  BY DEF TypeInv
<1>1. ASSUME NEW p \in Proc, End(p), UNCHANGED <<archived, issued>> PROVE Calm
  BY <1>0, <1>1 DEF End, Goto, TypeOK, Calm, Late
<1>2. ASSUME NEW p \in Proc, Refuse(p) PROVE Calm
  BY <1>1, <1>2 DEF Refuse, store
<1>3. ASSUME NEW p \in Proc, NEW step, Goto(p, step), UNCHANGED <<archived, issued>>,
             \A q \in Proc \ {p} : cmd'[q] = cmd[q] /\ rec'[q] = rec[q],
             \/ step \notin {"hash", "guard", "append", "commit", "rename", "print"}
             \/ cmd'[p] # "claim"
             \/ UNCHANGED <<cmd, rec>> /\ pc[p] \in {"hash", "guard", "append", "commit", "rename"}
      PROVE Calm
  BY <1>0, <1>3 DEF Goto, TypeOK, Calm, Late
<1>4. ASSUME NEW p \in Proc,
             \/ \E c \in Commands : Start(p, c)
             \/ Acquire(p) \/ AuthPreview(p) \/ AuthConfirm(p) \/ AuthCheck(p)
             \/ AuthCompare(p) \/ NewPrepare(p) \/ ClaimLoad(p),
             ~Refuse(p)
      PROVE Calm
  <2>1. /\ UNCHANGED <<archived, issued>>
        /\ \E step \in {"preview", "wait", "locked", "confirm", "record", "replace", "create",
                        "check"} : Goto(p, step)
    BY <1>4 DEF Start, Acquire, AuthPreview, AuthConfirm, AuthCheck, AuthCompare, NewPrepare,
                ClaimLoad, store
  <2>2. \A q \in Proc \ {p} : cmd'[q] = cmd[q]
    BY <1>0, <1>4 DEF Start, Acquire, AuthPreview, AuthConfirm, AuthCheck, AuthCompare,
                      NewPrepare, ClaimLoad, local, TypeOK
  <2>3. \A q \in Proc \ {p} : rec'[q] = rec[q]
    <3>1. rec' = rec \/ \E r : rec' = [rec EXCEPT ![p] = r]
      BY <1>4 DEF Start, Acquire, AuthPreview, AuthConfirm, AuthCheck, AuthCompare,
                  NewPrepare, ClaimLoad, local
    <3> QED BY <1>0, <3>1 DEF TypeOK
  <2> QED BY <1>3, <2>1, <2>2, <2>3
<1>5. ASSUME NEW p \in Proc, ResultLoad(p) \/ ObserveLoad(p), ~Refuse(p) PROVE Calm
  <2>1. /\ UNCHANGED <<archived, issued, cmd>> /\ cmd[p] # "claim" /\ Goto(p, "hash")
        /\ rec' = [rec EXCEPT ![p] = active]
    BY <1>5 DEF ResultLoad, ObserveLoad, Enter, store
  <2>2. \A q \in Proc \ {p} : cmd'[q] = cmd[q] /\ rec'[q] = rec[q]
    BY <1>0, <2>1 DEF TypeOK
  <2> QED BY <1>3, <2>1, <2>2
<1>6. ASSUME NEW p \in Proc,
             \/ HashActive(p) \/ WriteGuard(p) \/ AppendLedger(p) \/ CompareActive(p)
             \/ ClaimCommit(p),
             ~Refuse(p)
      PROVE Calm
  <2>1. /\ UNCHANGED <<archived, issued, cmd, rec>>
        /\ pc[p] \in {"hash", "guard", "append", "commit", "rename"}
        /\ \E step \in Steps : Goto(p, step)
    BY <1>6 DEF HashActive, WriteGuard, AppendLedger, CompareActive, ClaimCommit, Enter, store,
                local, Steps
  <2> QED BY <1>3, <2>1
<1>7. ASSUME NEW p \in Proc, ArchiveWrite(p), ~Refuse(p) PROVE Calm
  <2>1. /\ UNCHANGED <<issued, cmd, rec>> /\ pc' = [pc EXCEPT ![p] = "unlink"]
        /\ archived' = [archived EXCEPT ![active.id] = active] /\ active # None
    BY <1>7 DEF ArchiveWrite, Archivable, Goto, local
  <2> QED BY <1>0, <2>1 DEF TypeOK, Calm, Late
<1>8. ASSUME NEW p \in Proc,
             \/ NewCreate(p) \/ ResultCommit(p) \/ ObserveCommit(p) \/ ArchiveUnlink(p)
             \/ AuthRecord(p) \/ TearLedger(p) \/ Crash(p)
      PROVE Calm
  BY <1>1, <1>2, <1>8 DEF NewCreate, ResultCommit, ObserveCommit, Rewrite, ArchiveUnlink,
                          AuthRecord, TearLedger, Crash, store
<1>9. CASE Environment \/ UNCHANGED vars
  BY <1>9 DEF Environment, RewindActive, AuditActive, EditFile, EditProfile,
              EditPolicy, CommitTree, Undisturbed, vars, store, local, Calm, Late
<1> QED BY <1>2, <1>4, <1>5, <1>6, <1>7, <1>8, <1>9 DEF Next, Step, Checking

\* A claim that passes its checks cites an archived experiment, if what it asks
\* for was printed or is about to be: that is in the ledger, because the lock
\* lets another claim be past its checks only once it has written its line.
LEMMA CheckCites ==
    ASSUME RecordInv, LockInv, NEW p \in Proc, Checking(p)
    PROVE  /\ \A i \in DOMAIN issued : Clash(issued[i], rec[p]) => Cited(rec[p])
           /\ \A q \in Proc \ {p} : Late(q) /\ Clash(rec[q], rec[p]) => Cited(rec[p])
<1>1. pc[p] = "check" /\ ClaimChecks(rec[p], pol[p])
  BY DEF Checking, ClaimCheck
<1>2. ASSUME NEW x, Clash(x, rec[p]), OnRecord(x) PROVE Cited(rec[p])
  <2>1. Tier(rec[p].action.op) = "persistent"
    BY <1>2 DEF Clash, SameAction, LineOf
  <2>2. RepeatAllowed(rec[p])
    BY <1>1, <2>1 DEF ClaimChecks
  <2>3. PICK line \in ledger : SameAction(line, x.action)
    BY <1>2 DEF OnRecord
  <2>4. line \in ReadableLedger /\ SameAction(line, rec[p].action)
    BY <1>2, <2>3 DEF ReadableLedger, Clash, SameAction, LineOf
  <2> QED BY <2>2, <2>4 DEF RepeatAllowed, Cited
<1>3. ASSUME NEW q \in Proc \ {p}, Late(q) PROVE OnRecord(rec[q])
  <2>1. pc[q] = "print" /\ cmd[q] = "claim"
    BY <1>1, <1>3 DEF LockInv, HoldingSteps, Late
  <2> QED BY <2>1 DEF RecordInv, ProcBacked
<1> QED BY <1>2, <1>3 DEF RecordInv, StoreBacked

\* Every step keeps clashing claims and commands guarded.
LEMMA RepeatStep ==
    ASSUME RecordInv, LockInv, RepeatInv, [Next]_vars
    PROVE  RepeatInv'
<1>0. /\ \A p \in Proc : Late(p) => rec[p] \in Record
      /\ issued \in Seq(Issue)
  BY DEF RecordInv, LedgerInv, TypeInv, TypeOK, LocalOK, Late
<1>1. \A i \in DOMAIN issued : issued[i] \in Issue
  BY <1>0
<1>2. CASE Calm
  <2>1. /\ \A i \in DOMAIN issued : Cited(issued[i]) => Cited(issued[i])'
        /\ \A p \in Proc : Late(p)' /\ Cited(rec[p]) => Cited(rec[p])'
    BY <1>0, <1>1, <1>2 DEF Calm, Cited, Issue, Record, RepeatGuard
  <2> QED BY <1>2, <2>1 DEF RepeatInv, Calm, Clash, LineOf
<1>3. ASSUME NEW p \in Proc, Checking(p) PROVE RepeatInv'
  <2>1. /\ UNCHANGED <<issued, rec, archived, cmd>> /\ pc' = [pc EXCEPT ![p] = "hash"]
    BY <1>3 DEF Checking, ClaimCheck, Goto, store, local
  <2>2. /\ \A q \in Proc \ {p} : Late(q)' => Late(q)
        /\ \A x : Cited(x)' <=> Cited(x)
    BY <2>1 DEF RecordInv, LedgerInv, TypeInv, TypeOK, Late, Cited
  <2>3. \A i \in DOMAIN issued : Clash(issued[i], rec[p]) => Cited(rec[p])
    BY <1>3, CheckCites
  <2>4. \A q \in Proc \ {p} : Late(q) /\ Clash(rec[q], rec[p]) => Cited(rec[p])
    BY <1>3, CheckCites
  <2>5. \A q \in Proc \ {p} : Late(q) /\ Clash(rec[p], rec[q]) => Cited(rec[p])
    BY <2>4, ClashSymmetric
  <2>6. /\ \A i \in DOMAIN issued : Cited(issued[i])' <=> Cited(issued[i])
        /\ \A q \in Proc : Cited(rec[q])' <=> Cited(rec[q])
    BY <2>1 DEF Cited
  <2> QED BY <2>1, <2>2, <2>3, <2>4, <2>5, <2>6 DEF RepeatInv, Clash, LineOf
<1>4. ASSUME NEW p \in Proc, ClaimPrint(p) PROVE RepeatInv'
  <2>1. PICK new : new = [id |-> rec[p].id, action |-> rec[p].action, repeat |-> rec[p].repeat]
    OBVIOUS
  <2>2. /\ issued' = Append(issued, new) /\ End(p) /\ archived' = archived /\ pc[p] = "print"
    BY <1>4, <2>1 DEF ClaimPrint, store
  <2>3. Late(p)
    BY <2>2 DEF RecordInv, LedgerInv, TypeInv, LocalOK, Late
  <2>4. \A q \in Proc : Late(q)' => q # p /\ Late(q) /\ rec'[q] = rec[q]
    BY <2>2 DEF RecordInv, LedgerInv, TypeInv, TypeOK, End, Goto, Late
  <2>5. /\ DOMAIN issued = 1..Len(issued) /\ DOMAIN issued' = 1..(Len(issued) + 1)
        /\ Len(issued) \in Nat /\ issued'[Len(issued) + 1] = new
        /\ \A i \in DOMAIN issued : issued'[i] = issued[i]
    BY <1>0, <2>2
  <2>6. /\ \A y : Clash(new, y) <=> Clash(rec[p], y)
        /\ \A y : Clash(y, new) <=> Clash(y, rec[p])
        /\ (Cited(new) <=> Cited(rec[p]))
    BY <2>1 DEF Clash, LineOf, SameAction, Cited
  <2>7. \A i \in DOMAIN issued' : i \in DOMAIN issued \/ i = Len(issued) + 1
    BY <2>5
  <2>8. \A i \in DOMAIN issued : /\ Clash(issued[i], new) => Cited(issued[i]) \/ Cited(new)
                                 /\ Clash(new, issued[i]) => Cited(issued[i]) \/ Cited(new)
    BY <2>3, <2>6, ClashSymmetric DEF RepeatInv
  <2>9. \A q \in Proc : Late(q)' /\ Clash(new, rec[q]) => Cited(new) \/ Cited(rec[q])
    BY <2>3, <2>4, <2>6 DEF RepeatInv
  <2>10. \A i, j \in DOMAIN issued' : i # j /\ Clash(issued'[i], issued'[j])
            => Cited(issued'[i]) \/ Cited(issued'[j])
    BY <2>5, <2>7, <2>8 DEF RepeatInv
  <2>11. \A q \in Proc, i \in DOMAIN issued' : Late(q)' /\ Clash(issued'[i], rec[q])
            => Cited(issued'[i]) \/ Cited(rec[q])
    BY <2>4, <2>5, <2>7, <2>9 DEF RepeatInv
  <2>12. \A q, r \in Proc : q # r /\ Late(q)' /\ Late(r)' /\ Clash(rec[q], rec[r])
            => Cited(rec[q]) \/ Cited(rec[r])
    BY <2>4 DEF RepeatInv
  <2>13. /\ \A i \in DOMAIN issued' : Cited(issued'[i]) <=> Cited(issued[i])'
         /\ \A q \in Proc : Late(q)' => (Cited(rec[q]) <=> Cited(rec[q])')
    BY <2>2, <2>4 DEF Cited
  <2> QED BY <2>4, <2>10, <2>11, <2>12, <2>13 DEF RepeatInv, Clash, LineOf
<1> QED BY <1>2, <1>3, <1>4, RepeatKinds DEF RecordInv, LedgerInv

\* For every number of processes, of two printed partition writes of one
\* artifact to one target one cites an archived experiment, although claims are
\* printed after the lock was released and may tear the ledger.
THEOREM RepeatsAreGuarded == Spec => []RepeatIsGuarded
<1>1. Init => RecordInv /\ RepeatInv /\ LockInv
  BY TypeInit DEF Init, RecordInv, LedgerInv, OwnOK, Owns, AtMostOneIssue, TornOK, LinesOK,
                  StoreBacked, ProcBacked, Backed, RepeatInv, Late, LockInv, HoldingSteps
<1>2. RecordInv /\ LockInv /\ RepeatInv /\ [Next]_vars => RecordInv' /\ LockInv' /\ RepeatInv'
  BY LedgerStep, BackedStep, LockStep, RepeatStep DEF RecordInv, LedgerInv
<1>3. RepeatInv => RepeatIsGuarded
  <2> SUFFICES ASSUME RepeatInv, NEW i \in DOMAIN issued, NEW j \in DOMAIN issued, i # j,
                      Clash(issued[i], issued[j])
               PROVE  \E k \in {i, j} : Cited(issued[k])
    BY DEF RepeatIsGuarded, Clash, Cited
  <2>1. Cited(issued[i]) \/ Cited(issued[j])
    BY DEF RepeatInv
  <2> QED BY <2>1
<1> QED BY <1>1, <1>2, <1>3, PTL DEF Spec

-----------------------------------------------------------------------------
(* The end of an invocation.                                                *)

\* How many steps an invocation has left at most, counted from each of them.
StepsLeft(step) ==
    CASE step = "preview" -> 11 [] step = "confirm" -> 10 [] step = "wait" -> 9
      [] step = "locked" -> 8 [] step = "check" -> 7 [] step = "hash" -> 6
      [] step = "guard" -> 5 [] step = "append" -> 4 [] step = "commit" -> 3
      [] step \in {"rename", "record"} -> 2
      [] step \in {"create", "print", "unlink", "replace"} -> 1
      [] OTHER -> 0

Left(p) == StepsLeft(pc[p])

\* A step that brings the end of p nearer, and nobody else's.
Nearer(p) == /\ Left(p)' < Left(p)
             /\ \A q \in Proc \ {p} : Left(q)' = Left(q)

InvocationCount ==
    /\ \A p \in Proc : Acquire(p) \/ Step(p) \/ AuthConfirm(p) \/ TearLedger(p) \/ Crash(p)
           => Nearer(p)
    /\ \A p \in Proc, c \in Commands : Start(p, c) =>
           \A q \in Proc \ {p} : Left(q)' = Left(q)
    /\ Environment => \A p \in Proc : Left(p)' = Left(p)

\* The steps that each subcommand takes under the lock.
OwnSteps(c) ==
    {"locked"} \cup CASE c = "claim" -> {"check", "hash", "guard", "append", "commit", "rename"}
                      [] c = "preflight" -> {"check"}
                      [] c \in {"result", "observe"} -> {"hash", "commit", "rename"}
                      [] c = "new" -> {"create"}
                      [] c = "archive" -> {"unlink"}
                      [] c = "authorize" -> {"record", "replace"}

\* The owner of the lock is at a step of its subcommand, and each of those goes
\* on or refuses: it waits for nobody.
OwnerGoesOn ==
    lock # None => cmd[lock] \in AllCommands /\ pc[lock] \in OwnSteps(cmd[lock])

\* Only a process that is still to give the lock back has it, and what it was
\* asked to do is what it does.
OwnerInv ==
    /\ \A p \in Proc : lock = p => pc[p] \in HoldingSteps
    /\ \A p \in Proc : /\ pc[p] \in {"wait", "locked"} => cmd[p] \in AllCommands
                       /\ pc[p] = "create" => cmd[p] = "new"
                       /\ pc[p] = "unlink" => cmd[p] = "archive"

\* The end of a process ends what it owned.
LEMMA EndKeepsOwner ==
    ASSUME TypeInv, OwnerInv, NEW p \in Proc, End(p)
    PROVE  OwnerInv'
BY DEF TypeInv, TypeOK, OwnerInv, End, Goto, Unlock

\* A process that moves on, with its lock if it had it, fits its subcommand.
LEMMA MoveKeepsOwner ==
    ASSUME TypeInv, OwnerInv, NEW p \in Proc, NEW step, Goto(p, step),
           lock' = lock, cmd' = cmd,
           pc[p] \in HoldingSteps => step \in HoldingSteps,
           step \in {"wait", "locked"} => cmd[p] \in AllCommands,
           step = "create" => cmd[p] = "new",
           step = "unlink" => cmd[p] = "archive"
    PROVE  OwnerInv'
BY DEF TypeInv, TypeOK, OwnerInv, Goto

\* Every step keeps it.
LEMMA OwnerStep == TypeInv /\ OwnerInv /\ [Next]_vars => OwnerInv'
<1> SUFFICES ASSUME TypeInv, OwnerInv, [Next]_vars PROVE OwnerInv'
  OBVIOUS
<1>1. ASSUME NEW p \in Proc, Refuse(p) PROVE OwnerInv'
  BY <1>1, EndKeepsOwner DEF Refuse
<1>2. ASSUME NEW p \in Proc, NEW c \in Commands, Start(p, c) PROVE OwnerInv'
  <2>1. /\ cmd' = [cmd EXCEPT ![p] = c] /\ c \in AllCommands
        /\ pc[p] = "idle" /\ lock' = lock
        /\ pc' = [pc EXCEPT ![p] = IF c = "authorize" THEN "preview" ELSE "wait"]
    BY <1>2 DEF Start, Goto
  <2> QED BY <2>1 DEF TypeInv, TypeOK, OwnerInv, HoldingSteps
<1>3. ASSUME NEW p \in Proc, Acquire(p) PROVE OwnerInv'
  BY <1>3 DEF Acquire, LockFree, Goto, TypeInv, TypeOK, OwnerInv, HoldingSteps, local
<1>4. ASSUME NEW p \in Proc,
             \/ NewPrepare(p) \/ ClaimLoad(p) \/ ClaimCheck(p) \/ HashActive(p)
             \/ WriteGuard(p) \/ AppendLedger(p) \/ CompareActive(p) \/ ResultLoad(p)
             \/ ObserveLoad(p) \/ ArchiveWrite(p) \/ AuthCheck(p) \/ AuthCompare(p),
             ~Refuse(p)
      PROVE OwnerInv'
  <2>1. /\ lock' = lock /\ cmd' = cmd
        /\ \E step \in HoldingSteps \ {"locked"} :
              /\ Goto(p, step)
              /\ step = "create" => cmd[p] = "new"
              /\ step = "unlink" => cmd[p] = "archive"
    BY <1>4 DEF NewPrepare, ClaimLoad, ClaimCheck, HashActive, WriteGuard, AppendLedger,
                CompareActive, ResultLoad, ObserveLoad, ArchiveWrite, AuthCheck, AuthCompare,
                Enter, HoldingSteps, local
  <2> QED BY <2>1, MoveKeepsOwner DEF HoldingSteps
<1>5. ASSUME NEW p \in Proc, AuthPreview(p) \/ AuthConfirm(p), ~Refuse(p) PROVE OwnerInv'
  <2>1. /\ lock' = lock /\ cmd' = cmd /\ pc[p] \notin HoldingSteps
        /\ \E step \in {"confirm", "wait"} : Goto(p, step)
        /\ cmd[p] = "authorize"
    BY <1>5 DEF AuthPreview, AuthConfirm, HoldingSteps, TypeInv, LocalOK
  <2> QED BY <2>1, MoveKeepsOwner DEF AllCommands
<1>6. ASSUME NEW p \in Proc, ClaimCommit(p), ~Refuse(p) PROVE OwnerInv'
  BY <1>6 DEF ClaimCommit, Goto, Unlock, TypeInv, TypeOK, OwnerInv
<1>7. ASSUME NEW p \in Proc,
             \/ NewCreate(p) \/ ClaimPrint(p) \/ ResultCommit(p) \/ ObserveCommit(p)
             \/ ArchiveUnlink(p) \/ AuthRecord(p) \/ TearLedger(p) \/ Crash(p)
      PROVE OwnerInv'
  BY <1>1, <1>7, EndKeepsOwner DEF NewCreate, ClaimPrint, ResultCommit, ObserveCommit,
     Rewrite, ArchiveUnlink, AuthRecord, TearLedger, Crash
<1>8. CASE Environment \/ UNCHANGED vars
  BY <1>8 DEF Environment, RewindActive, AuditActive, EditFile, EditProfile,
              EditPolicy, CommitTree, Undisturbed, vars, OwnerInv
<1> QED BY <1>1, <1>2, <1>3, <1>4, <1>5, <1>6, <1>7, <1>8 DEF Next, Step

\* A step that takes one process to a later step brings its end nearer.
LEMMA MoveIsNearer ==
    ASSUME TypeInv, NEW p \in Proc, NEW step \in Steps, Goto(p, step),
           StepsLeft(step) < StepsLeft(pc[p])
    PROVE  Nearer(p)
BY DEF TypeInv, TypeOK, Goto, Left, Nearer

LEMMA EndIsNearer ==
    ASSUME TypeInv, NEW p \in Proc, End(p), pc[p] # "idle"
    PROVE  Nearer(p)
<1>1. StepsLeft("idle") < StepsLeft(pc[p])
  BY DEF TypeInv, TypeOK, Steps, StepsLeft
<1> QED BY <1>1, MoveIsNearer DEF End, Steps

\* The steps of an invocation count it down.
LEMMA CountsDown == TypeInv /\ [Next]_vars => [InvocationCount]_vars
<1> SUFFICES ASSUME TypeInv, Next PROVE InvocationCount
  OBVIOUS
<1>1. ASSUME NEW p \in Proc, Refuse(p), pc[p] # "idle" PROVE Nearer(p)
  BY <1>1, EndIsNearer DEF Refuse
<1>2. ASSUME NEW p \in Proc,
             \/ NewPrepare(p) \/ ClaimLoad(p) \/ ResultLoad(p) \/ ObserveLoad(p)
             \/ ArchiveWrite(p) \/ AuthCheck(p)
      PROVE Nearer(p)
  <2>1. pc[p] = "locked"
    BY <1>2 DEF NewPrepare, ClaimLoad, ResultLoad, ObserveLoad, ArchiveWrite, AuthCheck, Enter
  <2>2. \/ Refuse(p)
        \/ \E step \in {"create", "check", "hash", "unlink", "record"} : Goto(p, step)
    BY <1>2 DEF NewPrepare, ClaimLoad, ResultLoad, ObserveLoad, ArchiveWrite, AuthCheck
  <2> QED BY <1>1, <2>1, <2>2, MoveIsNearer DEF StepsLeft, Steps
<1>3. ASSUME NEW p \in Proc,
             \/ ClaimCheck(p) \/ HashActive(p) \/ WriteGuard(p) \/ AppendLedger(p)
             \/ CompareActive(p) \/ ClaimCommit(p) \/ AuthPreview(p) \/ AuthConfirm(p)
             \/ AuthCompare(p) \/ Acquire(p)
      PROVE Nearer(p)
  <2>1. CASE Refuse(p)
    <3>1. pc[p] # "idle"
      BY <1>3 DEF ClaimCheck, HashActive, WriteGuard, AppendLedger, CompareActive, ClaimCommit,
                  AuthPreview, AuthConfirm, AuthCompare, Acquire, Enter
    <3> QED BY <1>1, <2>1, <3>1
  <2>2. CASE ~Refuse(p)
    <3>1. \E step \in Steps : Goto(p, step) /\ StepsLeft(step) < StepsLeft(pc[p])
      BY <1>3, <2>2 DEF ClaimCheck, HashActive, WriteGuard, AppendLedger, CompareActive,
         ClaimCommit, AuthPreview, AuthConfirm, AuthCompare, Acquire, Enter, StepsLeft, Steps
    <3> QED BY <3>1, MoveIsNearer
  <2> QED BY <2>1, <2>2
<1>4. ASSUME NEW p \in Proc,
             \/ NewCreate(p) \/ ClaimPrint(p) \/ ResultCommit(p) \/ ObserveCommit(p)
             \/ ArchiveUnlink(p) \/ AuthRecord(p) \/ TearLedger(p) \/ Crash(p)
      PROVE Nearer(p)
  <2>1. pc[p] # "idle" /\ End(p)
    BY <1>4 DEF NewCreate, ClaimPrint, ResultCommit, ObserveCommit, Rewrite, ArchiveUnlink,
                AuthRecord, TearLedger, Crash, Refuse, Enter
  <2> QED BY <2>1, EndIsNearer
<1>5. ASSUME NEW p \in Proc, NEW c \in Commands, Start(p, c), NEW q \in Proc \ {p}
      PROVE Left(q)' = Left(q)
  BY <1>5 DEF Start, Goto, Left, TypeInv, TypeOK
<1>6. ASSUME Environment, NEW p \in Proc PROVE Left(p)' = Left(p)
  BY <1>6 DEF Environment, RewindActive, AuditActive, EditFile, EditProfile,
              EditPolicy, CommitTree, Undisturbed, Left
<1> QED BY <1>2, <1>3, <1>4, <1>5, <1>6 DEF InvocationCount, Step

\* An invocation of the engine that has started has at most eleven more steps of
\* its own to take; none of those, and nothing that others do, puts its end off.
\* Whoever holds the lock can go on by itself: it waits neither for the lock nor
\* at the owner's prompt.
THEOREM InvocationsCountDown ==
    Spec => /\ [](OwnerGoesOn /\ \A p \in Proc : Left(p) \in 0..11)
            /\ [][InvocationCount]_vars
<1>1. Init => OwnerInv
  BY DEF Init, OwnerInv
<1>2. TypeInv /\ OwnerInv => OwnerGoesOn
  <2> SUFFICES ASSUME TypeInv, OwnerInv, lock # None
               PROVE  cmd[lock] \in AllCommands /\ pc[lock] \in OwnSteps(cmd[lock])
    BY DEF OwnerGoesOn
  <2>1. PICK p \in Proc : lock = p
    BY DEF TypeInv, TypeOK
  <2>2. pc[p] \in HoldingSteps
    BY <2>1 DEF OwnerInv
  <2>3. CASE pc[p] \in {"locked", "create", "unlink"}
    BY <2>1, <2>3 DEF OwnerInv, OwnSteps, AllCommands
  <2>4. CASE pc[p] \in {"check", "hash", "guard", "append", "commit", "rename", "record",
                        "replace"}
    BY <2>1, <2>4 DEF TypeInv, LocalOK, OwnSteps, AllCommands
  <2> QED BY <2>2, <2>3, <2>4 DEF HoldingSteps
<1>3. TypeInv => \A p \in Proc : Left(p) \in 0..11
  BY DEF TypeInv, TypeOK, Steps, Left, StepsLeft
<1> QED BY <1>1, <1>2, <1>3, TypeInit, TypeStep, OwnerStep, CountsDown, PTL DEF Spec
=============================================================================
