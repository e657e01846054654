----------------------------- MODULE Governance -----------------------------
(***************************************************************************)
(* The bringup governance engine, src/scripts/bringup_loop.py: at most one *)
(* active experiment record; a claim that commits a replay guard, a ledger *)
(* line and the record, and only then prints the one device command; the   *)
(* archive of completed records; and the owner's interactive authorisation *)
(* of a persistent profile.                                                *)
(*                                                                         *)
(* Every invocation of the engine is a process.  The steps between which   *)
(* another process, a hand edit or a host failure can intervene are        *)
(* separate actions; a step whose check fails refuses, which ends the      *)
(* process and gives the lock back.  A hash is modelled by the content it  *)
(* is the hash of, so equal hashes are equal contents (and sizes).         *)
(***************************************************************************)
EXTENDS Naturals, Sequences

CONSTANTS
    Exp,            \* experiment identifiers
    Proc,           \* engine invocations that may run at the same time
    Partition,      \* constants.json partition_targets
    File,           \* repository paths of artifacts, rollbacks and reports
    Content,        \* contents of those files
    ProfilePath,    \* paths under profiles/
    ProfileText,    \* contents of profile files
    Report,         \* the paths offered as --repeat-evidence-report
    Ops,            \* the operations the operators ask for in this instance
    Commands,       \* the subcommands the operators run in this instance
    Disturbances,   \* what happens to the repository behind the engine's back
    InitPolicy, InitProfiles, InitFiles,
    MaxObs,         \* bound on the observations of one record
    MaxCommits,     \* bound on the git commits made
    None,
    Absent          \* what a key that is not in a ledger line reads as

AllCommands == {"new", "claim", "preflight", "result", "observe", "archive", "authorize"}

Operation == {"device_reboot", "ram_boot", "runtime_handoff", "partition_write"}

\* OPERATIONS: operation -> tier, fixed target, artifact required?
Tier(op) == CASE op = "device_reboot" -> "volatile"
              [] op = "partition_write" -> "persistent"
              [] OTHER -> "ram_rw"

FixedTarget(op) == CASE op = "device_reboot" -> "device"
                     [] op = "ram_boot" -> "ram"
                     [] OTHER -> "initramfs"

\* What a record says is to be done; None for a read_only record.
Action == [op : Operation, target : Partition \cup {"device", "ram", "initramfs"},
           profile : ProfilePath \cup {None}, text : ProfileText \cup {None},
           artifact : File \cup {None}, sha : Content \cup {None},
           rollback : File \cup {None}, rollbackSha : Content \cup {None}]

RepeatGuard == [prior : Exp, report : File, sha : Content]

Record == [id : Exp, action : Action \cup {None}, repeat : RepeatGuard \cup {None},
           status : {"ready", "claimed", "completed"}, obs : 0..MaxObs]

\* A line of claims.log as _ledger_lines reads it; a spoiled value is Absent too.
LedgerLine == [id : Exp \cup {Absent}, op : Operation \cup {Absent},
               target : Partition \cup {"device", "ram", "initramfs", Absent},
               sha : Content \cup {None, Absent}]

Entry  == [text : ProfileText, targets : SUBSET Partition]

Policy == [enabled : BOOLEAN, scopes : SUBSET Operation,
           auth : [ProfilePath -> Entry \cup {None}]]

\* What the owner is shown, and confirms by typing its digest.
Request == [path : ProfilePath, target : Partition, text : ProfileText,
            policy : Policy, commit : 0..MaxCommits]

Grant == [path : ProfilePath, target : Partition, text : ProfileText]

\* What `claim` prints for the operator to run.
Issue == [id : Exp, action : Action, repeat : RepeatGuard \cup {None}]

ASSUME TextAssumption ==
    ProfileText \subseteq [target : Partition, artifact : File, sha : Content,
                           rollback : File, rollbackSha : Content]
ASSUME NoneAssumption ==
    /\ None \notin Proc /\ None \notin Exp /\ None \notin Record
    /\ None \notin Action /\ None \notin RepeatGuard /\ None \notin LedgerLine
    /\ None \notin Entry /\ None \notin Request /\ None \notin ProfileText
ASSUME AbsentAssumption ==
    Absent \notin Exp \cup Operation \cup Partition \cup Content
                  \cup {"device", "ram", "initramfs", None}
ASSUME InstanceAssumption ==
    /\ Commands \subseteq AllCommands /\ Report \subseteq File
    /\ InitPolicy \in Policy
    /\ InitProfiles \in [ProfilePath -> ProfileText]
    /\ InitFiles \in [File -> Content]
    /\ MaxObs \in Nat /\ MaxCommits \in Nat

VARIABLES
    active,     \* bringup-active.json: a record, or None in safe idle
    guards,     \* experiments that have a .claim-guard.json
    ledger,     \* the lines of claims.log that end in a newline
    tail,       \* a torn last line of claims.log, which has none; or None
    archived,   \* bringup-completed/<id>.json
    policy, profiles, files,        \* the working tree
    head,       \* git HEAD: the commit and its policy and profiles
    lock,       \* the process holding the flock on .lock
    pc, cmd,    \* per process: its next step, and its subcommand
    rec,        \* per process: the record it loaded or prepared
    seen,       \* per process: the active record it hashed
    pol,        \* per process: the policy it loaded
    req,        \* per process: the authorisation it previewed
    issued,     \* history: the commands printed, in order
    confirmed,  \* history: what the owner confirmed at the prompt
    late        \* history: who had compared the policy when the owner edited it

store == <<active, guards, ledger, tail, archived>>
tree  == <<policy, profiles, files, head, late>>
local == <<rec, seen, pol, req>>
vars  == <<store, tree, lock, pc, cmd, local, issued, confirmed>>

Init ==
    /\ active = None /\ guards = {} /\ ledger = {} /\ tail = None
    /\ archived = [e \in Exp |-> None]
    /\ policy = InitPolicy /\ profiles = InitProfiles /\ files = InitFiles
    /\ head = [commit |-> 0, policy |-> InitPolicy, profiles |-> InitProfiles]
    /\ lock = None
    /\ pc = [p \in Proc |-> "idle"] /\ cmd = [p \in Proc |-> "none"]
    /\ rec = [p \in Proc |-> None] /\ seen = [p \in Proc |-> None]
    /\ pol = [p \in Proc |-> None] /\ req = [p \in Proc |-> None]
    /\ issued = << >> /\ confirmed = {} /\ late = {}

-----------------------------------------------------------------------------
(* Processes and the governance lock.                                       *)

Goto(p, step) == pc' = [pc EXCEPT ![p] = step]

\* Mutant: the end of a process leaves the lock behind.
UnlockForgotten(p) == lock' = lock

\* Closing the lock's descriptor, which the end of a process does too.
Unlock(p) == lock' = IF lock = p THEN None ELSE lock

\* The process ends, normally, by a refusal or by a crash.
End(p) ==
    /\ Goto(p, "idle") /\ cmd' = [cmd EXCEPT ![p] = "none"]
    /\ rec' = [rec EXCEPT ![p] = None] /\ seen' = [seen EXCEPT ![p] = None]
    /\ pol' = [pol EXCEPT ![p] = None] /\ req' = [req EXCEPT ![p] = None]
    /\ Unlock(p)

Refuse(p) == End(p) /\ UNCHANGED <<store, tree, issued, confirmed>>

Start(p, c) ==
    /\ pc[p] = "idle" /\ c \in Commands
    /\ cmd' = [cmd EXCEPT ![p] = c]
    /\ Goto(p, IF c = "authorize" THEN "preview" ELSE "wait")
    /\ UNCHANGED <<store, tree, lock, local, issued, confirmed>>

\* governance_lock: a blocking exclusive flock.
LockFree == lock = None

Acquire(p) ==
    /\ pc[p] = "wait" /\ LockFree
    /\ lock' = p /\ Goto(p, "locked")
    /\ UNCHANGED <<store, tree, cmd, local, issued, confirmed>>

\* A process dies, or an operating system call of its step fails.
Crash(p) == pc[p] # "idle" /\ Refuse(p)

Enter(p, c, step) == pc[p] = step /\ cmd[p] = c

-----------------------------------------------------------------------------
(* new: prepare a record whose pins are computed from the working tree, and *)
(* write the active file where there is none.                               *)

Pinned(f, content) == files[f] = content

\* load_partition_profile: the profile has an entry for the target, a rollback
\* to the same target with another hash, and both pinned files match.
ProfileLoads(path, target) ==
    LET t == profiles[path] IN
    /\ t.target = target /\ t.sha # t.rollbackSha
    /\ Pinned(t.artifact, t.sha) /\ Pinned(t.rollback, t.rollbackSha)

PlainAction(op, artifact) ==
    [op |-> op, target |-> FixedTarget(op), profile |-> None, text |-> None,
     artifact |-> artifact, sha |-> IF artifact = None THEN None ELSE files[artifact],
     rollback |-> None, rollbackSha |-> None]

WriteAction(path) ==
    LET t == profiles[path] IN
    [op |-> "partition_write", target |-> t.target, profile |-> path, text |-> t,
     artifact |-> t.artifact, sha |-> t.sha,
     rollback |-> t.rollback, rollbackSha |-> t.rollbackSha]

\* The actions a well-formed command line can ask for now.
OfferedActions ==
    {None} \cup
    {a \in {PlainAction(op, None) : op \in {"device_reboot", "runtime_handoff"}}
           \cup {PlainAction("ram_boot", f) : f \in File}
           \cup {WriteAction(path) : path \in {q \in ProfilePath :
                                                  ProfileLoads(q, profiles[q].target)}} :
        a.op \in Ops}

OfferedRepeats(action) ==
    {None} \cup IF action = None \/ action.op # "partition_write" THEN {}
                ELSE {[prior |-> e, report |-> f, sha |-> files[f]] : e \in Exp, f \in Report}

NewPrepare(p) ==
    /\ Enter(p, "new", "locked")
    /\ \/ /\ active = None
          /\ \E e \in Exp, a \in OfferedActions : \E r \in OfferedRepeats(a) :
                rec' = [rec EXCEPT ![p] = [id |-> e, action |-> a, repeat |-> r,
                                           status |-> "ready", obs |-> 0]]
          /\ Goto(p, "create")
          /\ UNCHANGED <<store, tree, lock, cmd, seen, pol, req, issued, confirmed>>
       \/ active # None /\ Refuse(p)

\* atomic_write_repo_json with must_not_exist looks for the file and renames
\* over its name later.  Nothing but the holder of the lock makes an active
\* record where there is none, so the two are one step here.
NewCreate(p) ==
    /\ Enter(p, "new", "create")
    /\ \/ /\ active = None
          /\ active' = rec[p]
          /\ End(p)
          /\ UNCHANGED <<guards, ledger, tail, archived, tree, issued, confirmed>>
       \/ active # None /\ Refuse(p)

-----------------------------------------------------------------------------
(* claim and preflight.                                                     *)

\* Mutants: what was archived, not what was claimed, is barred; a guard without
\* its ledger line does not count.
ArchivedIsGuard(e) == archived[e] # None
LedgeredIsGuard(e) == e \in guards /\ \E line \in ledger : line.id = e

ClaimGuardExists(e) == e \in guards

Claimable == /\ active # None /\ active.action # None /\ active.status = "ready"
             /\ ~ClaimGuardExists(active.id)

\* cmd_claim up to the guard check: the policy is loaded before the record.
ClaimLoad(p) ==
    /\ pc[p] = "locked" /\ cmd[p] \in {"claim", "preflight"}
    /\ \/ /\ Claimable
          /\ rec' = [rec EXCEPT ![p] = active] /\ pol' = [pol EXCEPT ![p] = policy]
          /\ Goto(p, "check")
          /\ UNCHANGED <<store, tree, lock, cmd, seen, req, issued, confirmed>>
       \/ ~Claimable /\ Refuse(p)

\* Mutant: the profile's path is authorised, whatever its text.
PathCovers(a, pl) ==
    /\ pl.enabled
    /\ IF Tier(a.op) = "persistent"
       THEN pl.auth[a.profile] # None /\ a.target \in pl.auth[a.profile].targets
       ELSE a.op \in pl.scopes

\* _resolve_scope
ScopeCovers(a, pl) ==
    /\ pl.enabled
    /\ IF Tier(a.op) = "persistent"
       THEN /\ pl.auth[a.profile] # None
            /\ pl.auth[a.profile].text = a.text
            /\ a.target \in pl.auth[a.profile].targets
            /\ profiles[a.profile] = a.text
       ELSE a.op \in pl.scopes

SameAction(line, a) == line.op = a.op /\ line.target = a.target /\ line.sha = a.sha

\* _ledger_lines: a torn last line is read like any other.
ReadableLedger == ledger \cup ({tail} \ {None})

\* Mutant: the prior experiment is not looked up.
RepeatDeclared(r) ==
    \/ \A line \in ReadableLedger : ~SameAction(line, r.action)
    \/ r.repeat # None /\ Pinned(r.repeat.report, r.repeat.sha)

\* _check_repeat_guard
RepeatAllowed(r) ==
    \/ \A line \in ReadableLedger : ~SameAction(line, r.action)
    \/ /\ r.repeat # None
       /\ archived[r.repeat.prior] # None
       /\ Pinned(r.repeat.report, r.repeat.sha)

ClaimChecks(r, pl) ==
    /\ ScopeCovers(r.action, pl)
    /\ r.action.artifact # None => Pinned(r.action.artifact, r.action.sha)
    /\ Tier(r.action.op) = "persistent" =>
          Pinned(r.action.rollback, r.action.rollbackSha) /\ RepeatAllowed(r)

ClaimCheck(p) ==
    /\ pc[p] = "check"
    /\ \/ /\ ClaimChecks(rec[p], pol[p]) /\ cmd[p] = "claim"
          /\ Goto(p, "hash")
          /\ UNCHANGED <<store, tree, lock, cmd, local, issued, confirmed>>
       \/ /\ ~ClaimChecks(rec[p], pol[p]) \/ cmd[p] = "preflight"
          /\ Refuse(p)

\* hash_repo_regular_file on the active record: what the rewrite expects to
\* find.  It is taken after the record was loaded.
HashActive(p) ==
    /\ pc[p] = "hash"
    /\ \/ /\ active # None
          /\ seen' = [seen EXCEPT ![p] = active]
          /\ Goto(p, IF cmd[p] = "claim" THEN "guard" ELSE "commit")
          /\ UNCHANGED <<store, tree, lock, cmd, rec, pol, req, issued, confirmed>>
       \/ active = None /\ Refuse(p)

\* _write_claim_guard: O_CREAT | O_EXCL
WriteGuard(p) ==
    /\ pc[p] = "guard"
    /\ \/ /\ ~ClaimGuardExists(rec[p].id)
          /\ guards' = guards \cup {rec[p].id}
          /\ Goto(p, "append")
          /\ UNCHANGED <<active, ledger, tail, archived, tree, lock, cmd, local,
                         issued, confirmed>>
       \/ ClaimGuardExists(rec[p].id) /\ Refuse(p)

LineOf(r) == [id |-> r.id, op |-> r.action.op, target |-> r.action.target,
              sha |-> r.action.sha]

\* What can be read of a line that was cut after n of the four keys above; a
\* value that was itself cut says nothing.
Fragment(line, n) ==
    [id     |-> IF n >= 1 THEN line.id ELSE Absent,
     op     |-> IF n >= 2 THEN line.op ELSE Absent,
     target |-> IF n >= 3 THEN line.target ELSE Absent,
     sha    |-> IF n >= 4 THEN line.sha ELSE Absent]

\* A torn line has no newline: what is appended next continues it, and is read
\* as part of it.  The later of two equal keys counts.  The first token of the
\* new text is experiment_id=...: it keeps its key only where the tear fell
\* between two tokens, else it spoils the value it is glued to and the line
\* goes under the torn experiment, or under none.
Glued(torn, line) ==
    LET Later(new, old) == IF new = Absent THEN {old, Absent} ELSE {new} IN
    {[id |-> e, op |-> o, target |-> t, sha |-> c] :
        e \in {torn.id, line.id} \cup (IF torn.op = Absent THEN {Absent} ELSE {}),
        o \in Later(line.op, torn.op), t \in Later(line.target, torn.target),
        c \in Later(line.sha, torn.sha)}

\* How the text of a line reads at the end of claims.log.
Appended(line) == IF tail = None THEN {line} ELSE Glued(tail, line)

\* Mutant: a short write is taken for a complete one.
AppendUnchecked(p) ==
    /\ pc[p] = "append" /\ tail' = LineOf(rec[p])
    /\ Goto(p, "commit")
    /\ UNCHANGED <<active, guards, ledger, archived, tree, lock, cmd, local, issued, confirmed>>

\* _append_ledger_line: the whole line, with its newline.
AppendLedger(p) ==
    /\ pc[p] = "append"
    /\ \E line \in Appended(LineOf(rec[p])) : ledger' = ledger \cup {line}
    /\ tail' = None
    /\ Goto(p, "commit")
    /\ UNCHANGED <<active, guards, archived, tree, lock, cmd, local, issued, confirmed>>

\* The host fails while the line is being written.
TearLedger(p) ==
    /\ pc[p] = "append" /\ "tear" \in Disturbances
    /\ \E n \in 0..4 : tail' \in Appended(Fragment(LineOf(rec[p]), n))
    /\ End(p)
    /\ UNCHANGED <<active, guards, ledger, archived, tree, issued, confirmed>>

\* atomic_write_repo_json with expected_sha256 compares the file with what was
\* hashed, once more after the new text is written, and renames over it in a
\* step of its own: what changes the file in between is overwritten.
Unchanged(p) == active = seen[p]

CompareActive(p) ==
    /\ pc[p] = "commit"
    /\ \/ /\ Unchanged(p) /\ Goto(p, "rename")
          /\ UNCHANGED <<store, tree, lock, cmd, local, issued, confirmed>>
       \/ ~Unchanged(p) /\ Refuse(p)

ClaimCommit(p) ==
    /\ Enter(p, "claim", "rename")
    /\ active' = [rec[p] EXCEPT !.status = "claimed"]
    /\ Goto(p, "print") /\ Unlock(p)
    /\ UNCHANGED <<guards, ledger, tail, archived, tree, cmd, local, issued, confirmed>>

\* print("exact_command=...") after the lock was released.
ClaimPrint(p) ==
    /\ pc[p] = "print"
    /\ issued' = Append(issued, [id |-> rec[p].id, action |-> rec[p].action,
                                 repeat |-> rec[p].repeat])
    /\ End(p)
    /\ UNCHANGED <<store, tree, confirmed>>

-----------------------------------------------------------------------------
(* result, observe, archive.                                                *)

\* A read_only record takes its result when ready, any other when claimed.
TakesResult ==
    active # None /\ active.status = IF active.action = None THEN "ready" ELSE "claimed"

ResultLoad(p) ==
    /\ Enter(p, "result", "locked")
    /\ \/ /\ TakesResult
          /\ rec' = [rec EXCEPT ![p] = active] /\ Goto(p, "hash")
          /\ UNCHANGED <<store, tree, lock, cmd, seen, pol, req, issued, confirmed>>
       \/ ~TakesResult /\ Refuse(p)

\* observe accepts a record of any status; MaxObs is the model's bound.
Observable == active # None /\ active.obs < MaxObs

ObserveLoad(p) ==
    /\ Enter(p, "observe", "locked")
    /\ \/ /\ Observable
          /\ rec' = [rec EXCEPT ![p] = active] /\ Goto(p, "hash")
          /\ UNCHANGED <<store, tree, lock, cmd, seen, pol, req, issued, confirmed>>
       \/ ~Observable /\ Refuse(p)

Rewrite(p, r) ==
    /\ active' = r
    /\ End(p)
    /\ UNCHANGED <<guards, ledger, tail, archived, tree, issued, confirmed>>

ResultCommit(p) ==
    /\ Enter(p, "result", "rename")
    /\ Rewrite(p, [rec[p] EXCEPT !.status = "completed"])

ObserveCommit(p) ==
    /\ Enter(p, "observe", "rename")
    /\ Rewrite(p, [rec[p] EXCEPT !.obs = @ + 1])

Archivable == /\ active # None /\ active.status = "completed"
              /\ archived[active.id] = None

\* _cmd_archive_locked up to the destination's rename: only the holder of the
\* lock writes there, so that no name appears between the check and the rename.
ArchiveWrite(p) ==
    /\ Enter(p, "archive", "locked")
    /\ \/ /\ Archivable
          /\ archived' = [archived EXCEPT ![active.id] = active]
          /\ Goto(p, "unlink")
          /\ UNCHANGED <<active, guards, ledger, tail, tree, lock, cmd, local,
                         issued, confirmed>>
       \/ ~Archivable /\ Refuse(p)

ArchiveUnlink(p) ==
    /\ Enter(p, "archive", "unlink")
    /\ active' = None
    /\ End(p)
    /\ UNCHANGED <<guards, ledger, tail, archived, tree, issued, confirmed>>

-----------------------------------------------------------------------------
(* authorize-profile: a preview without the lock, the owner's confirmation, *)
(* and the same checks again under the lock before the policy is rewritten. *)

\* _capture_authorization_tcb: working tree and index are exactly HEAD.
TreeIsHead(path) == head.policy = policy /\ head.profiles[path] = profiles[path]

Previewable(path, target) ==
    /\ TreeIsHead(path) /\ policy.enabled /\ active = None
    /\ ProfileLoads(path, target)
    /\ policy.auth[path] = None

AuthPreview(p) ==
    /\ pc[p] = "preview"
    /\ \E path \in ProfilePath, target \in Partition :
       \/ /\ Previewable(path, target)
          /\ req' = [req EXCEPT ![p] = [path |-> path, target |-> target,
                        text |-> profiles[path], policy |-> policy, commit |-> head.commit]]
          /\ Goto(p, "confirm")
          /\ UNCHANGED <<store, tree, lock, cmd, rec, seen, pol, issued, confirmed>>
       \/ ~Previewable(path, target) /\ Refuse(p)

\* The owner types the digest of the preview, or anything else.
AuthConfirm(p) ==
    /\ pc[p] = "confirm"
    /\ \/ /\ confirmed' = confirmed \cup {[path |-> req[p].path, target |-> req[p].target,
                                           text |-> req[p].text]}
          /\ Goto(p, "wait")
          /\ UNCHANGED <<store, tree, lock, cmd, local, issued>>
       \/ Refuse(p)

StillAsPreviewed(q) ==
    /\ TreeIsHead(q.path) /\ head.commit = q.commit
    /\ policy = q.policy /\ active = None
    /\ ProfileLoads(q.path, q.target) /\ profiles[q.path] = q.text

AuthCheck(p) ==
    /\ Enter(p, "authorize", "locked")
    /\ \/ /\ StillAsPreviewed(req[p]) /\ Goto(p, "record")
          /\ UNCHANGED <<store, tree, lock, cmd, local, issued, confirmed>>
       \/ ~StillAsPreviewed(req[p]) /\ Refuse(p)

\* Mutant: the policy is replaced without comparing it.
PolicyUnchecked(q) == TRUE

PolicyUnchanged(q) == policy = q.policy

AuthCompare(p) ==
    /\ pc[p] = "record"
    /\ \/ /\ PolicyUnchanged(req[p]) /\ Goto(p, "replace")
          /\ late' = late \ {p}
          /\ UNCHANGED <<store, policy, profiles, files, head, lock, cmd, local,
                         issued, confirmed>>
       \/ ~PolicyUnchanged(req[p]) /\ Refuse(p)

AuthRecord(p) ==
    /\ pc[p] = "replace"
    /\ policy' = [req[p].policy EXCEPT !.auth[req[p].path] =
                      [text |-> req[p].text, targets |-> {req[p].target}]]
    /\ End(p)
    /\ UNCHANGED <<store, profiles, files, head, late, issued, confirmed>>

-----------------------------------------------------------------------------
(* What happens to the repository outside the engine.                       *)

\* A checkout or a backup brings back the record as it was before the claim.
RewindActive ==
    /\ "rewind" \in Disturbances
    /\ active # None /\ active.status # "ready"
    /\ active' = [active EXCEPT !.status = "ready"]
    /\ UNCHANGED <<guards, ledger, tail, archived, tree, lock, pc, cmd, local,
                   issued, confirmed>>

\* A claim that stopped half-way leaves a ready record nobody can claim, archive
\* or replace; the owner audits it by hand, while no invocation is at work, and
\* takes it away.
AuditActive ==
    /\ "audit" \in Disturbances
    /\ active # None /\ active.status = "ready" /\ ClaimGuardExists(active.id)
    /\ LockFree
    /\ active' = None
    /\ UNCHANGED <<guards, ledger, tail, archived, tree, lock, pc, cmd, local,
                   issued, confirmed>>

Undisturbed == UNCHANGED <<store, lock, pc, cmd, local, issued, confirmed>>

EditFile ==
    /\ "files" \in Disturbances
    /\ \E f \in File, c \in Content : files' = [files EXCEPT ![f] = c]
    /\ UNCHANGED <<policy, profiles, head, late>> /\ Undisturbed

EditProfile ==
    /\ "profiles" \in Disturbances
    /\ \E path \in ProfilePath, t \in ProfileText : profiles' = [profiles EXCEPT ![path] = t]
    /\ UNCHANGED <<policy, files, head, late>> /\ Undisturbed

\* The owner edits policy.json, which takes no lock: the master switch, or
\* revoking an entry.
EditPolicy ==
    /\ "policy" \in Disturbances
    /\ \/ \E b \in BOOLEAN : policy' = [policy EXCEPT !.enabled = b]
       \/ \E path \in ProfilePath : policy' = [policy EXCEPT !.auth[path] = None]
    /\ late' = late \cup {p \in Proc : pc[p] = "replace"}
    /\ UNCHANGED <<profiles, files, head>> /\ Undisturbed

CommitTree ==
    /\ "commit" \in Disturbances /\ head.commit < MaxCommits
    /\ head' = [commit |-> head.commit + 1, policy |-> policy, profiles |-> profiles]
    /\ UNCHANGED <<policy, profiles, files, late>> /\ Undisturbed

-----------------------------------------------------------------------------
\* The steps a running process takes by itself, without waiting for the lock
\* or for the owner.
Step(p) ==
    \/ NewPrepare(p) \/ NewCreate(p)
    \/ ClaimLoad(p) \/ ClaimCheck(p) \/ HashActive(p) \/ WriteGuard(p)
    \/ AppendLedger(p) \/ CompareActive(p) \/ ClaimCommit(p) \/ ClaimPrint(p)
    \/ ResultLoad(p) \/ ResultCommit(p) \/ ObserveLoad(p) \/ ObserveCommit(p)
    \/ ArchiveWrite(p) \/ ArchiveUnlink(p)
    \/ AuthPreview(p) \/ AuthCheck(p) \/ AuthCompare(p) \/ AuthRecord(p)

Environment ==
    RewindActive \/ AuditActive \/ EditFile \/ EditProfile \/ EditPolicy \/ CommitTree

Next ==
    \/ \E p \in Proc : \/ \E c \in Commands : Start(p, c)
                       \/ Acquire(p) \/ Step(p) \/ AuthConfirm(p)
                       \/ TearLedger(p) \/ Crash(p)
    \/ Environment

Spec == Init /\ [][Next]_vars

\* A process that can run does run, and the kernel hands a released flock to
\* every waiter in turn.  Nothing forces the owner to answer the prompt, an
\* operator to start a command, or a host to fail.
FairSpec == Spec /\ \A p \in Proc : WF_vars(Step(p)) /\ SF_vars(Acquire(p))
-----------------------------------------------------------------------------
(* Properties.                                                              *)

Steps == {"idle", "wait", "locked", "create", "check", "hash", "guard", "append",
          "commit", "rename", "print", "unlink", "preview", "confirm", "record", "replace"}

\* Every variable holds what the engine's files and processes can hold.
TypeOK ==
    /\ active \in Record \cup {None} /\ guards \in SUBSET Exp
    /\ ledger \in SUBSET LedgerLine /\ tail \in LedgerLine \cup {None}
    /\ archived \in [Exp -> Record \cup {None}]
    /\ policy \in Policy /\ profiles \in [ProfilePath -> ProfileText]
    /\ files \in [File -> Content]
    /\ head \in [commit : 0..MaxCommits, policy : Policy,
                 profiles : [ProfilePath -> ProfileText]]
    /\ lock \in Proc \cup {None}
    /\ pc \in [Proc -> Steps] /\ cmd \in [Proc -> AllCommands \cup {"none"}]
    /\ rec \in [Proc -> Record \cup {None}] /\ seen \in [Proc -> Record \cup {None}]
    /\ pol \in [Proc -> Policy \cup {None}] /\ req \in [Proc -> Request \cup {None}]
    /\ issued \in Seq(Issue) /\ confirmed \in SUBSET Grant /\ late \in SUBSET Proc

\* The command of one experiment is printed at most once, whatever processes
\* race, wherever a claim stops, and even when the active record is brought
\* back to its state before the claim ("can never print or issue its command
\* again", notes/bringup-claims/README.md).
AtMostOneIssue ==
    \A i, j \in DOMAIN issued : issued[i].id = issued[j].id => i = j

Owns(p, e) ==
    pc[p] \in {"append", "commit", "rename", "print"} /\ cmd[p] = "claim" /\ rec[p].id = e

\* A claim of e wrote its guard and stopped; its command was never printed.
Stopped(e) ==
    /\ e \in guards
    /\ \A p \in Proc : ~Owns(p, e)
    /\ \A i \in DOMAIN issued : issued[i].id # e

\* The experiment has its guard, and the ledger a line of its action: under its
\* own id, unless an earlier claim tore the line it was appended to.
OnRecord(r) ==
    /\ r.id \in guards
    /\ \E line \in ledger :
          /\ SameAction(line, r.action)
          /\ line.id \in {r.id, Absent} \/ Stopped(line.id)

\* What was claimed is on record, wherever a claim stops between its three
\* writes and whatever line a tear leaves behind: every printed command and
\* every record that says it was claimed has its guard and a line of its
\* action, and no line puts another action under the id of a printed command.
\* The code promises no more: after a tear the line may name the experiment
\* that was torn, or none.
ClaimsOnRecord ==
    /\ \A i \in DOMAIN issued : OnRecord(issued[i])
    /\ \A r \in {active} \cup {archived[e] : e \in Exp} :
          r # None /\ r.action # None /\ r.status # "ready" => OnRecord(r)
    /\ \A line \in ledger, i \in DOMAIN issued :
          line.id = issued[i].id => SameAction(line, issued[i].action)

\* Of two printed partition writes of the same artifact to the same target one
\* carries a repeat guard that names an archived experiment, although claims
\* may tear the ledger they are recognised by.
RepeatIsGuarded ==
    \A i, j \in DOMAIN issued :
        /\ i # j
        /\ Tier(issued[i].action.op) = "persistent"
        /\ SameAction(LineOf(issued[i]), issued[j].action)
        => \E k \in {i, j} : /\ issued[k].repeat # None
                             /\ archived[issued[k].repeat.prior] # None

\* A claim that stopped after its guard was written is never taken up again:
\* no process goes on with that experiment and its command is not printed.
PartialClaimIsFinal ==
    [][\A e \in Exp : e \in guards /\ (\A p \in Proc : ~Owns(p, e)) =>
           /\ \A p \in Proc : ~Owns(p, e)'
           /\ \A i \in DOMAIN issued' \ DOMAIN issued : issued'[i].id # e]_vars

\* Guards, ledger lines and archived records are never removed or replaced.
EvidenceAppendOnly ==
    [][/\ guards \subseteq guards' /\ ledger \subseteq ledger'
       /\ \A e \in Exp : archived[e] # None => archived'[e] = archived[e]]_vars

Rank(status) == CASE status = "ready" -> 0 [] status = "claimed" -> 1 [] OTHER -> 2

\* A rewrite of the active record keeps the experiment and its action, loses no
\* observation and never takes its status back; a record that goes away is in
\* the archive.  Only a restore or the owner's audit may take it back or away.
ActiveOnlyAdvances ==
    [][active # None /\ ~RewindActive /\ ~AuditActive =>
         IF active' = None THEN archived[active.id] # None
         ELSE /\ active'.id = active.id /\ active'.action = active.action
              /\ active'.obs >= active.obs
              /\ Rank(active'.status) >= Rank(active.status)]_vars

\* A partition write is printed only for what the owner confirmed, or what the
\* policy listed from the start: that profile text and target, and the artifact
\* the text pins.
IssuedAsAuthorized ==
    \A i \in DOMAIN issued :
        LET a == issued[i].action IN
        Tier(a.op) = "persistent" =>
            /\ a.sha = a.text.sha /\ a.artifact = a.text.artifact
            /\ \/ [path |-> a.profile, target |-> a.target, text |-> a.text] \in confirmed
               \/ /\ InitPolicy.auth[a.profile] # None
                  /\ InitPolicy.auth[a.profile].text = a.text
                  /\ a.target \in InitPolicy.auth[a.profile].targets

\* The refusal message of _check_repeat_guard asks a repeat for "new evidence":
\* two repeats of one partition write cite different reports.
RepeatBringsNewEvidence ==
    \A i, j \in DOMAIN issued :
        /\ i # j /\ issued[i].repeat # None /\ issued[j].repeat # None
        /\ SameAction(LineOf(issued[i]), issued[j].action)
        => issued[i].repeat.sha # issued[j].repeat.sha

\* authorize-profile writes, in safe idle, the enabled policy it previewed with
\* one entry more that the owner confirmed, and that is the policy it found: it
\* undoes what the owner changed only when the edit fell between the last
\* comparison and the rename.
AuthorizationAddsOne ==
    [][policy' # policy /\ ~EditPolicy =>
         /\ active = None
         /\ \E p \in Proc, g \in confirmed :
              /\ pc[p] = "replace"
              /\ req[p].policy = policy \/ p \in late
              /\ req[p].policy.enabled /\ req[p].policy.auth[g.path] = None
              /\ policy' = [req[p].policy EXCEPT !.auth[g.path] =
                               [text |-> g.text, targets |-> {g.target}]]]_vars

\* Records and policy are read, changed and written back in separate steps, the
\* policy partly without the lock: no write loses what another invocation did,
\* or what the owner did before the file was last compared.
WritesLoseNothing == AuthorizationAddsOne /\ ActiveOnlyAdvances

\* Every invocation that waits for the lock ends, even while another one sits
\* at the owner's prompt for ever, and whatever processes die holding the lock.
InvocationsEnd == \A p \in Proc : (pc[p] = "wait") ~> (pc[p] = "idle")
=============================================================================
