---------------------------- MODULE D110Session ----------------------------
(***************************************************************************)
(* The D110 RAM-boot gate: scripts/72_stage_downstream_ssh_wifi_test.sh    *)
(* and the Python module it pins, scripts/lmi_d110_session.py.             *)
(*                                                                         *)
(* A thread of work is granted, once, the authority to run `fastboot boot` *)
(* on one handset.  The grant is a file named after the thread; it is      *)
(* bound to the helper's contents, the host's boot and the fastboot        *)
(* binary, and it expires.  Each --execute run verifies the grant under a  *)
(* lock, creates and consumes a short-lived receipt, repeats its checks    *)
(* and launches the single boot action.                                    *)
(*                                                                         *)
(* Left out: the contents of the policy, of the image and of the device's  *)
(* answers.  Each of those checks either passes or ends the run, and Stop  *)
(* is enabled wherever a check may end it.  --dry-run and --preflight      *)
(* change no state.                                                        *)
(***************************************************************************)
EXTENDS Integers

CONSTANTS
  Proc,           \* invocations of the helper script, running concurrently
  Thread,         \* CODEX_THREAD_ID bindings
  Helper,         \* contents of the helper script
  Tool,           \* identities of a fastboot binary with the pinned SHA-256
  Nonce,          \* challenge nonces of receipts; a bound on their number too
  None,           \* no grant, no receipt, no tool, no running action, no process
  SessionMax,     \* session_max_seconds of the policy
  ReceiptTTL,     \* receipt_ttl of the policy
  ActionTimeout,  \* action_timeout of the policy
  MaxTime,        \* bound: last second of the clock
  MaxBoots        \* bound: boots of the host

ASSUME BoundsAssumption ==
  /\ {SessionMax, ReceiptTTL, ActionTimeout} \subseteq Nat \ {0}
  /\ MaxTime \in Nat
  /\ MaxBoots \in Nat \ {0}

VARIABLES
  now,        \* `date +%s`, int(time.time())
  helper,     \* the helper script on disk
  tool,       \* the fastboot binary on disk
  host,       \* the host's boot_id
  storage,    \* the grant directories and execute.lock exist
  active,     \* active/grant-<thread>.json
  pending,    \* receipts under pending/
  consumed,   \* receipts under consumed/
  lock,       \* holders of an open, locked descriptor of execute.lock
  pc,         \* where each invocation is
  thread,     \* the thread each invocation runs for
  bind,       \* what each invocation captured of helper, host and tool
  receipt,    \* the receipt each --execute created
  timeout,    \* action_deadline_timeout and the second it was computed at
  action,     \* the boot action each invocation has running
  launches    \* history: the boot actions ever launched

vars == <<now, helper, tool, host, storage, active, pending, consumed, lock,
          pc, thread, bind, receipt, timeout, action, launches>>
disk == <<storage, active, pending, consumed>>
env == <<helper, tool, host>>

-----------------------------------------------------------------------------
(* Types                                                                   *)

Time == 0 .. MaxTime
Binding == [helper : Helper, host : 1 .. MaxBoots, tool : Tool \cup {None}]
Grant == [bind : Binding, issued : Time, expires : Nat]
Receipt == [nonce : Nonce, thread : Thread, bind : Binding,
            issued : Time, expires : Nat]
\* timeout(1) takes zero seconds for no limit at all, so the deadline is never 0.
Timeout == [at : Time, seconds : Nat \ {0}]
Running == [receipt : Receipt, grant : Grant \cup {None}, thread : Thread,
            started : Time, stops : Nat]

\* None is told apart from everything it stands in for.
ASSUME NoneAssumption ==
  None \notin Tool /\ None \notin Grant /\ None \notin Receipt /\ None \notin Running

\* The invocations between acquire_session_lock and release_session_lock.
Locked == {"locked", "granted", "preflighted", "verified", "receipted",
           "linked", "spent", "repeated", "reverified", "armed", "booting",
           "authLocked", "revokeLocked"}
\* Where an invocation is before it has the lock.
Unlocked == {"idle", "execute", "revoke", "authorize", "authorized"}

TypeOK ==
  /\ now \in Time
  /\ helper \in Helper /\ tool \in Tool /\ host \in 1 .. MaxBoots
  /\ storage \in BOOLEAN
  /\ active \in [Thread -> Grant \cup {None}]
  /\ pending \subseteq Receipt /\ consumed \subseteq Receipt
  /\ lock \subseteq ({"script", "action"} \X Proc)
  /\ pc \in [Proc -> Locked \cup Unlocked]
  /\ thread \in [Proc -> Thread \cup {None}]
  /\ bind \in [Proc -> Binding \cup {None}]
  /\ receipt \in [Proc -> Receipt \cup {None}]
  /\ timeout \in [Proc -> Timeout \cup {None}]
  /\ action \in [Proc -> Running \cup {None}]
  /\ launches \subseteq Running

Init ==
  /\ now = 0
  /\ helper \in Helper /\ tool \in Tool /\ host = 1
  /\ storage = FALSE
  /\ active = [t \in Thread |-> None]
  /\ pending = {} /\ consumed = {} /\ lock = {} /\ launches = {}
  /\ pc = [p \in Proc |-> "idle"]
  /\ thread = [p \in Proc |-> None]
  /\ bind = [p \in Proc |-> None]
  /\ receipt = [p \in Proc |-> None]
  /\ timeout = [p \in Proc |-> None]
  /\ action = [p \in Proc |-> None]

-----------------------------------------------------------------------------
(* Starting and ending an invocation                                       *)

Go(p, at) == pc' = [pc EXCEPT ![p] = at]

\* Mutant: the descriptor outlives the run.
LeakDescriptor(p) == lock

Closed(p) == lock \ {<<"script", p>>}

\* The run ends: its variables are gone and every descriptor of the script is
\* closed.  A boot action it started inherited execute.lock's descriptor and
\* keeps it open.
End(p) ==
  /\ Go(p, "idle")
  /\ lock' = Closed(p)
  /\ thread' = [thread EXCEPT ![p] = None]
  /\ bind' = [bind EXCEPT ![p] = None]
  /\ receipt' = [receipt EXCEPT ![p] = None]
  /\ timeout' = [timeout EXCEPT ![p] = None]

Begin(p, mode, t) ==
  /\ pc[p] = "idle"
  /\ Go(p, mode)
  /\ thread' = [thread EXCEPT ![p] = t]
  /\ bind' = [bind EXCEPT ![p] = [helper |-> helper, host |-> host, tool |-> None]]
  /\ UNCHANGED <<now, env, disk, lock, receipt, timeout, action, launches>>

\* `fail` at any check, or a signal.  While the boot action runs the script
\* only waits for it, so there only a signal ends it.
Stop(p) ==
  /\ pc[p] # "idle"
  /\ End(p)
  /\ UNCHANGED <<now, env, disk, action, launches>>

\* Mutant: --execute takes a lock that no script holds any more for stale.
LockTakenForStale(p, from, to) ==
  /\ pc[p] = from
  /\ from # "authorized" => storage
  /\ storage' = TRUE
  /\ \A holder \in lock : to = "locked" /\ holder[1] = "action"
  /\ lock' = lock \cup {<<"script", p>>}
  /\ Go(p, to)
  /\ UNCHANGED <<now, env, active, pending, consumed, thread, bind, receipt,
                 timeout, action, launches>>

\* prepare_session_storage, then a lock that is refused at once when an open
\* descriptor anywhere holds it.
Acquire(p, from, to) ==
  /\ pc[p] = from
  /\ from # "authorized" => storage
  /\ storage' = TRUE
  /\ lock = {}
  /\ lock' = {<<"script", p>>}
  /\ Go(p, to)
  /\ UNCHANGED <<now, env, active, pending, consumed, thread, bind, receipt,
                 timeout, action, launches>>

-----------------------------------------------------------------------------
(* Checks                                                                  *)

\* Mutant: the grant's bindings are not compared.
AnyBinding(p, g) == g # None /\ g.issued <= now + 2 /\ now < g.expires

\* The grant of p's thread, verified against what p captured and the clock.
GrantValid(p, g) ==
  /\ g # None
  /\ g.bind = bind[p]
  /\ g.expires - g.issued = SessionMax
  /\ g.issued <= now + 2 /\ now < g.expires

HasGrant(p) == GrantValid(p, active[thread[p]])

\* complete_read_only_preflight: the helper and the tool are those captured.
Unchanged(p) == helper = bind[p].helper /\ tool = bind[p].tool

\* A step of --execute that changes nothing outside the process.
Check(p, from, to) ==
  /\ pc[p] = from
  /\ Go(p, to)
  /\ UNCHANGED <<now, env, disk, lock, thread, receipt, action, launches>>

-----------------------------------------------------------------------------
(* --authorize-session                                                     *)

AuthPreflight(p) ==
  /\ Check(p, "authorize", "authorized")
  /\ helper = bind[p].helper
  /\ bind' = [bind EXCEPT ![p].tool = tool]
  /\ UNCHANGED timeout

NewGrant(p) ==
  [bind |-> bind[p], issued |-> now, expires |-> now + SessionMax]

\* The grant p leaves in place: a valid one is kept with its deadline, an
\* invalid one refuses until it is revoked.
GrantAfter(p) ==
  IF active[thread[p]] = None THEN NewGrant(p) ELSE active[thread[p]]

AuthGrant(p) ==
  /\ pc[p] = "authLocked"
  /\ helper = bind[p].helper
  /\ active[thread[p]] # None => HasGrant(p)
  /\ active' = [active EXCEPT ![thread[p]] = GrantAfter(p)]
  /\ End(p)
  /\ UNCHANGED <<now, env, storage, pending, consumed, action, launches>>

-----------------------------------------------------------------------------
(* --revoke-session                                                        *)

Revoke(p) ==
  /\ pc[p] = "revokeLocked"
  /\ active[thread[p]] # None
  /\ active' = [active EXCEPT ![thread[p]] = None]
  /\ End(p)
  /\ UNCHANGED <<now, env, storage, pending, consumed, action, launches>>

-----------------------------------------------------------------------------
(* --execute                                                               *)

CaptureTool(p) ==
  /\ Check(p, "locked", "granted")
  /\ bind' = [bind EXCEPT ![p].tool = tool]
  /\ UNCHANGED timeout

VerifyAndPreflight(p) ==
  /\ Check(p, "granted", "preflighted")
  /\ HasGrant(p) /\ Unchanged(p)
  /\ UNCHANGED <<bind, timeout>>

VerifyAgain(p) ==
  /\ Check(p, "preflighted", "verified")
  /\ HasGrant(p)
  /\ UNCHANGED <<bind, timeout>>

Fresh == {n \in Nonce : \A r \in pending \cup consumed : r.nonce # n}

NewReceipt(p, n) ==
  [nonce |-> n, thread |-> thread[p],
   bind |-> bind[p], issued |-> now, expires |-> now + ReceiptTTL]

CreateReceipt(p) ==
  /\ pc[p] = "verified"
  /\ \E n \in Fresh :
       /\ receipt' = [receipt EXCEPT ![p] = NewReceipt(p, n)]
       /\ pending' = pending \cup {NewReceipt(p, n)}
  /\ Go(p, "receipted")
  /\ UNCHANGED <<now, env, storage, active, consumed, lock, thread, bind,
                 timeout, action, launches>>

\* os.link into consumed/, which fails when the name is there already.
LinkConsumed(p) ==
  /\ pc[p] = "receipted"
  /\ receipt[p] \in pending
  /\ \A r \in consumed : r.nonce # receipt[p].nonce
  /\ receipt[p].issued <= now + 2 /\ now < receipt[p].expires
  /\ consumed' = consumed \cup {receipt[p]}
  /\ Go(p, "linked")
  /\ UNCHANGED <<now, env, storage, active, pending, lock, thread, bind,
                 receipt, timeout, action, launches>>

\* Mutant: the pending name is left behind.
KeepPending(p) ==
  /\ pc[p] = "linked"
  /\ Go(p, "spent")
  /\ UNCHANGED <<now, env, disk, lock, thread, bind, receipt, timeout, action, launches>>

UnlinkPending(p) ==
  /\ pc[p] = "linked"
  /\ pending' = pending \ {receipt[p]}
  /\ Go(p, "spent")
  /\ UNCHANGED <<now, env, storage, active, consumed, lock, thread, bind,
                 receipt, timeout, action, launches>>

\* The second preflight, every query of it bounded by the receipt's deadline.
RepeatPreflight(p) ==
  /\ Check(p, "spent", "repeated")
  /\ Unchanged(p)
  /\ now < receipt[p].expires
  /\ UNCHANGED <<bind, timeout>>

VerifyLast(p) ==
  /\ Check(p, "repeated", "reverified")
  /\ HasGrant(p)
  /\ UNCHANGED <<bind, timeout>>

Lesser(a, b) == IF a < b THEN a ELSE b

\* Mutant: no second is set aside for starting the process.
NoMargin(remaining) == Lesser(ActionTimeout, remaining)

ActionSeconds(remaining) == Lesser(ActionTimeout, remaining - 1)

RequireMargin(p) ==
  /\ Check(p, "reverified", "armed")
  /\ receipt[p].expires - now > 1
  /\ timeout' = [timeout EXCEPT ![p] =
                   [at |-> now, seconds |-> ActionSeconds(receipt[p].expires - now)]]
  /\ UNCHANGED bind

Launched(p) ==
  [receipt |-> receipt[p], grant |-> active[thread[p]], thread |-> thread[p],
   started |-> now, stops |-> now + timeout[p].seconds]

\* timeout(1) and fastboot inherit the lock's descriptor.
Launch(p) ==
  /\ pc[p] = "armed"
  /\ action' = [action EXCEPT ![p] = Launched(p)]
  /\ launches' = launches \cup {Launched(p)}
  /\ lock' = lock \cup {<<"action", p>>}
  /\ Go(p, "booting")
  /\ UNCHANGED <<now, env, disk, thread, bind, receipt, timeout>>

\* The post-action checks and release_session_lock; passed or failed, the
\* run ends.
Finish(p) ==
  /\ pc[p] = "booting"
  /\ action[p] = None
  /\ End(p)
  /\ UNCHANGED <<now, env, disk, action, launches>>

-----------------------------------------------------------------------------
(* The environment                                                         *)

\* fastboot exits, or timeout(1) ends it.
ActionEnds(p) ==
  /\ action[p] # None
  /\ action' = [action EXCEPT ![p] = None]
  /\ lock' = lock \ {<<"action", p>>}
  /\ UNCHANGED <<now, env, disk, pc, thread, bind, receipt, timeout, launches>>

\* The clock never runs backwards.  timeout(1) ends an action punctually, and
\* at most one second boundary passes between the margin check and exec.
Tick ==
  /\ now < MaxTime
  /\ \A p \in Proc : action[p] # None => now < action[p].stops
  /\ \A p \in Proc : pc[p] = "armed" => now <= timeout[p].at
  /\ now' = now + 1
  /\ UNCHANGED <<env, disk, lock, pc, thread, bind, receipt, timeout, action, launches>>

ReplaceHelper ==
  /\ helper' \in Helper \ {helper}
  /\ UNCHANGED <<now, tool, host, disk, lock, pc, thread, bind, receipt,
                 timeout, action, launches>>

ReplaceTool ==
  /\ tool' \in Tool \ {tool}
  /\ UNCHANGED <<now, helper, host, disk, lock, pc, thread, bind, receipt,
                 timeout, action, launches>>

\* Every process of the host is gone and so is every lock; the files stay.
Reboot ==
  /\ host < MaxBoots
  /\ host' = host + 1
  /\ pc' = [p \in Proc |-> "idle"]
  /\ thread' = [p \in Proc |-> None]
  /\ bind' = [p \in Proc |-> None]
  /\ receipt' = [p \in Proc |-> None]
  /\ timeout' = [p \in Proc |-> None]
  /\ action' = [p \in Proc |-> None]
  /\ lock' = {}
  /\ UNCHANGED <<now, helper, tool, disk, launches>>

-----------------------------------------------------------------------------
Authorize(p) ==
  \/ AuthPreflight(p)
  \/ Acquire(p, "authorized", "authLocked")
  \/ AuthGrant(p)

RevokeRun(p) ==
  \/ Acquire(p, "revoke", "revokeLocked")
  \/ Revoke(p)

Execute(p) ==
  \/ Acquire(p, "execute", "locked")
  \/ CaptureTool(p) \/ VerifyAndPreflight(p) \/ VerifyAgain(p)
  \/ CreateReceipt(p) \/ LinkConsumed(p) \/ UnlinkPending(p)
  \/ RepeatPreflight(p) \/ VerifyLast(p) \/ RequireMargin(p)
  \/ Launch(p) \/ Finish(p)

Step(p) == Authorize(p) \/ RevokeRun(p) \/ Execute(p)

Next ==
  \/ \E p \in Proc :
       \/ \E mode \in {"authorize", "execute", "revoke"}, t \in Thread : Begin(p, mode, t)
       \/ Step(p)
       \/ Stop(p)
       \/ ActionEnds(p)
  \/ Tick \/ ReplaceHelper \/ ReplaceTool \/ Reboot

Spec == Init /\ [][Next]_vars

\* Every command of the script ends: the queries and the action run under
\* timeout(1), the lock is tried without waiting, and each check either goes
\* on or fails.
FairSpec ==
  /\ Spec
  /\ \A p \in Proc : WF_vars(Step(p) \/ Stop(p)) /\ WF_vars(ActionEnds(p))

-----------------------------------------------------------------------------
(* Properties                                                              *)

\* "Only one execute may be in progress at a time": two boot actions never
\* run together, not even when the script that started the first was killed
\* and another invocation has begun since.
OneActionAtATime ==
  \A p, q \in Proc : action[p] # None /\ action[q] # None => p = q

\* While a boot action runs, the grant it was launched under is in force:
\* no revocation completes, and none is replaced, underneath it.
NoRevokeUnderAction ==
  \A p \in Proc : action[p] # None => active[action[p].thread] = action[p].grant

\* A boot action has the gate to itself: no second action runs beside it and
\* its grant stays, even when its script was killed or the receipt ran out.
ActionAlone == OneActionAtATime /\ NoRevokeUnderAction

\* One receipt, one action: what launches an action is a receipt that has
\* left pending/ for consumed/, and it launches no other.
OneActionPerReceipt ==
  /\ \A a \in launches : a.receipt \in consumed \ pending
  /\ \A a, b \in launches : a.receipt.nonce = b.receipt.nonce => a = b

\* The action window: the action is launched before its receipt expires and
\* has been told to stop by then.
WithinReceipt ==
  /\ \A a \in launches : a.started < a.receipt.expires
  /\ \A p \in Proc : action[p] # None => now <= action[p].receipt.expires

\* The session ceiling: no action is launched a receipt's lifetime or more
\* after its session grant expired.
WithinSession ==
  \A a \in launches : a.grant # None => a.started < a.grant.expires + ReceiptTTL

\* The checks of the two deadlines are repeated often enough, and leave enough
\* margin, for an action to be launched and stopped within both.
WithinDeadlines == WithinReceipt /\ WithinSession

\* An action is launched only under a grant of its own thread, host boot,
\* helper and tool, issued before the receipt.
BoundToGrant ==
  \A a \in launches :
    /\ a.grant # None
    /\ a.thread = a.receipt.thread
    /\ a.grant.bind = a.receipt.bind
    /\ a.grant.issued <= a.receipt.issued

\* "a valid existing grant is retained with its original deadline": the only
\* way from one grant of a thread to another is through its revocation.
DeadlineNeverMoves ==
  [][\A t \in Thread : active[t] # None => active'[t] \in {active[t], None}]_vars

\* The gate is never wedged: whatever is killed and whenever, the execution
\* lock comes free again, so that a revocation can be made.
LockComesFree == []<>(lock = {})
=============================================================================
