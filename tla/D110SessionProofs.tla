------------------------- MODULE D110SessionProofs -------------------------
(***************************************************************************)
(* Theorems about the D110 RAM-boot gate, for any number of invocations,   *)
(* threads, helpers, tools and receipts and any policy limits.             *)
(*                                                                         *)
(* TypeInv adds to TypeOK which of its variables an invocation has set by  *)
(* where it is.  LockInv is the argument for exclusion: whoever is between *)
(* acquire and release, or has an action running, holds a descriptor, and  *)
(* all descriptors belong to one invocation.  AttemptInv says what the     *)
(* --execute run in progress knows about its receipt and its grant, which  *)
(* stay what they were because nobody else holds the lock.                 *)
(***************************************************************************)
EXTENDS D110Session, TLAPS

\* The run has created its receipt and not yet launched.
WithReceipt == {"receipted", "linked", "spent", "repeated", "reverified", "armed"}

LocalsSet ==
  /\ \A p \in Proc : pc[p] # "idle" => thread[p] \in Thread /\ bind[p] \in Binding
  /\ \A p \in Proc : pc[p] \in WithReceipt => receipt[p] \in Receipt
  /\ \A p \in Proc : pc[p] = "armed" => timeout[p] \in Timeout

TypeInv == TypeOK /\ LocalsSet

ScriptHolds == \A p \in Proc : pc[p] \in Locked => <<"script", p>> \in lock
ActionHolds == \A p \in Proc : action[p] # None => <<"action", p>> \in lock
OneHolder == \A x, y \in lock : x[2] = y[2]
ActionIsBooting ==
  \A p \in Proc : action[p] # None /\ pc[p] \in Locked => pc[p] = "booting"

LockInv == ScriptHolds /\ ActionHolds /\ OneHolder /\ ActionIsBooting

USE DEF Locked, Unlocked

-----------------------------------------------------------------------------
(* Types                                                                   *)

LEMMA TypeInit == Init => TypeInv
<1> SUFFICES ASSUME Init PROVE TypeInv
  OBVIOUS
<1>1. TypeOK
  <2>1. now \in Time /\ host \in 1 .. MaxBoots
    BY BoundsAssumption DEF Init, Time
  <2> QED BY <2>1, Zenon DEF Init, TypeOK
<1>2. LocalsSet
  BY DEF Init, LocalsSet, WithReceipt
<1> QED BY <1>1, <1>2 DEF TypeInv

LEMMA BeginTypes ==
  ASSUME TypeInv, NEW p \in Proc, NEW mode \in {"authorize", "execute", "revoke"},
         NEW t \in Thread, Begin(p, mode, t)
  PROVE  TypeInv'
<1>1. [helper |-> helper, host |-> host, tool |-> None] \in Binding
  BY DEF TypeInv, TypeOK, Binding
<1>2. TypeOK'
  BY <1>1 DEF TypeInv, TypeOK, Begin, Go, env, disk
<1>3. LocalsSet'
  BY <1>1 DEF TypeInv, TypeOK, LocalsSet, WithReceipt, Begin, Go
<1> QED BY <1>2, <1>3 DEF TypeInv

LEMMA EndTypes ==
  ASSUME TypeInv, NEW p \in Proc, End(p), UNCHANGED <<now, env, storage, pending, consumed, action, launches>>,
         active' \in [Thread -> Grant \cup {None}]
  PROVE  TypeInv'
<1>1. TypeOK'
  BY DEF TypeInv, TypeOK, End, Go, Closed, env
<1>2. LocalsSet'
  BY DEF TypeInv, TypeOK, LocalsSet, WithReceipt, End, Go
<1> QED BY <1>1, <1>2 DEF TypeInv

LEMMA AcquireTypes ==
  ASSUME TypeInv, NEW p \in Proc,
         \/ Acquire(p, "authorized", "authLocked")
         \/ Acquire(p, "revoke", "revokeLocked")
         \/ Acquire(p, "execute", "locked")
  PROVE  TypeInv'
<1>1. lock' \subseteq ({"script", "action"} \X Proc)
  BY DEF Acquire
<1>2. pc' \in [Proc -> Locked \cup Unlocked]
  BY DEF TypeInv, TypeOK, Acquire, Go
<1>3. storage' \in BOOLEAN
  BY DEF Acquire
<1>4. TypeOK'
  BY <1>1, <1>2, <1>3, Zenon DEF TypeInv, TypeOK, Acquire, env
<1>5. LocalsSet'
  BY DEF TypeInv, TypeOK, LocalsSet, WithReceipt, Acquire, Go
<1> QED BY <1>4, <1>5 DEF TypeInv

LEMMA CaptureTypes ==
  ASSUME TypeInv, NEW p \in Proc, AuthPreflight(p) \/ CaptureTool(p)
  PROVE  TypeInv'
<1>1. bind[p] \in Binding /\ tool \in Tool
  BY DEF TypeInv, TypeOK, LocalsSet, AuthPreflight, CaptureTool, Check
<1>2. [bind[p] EXCEPT !.tool = tool] \in Binding
  BY <1>1 DEF Binding
<1>3. bind' = [bind EXCEPT ![p] = [bind[p] EXCEPT !.tool = tool]]
  BY DEF AuthPreflight, CaptureTool
<1>4. TypeOK'
  BY <1>2, <1>3 DEF TypeInv, TypeOK, AuthPreflight, CaptureTool, Check, Go, env, disk
<1>5. LocalsSet'
  BY <1>2, <1>3 DEF TypeInv, TypeOK, LocalsSet, WithReceipt, AuthPreflight, CaptureTool, Check, Go
<1> QED BY <1>4, <1>5 DEF TypeInv

LEMMA CheckTypes ==
  ASSUME TypeInv, NEW p \in Proc,
         VerifyAndPreflight(p) \/ VerifyAgain(p) \/ RepeatPreflight(p) \/ VerifyLast(p)
  PROVE  TypeInv'
<1>1. TypeOK'
  BY DEF TypeInv, TypeOK, VerifyAndPreflight, VerifyAgain, RepeatPreflight, VerifyLast,
         Check, Go, env, disk
<1>2. LocalsSet'
  BY DEF TypeInv, TypeOK, LocalsSet, WithReceipt, VerifyAndPreflight, VerifyAgain,
         RepeatPreflight, VerifyLast, Check, Go
<1> QED BY <1>1, <1>2 DEF TypeInv

LEMMA ReceiptTypes ==
  ASSUME TypeInv, NEW p \in Proc, CreateReceipt(p)
  PROVE  TypeInv'
<1>1. PICK n \in Fresh :
        /\ receipt' = [receipt EXCEPT ![p] = NewReceipt(p, n)]
        /\ pending' = pending \cup {NewReceipt(p, n)}
  BY DEF CreateReceipt
<1>2. NewReceipt(p, n) \in Receipt
  <2>1. n \in Nonce /\ thread[p] \in Thread /\ bind[p] \in Binding /\ now \in Time
    BY DEF Fresh, TypeInv, TypeOK, LocalsSet, CreateReceipt
  <2>2. now + ReceiptTTL \in Nat
    BY <2>1, BoundsAssumption DEF Time
  <2> QED BY <2>1, <2>2 DEF NewReceipt, Receipt
<1>3. TypeOK'
  BY <1>1, <1>2 DEF TypeInv, TypeOK, CreateReceipt, Go, env
<1>4. LocalsSet'
  BY <1>1, <1>2 DEF TypeInv, TypeOK, LocalsSet, WithReceipt, CreateReceipt, Go
<1> QED BY <1>3, <1>4 DEF TypeInv

LEMMA ConsumeTypes ==
  ASSUME TypeInv, NEW p \in Proc, LinkConsumed(p) \/ UnlinkPending(p)
  PROVE  TypeInv'
<1>1. receipt[p] \in Receipt
  BY DEF TypeInv, LocalsSet, WithReceipt, LinkConsumed, UnlinkPending
<1>2. TypeOK'
  BY <1>1 DEF TypeInv, TypeOK, LinkConsumed, UnlinkPending, Go, env
<1>3. LocalsSet'
  BY DEF TypeInv, TypeOK, LocalsSet, WithReceipt, LinkConsumed, UnlinkPending, Go
<1> QED BY <1>2, <1>3 DEF TypeInv

\* What the margin check hands to timeout(1) is a positive number of seconds
\* that leaves one second of the receipt's life over.
LEMMA MarginSeconds ==
  ASSUME NEW remaining \in Int, remaining > 1
  PROVE  ActionSeconds(remaining) \in Nat \ {0} /\ ActionSeconds(remaining) <= remaining - 1
BY BoundsAssumption DEF ActionSeconds, Lesser

LEMMA MarginTypes ==
  ASSUME TypeInv, NEW p \in Proc, RequireMargin(p)
  PROVE  TypeInv'
<1> DEFINE t == [at |-> now, seconds |-> ActionSeconds(receipt[p].expires - now)]
<1>1. receipt[p] \in Receipt /\ now \in Time
  BY DEF TypeInv, TypeOK, LocalsSet, WithReceipt, RequireMargin, Check
<1>2. receipt[p].expires - now \in Int /\ receipt[p].expires - now > 1
  BY <1>1 DEF Receipt, Time, RequireMargin
<1>3. t \in Timeout
  BY <1>1, <1>2, MarginSeconds DEF Timeout
<1>4. timeout' = [timeout EXCEPT ![p] = t]
  BY DEF RequireMargin
<1> HIDE DEF t
<1>5. TypeOK'
  BY <1>3, <1>4 DEF TypeInv, TypeOK, RequireMargin, Check, Go, env, disk
<1>6. LocalsSet'
  BY <1>3, <1>4 DEF TypeInv, TypeOK, LocalsSet, WithReceipt, RequireMargin, Check, Go
<1> QED BY <1>5, <1>6 DEF TypeInv

LEMMA LaunchTypes ==
  ASSUME TypeInv, NEW p \in Proc, Launch(p)
  PROVE  TypeInv' /\ Launched(p) \in Running
<1>1. /\ receipt[p] \in Receipt /\ thread[p] \in Thread
      /\ timeout[p] \in Timeout /\ now \in Time
  BY DEF TypeInv, TypeOK, LocalsSet, WithReceipt, Launch
<1>2. active[thread[p]] \in Grant \cup {None}
  BY <1>1 DEF TypeInv, TypeOK
<1>3. now + timeout[p].seconds \in Nat
  BY <1>1 DEF Timeout, Time
<1>4. Launched(p) \in Running
  BY <1>1, <1>2, <1>3 DEF Launched, Running
<1>5. TypeOK'
  BY <1>4 DEF TypeInv, TypeOK, Launch, Go, env, disk
<1>6. LocalsSet'
  BY DEF TypeInv, TypeOK, LocalsSet, WithReceipt, Launch, Go
<1> QED BY <1>4, <1>5, <1>6 DEF TypeInv

LEMMA EnvironmentTypes ==
  ASSUME TypeInv,
         Tick \/ ReplaceHelper \/ ReplaceTool \/ Reboot \/ (\E p \in Proc : ActionEnds(p))
  PROVE  TypeInv'
<1>1. CASE Tick
  <2>1. now' \in Time
    BY <1>1, BoundsAssumption DEF Tick, TypeInv, TypeOK, Time
  <2> QED BY <1>1, <2>1 DEF TypeInv, TypeOK, LocalsSet, Tick, env, disk
<1>2. CASE ReplaceHelper \/ ReplaceTool
  BY <1>2 DEF TypeInv, TypeOK, LocalsSet, ReplaceHelper, ReplaceTool, disk
<1>3. CASE Reboot
  <2>1. host' \in 1 .. MaxBoots
    BY <1>3, BoundsAssumption DEF Reboot, TypeInv, TypeOK
  <2> QED BY <1>3, <2>1 DEF TypeInv, TypeOK, LocalsSet, WithReceipt, Reboot, disk
<1>4. ASSUME NEW p \in Proc, ActionEnds(p) PROVE TypeInv'
  BY <1>4 DEF TypeInv, TypeOK, LocalsSet, ActionEnds, env, disk
<1> QED BY <1>1, <1>2, <1>3, <1>4

LEMMA TypeStep == TypeInv /\ [Next]_vars => TypeInv'
<1> SUFFICES ASSUME TypeInv, [Next]_vars PROVE TypeInv'
  OBVIOUS
<1>1. CASE UNCHANGED vars
  BY <1>1 DEF vars, TypeInv, TypeOK, LocalsSet
<1>2. ASSUME NEW p \in Proc, NEW mode \in {"authorize", "execute", "revoke"},
             NEW t \in Thread, Begin(p, mode, t)
      PROVE TypeInv'
  BY <1>2, BeginTypes
<1>3. ASSUME NEW p \in Proc, Authorize(p) PROVE TypeInv'
  <2>1. CASE AuthGrant(p)
    <3>1. bind[p] \in Binding /\ now \in Time
      BY <2>1 DEF AuthGrant, TypeInv, TypeOK, LocalsSet
    <3>2. now + SessionMax \in Nat
      BY <3>1, BoundsAssumption DEF Time
    <3>3. NewGrant(p) \in Grant
      BY <3>1, <3>2 DEF NewGrant, Grant
    <3>4. active' \in [Thread -> Grant \cup {None}]
      BY <2>1, <3>3 DEF AuthGrant, GrantAfter, TypeInv, TypeOK
    <3> QED BY <2>1, <3>4, EndTypes DEF AuthGrant
  <2> QED BY <1>3, <2>1, CaptureTypes, AcquireTypes DEF Authorize
<1>4. ASSUME NEW p \in Proc, RevokeRun(p) PROVE TypeInv'
  <2>1. CASE Revoke(p)
    <3>1. active' \in [Thread -> Grant \cup {None}]
      BY <2>1 DEF Revoke, TypeInv, TypeOK
    <3> QED BY <2>1, <3>1, EndTypes DEF Revoke
  <2> QED BY <1>4, <2>1, AcquireTypes DEF RevokeRun
<1>5. ASSUME NEW p \in Proc, Execute(p) PROVE TypeInv'
  <2>1. CASE Finish(p)
    BY <2>1, EndTypes DEF Finish, disk, TypeInv, TypeOK
  <2> QED BY <1>5, <2>1, AcquireTypes, CaptureTypes, CheckTypes, ReceiptTypes,
             ConsumeTypes, MarginTypes, LaunchTypes DEF Execute
<1>6. ASSUME NEW p \in Proc, Stop(p) PROVE TypeInv'
  BY <1>6, EndTypes DEF Stop, disk, TypeInv, TypeOK
<1> QED BY <1>1, <1>2, <1>3, <1>4, <1>5, <1>6, EnvironmentTypes DEF Next, Step

\* Every reachable state of the gate is well typed; in particular an armed run
\* hands timeout(1) at least one second, never the 0 that would mean no limit.
THEOREM TypeCorrect == Spec => []TypeOK
<1>1. TypeInv => TypeOK
  BY DEF TypeInv
<1> QED BY <1>1, TypeInit, TypeStep, PTL DEF Spec

-----------------------------------------------------------------------------
(* Exclusion                                                               *)

LEMMA LockInit == Init => LockInv
BY DEF Init, LockInv, ScriptHolds, ActionHolds, OneHolder, ActionIsBooting

\* Steps inside the lock, between acquire and launch.
LEMMA WithinLock ==
  ASSUME TypeInv, LockInv, NEW p \in Proc, pc[p] \in Locked \ {"booting"},
         NEW at \in Locked \ {"booting"}, Go(p, at), UNCHANGED <<lock, action>>
  PROVE  LockInv'
BY DEF TypeInv, TypeOK, LockInv, ScriptHolds, ActionHolds, OneHolder, ActionIsBooting, Go

LEMMA BeforeLock ==
  ASSUME TypeInv, LockInv, NEW p \in Proc, NEW at \in Unlocked, Go(p, at),
         UNCHANGED <<lock, action>>
  PROVE  LockInv'
BY DEF TypeInv, TypeOK, LockInv, ScriptHolds, ActionHolds, OneHolder, ActionIsBooting, Go

LEMMA EndLock ==
  ASSUME TypeInv, LockInv, NEW p \in Proc, End(p), UNCHANGED action
  PROVE  LockInv'
<1>1. \A q \in Proc : q # p => pc'[q] = pc[q] /\ <<"script", q>> # <<"script", p>>
  BY DEF TypeInv, TypeOK, End, Go
<1>2. ScriptHolds' /\ ActionIsBooting'
  BY <1>1 DEF TypeInv, TypeOK, LockInv, ScriptHolds, ActionIsBooting, End, Go, Closed
<1>3. ActionHolds' /\ OneHolder'
  BY DEF LockInv, ActionHolds, OneHolder, End, Closed
<1> QED BY <1>2, <1>3 DEF LockInv

LEMMA AcquireLock ==
  ASSUME TypeInv, LockInv, NEW p \in Proc, NEW from \in Unlocked,
         NEW to \in Locked \ {"booting"}, Acquire(p, from, to)
  PROVE  LockInv'
<1>1. lock = {} /\ lock' = {<<"script", p>>} /\ action' = action
  BY DEF Acquire
<1>2. \A q \in Proc : pc[q] \notin Locked /\ action[q] = None
  BY <1>1 DEF LockInv, ScriptHolds, ActionHolds
<1>3. pc' = [pc EXCEPT ![p] = to]
  BY DEF Acquire, Go
<1>4. \A q \in Proc : pc'[q] \in Locked => q = p
  BY <1>2, <1>3 DEF TypeInv, TypeOK
<1> QED BY <1>1, <1>2, <1>4
        DEF LockInv, ScriptHolds, ActionHolds, OneHolder, ActionIsBooting

LEMMA LaunchLock ==
  ASSUME TypeInv, LockInv, NEW p \in Proc, Launch(p)
  PROVE  LockInv'
<1>1. <<"script", p>> \in lock
  BY DEF LockInv, ScriptHolds, Launch
<1>2. \A x \in lock : x[2] = p
  BY <1>1 DEF LockInv, OneHolder
<1>3. /\ lock' = lock \cup {<<"action", p>>}
      /\ pc' = [pc EXCEPT ![p] = "booting"]
      /\ action' = [action EXCEPT ![p] = Launched(p)]
  BY DEF Launch, Go
<1>4. OneHolder'
  BY <1>2, <1>3 DEF OneHolder
<1>5. ScriptHolds' /\ ActionHolds' /\ ActionIsBooting'
  BY <1>3 DEF TypeInv, TypeOK, LockInv, ScriptHolds, ActionHolds, ActionIsBooting, Launch
<1> QED BY <1>4, <1>5 DEF LockInv

LEMMA LockStep == TypeInv /\ LockInv /\ [Next]_vars => LockInv'
<1> SUFFICES ASSUME TypeInv, LockInv, [Next]_vars PROVE LockInv'
  OBVIOUS
<1>1. CASE UNCHANGED vars
  BY <1>1 DEF vars, LockInv, ScriptHolds, ActionHolds, OneHolder, ActionIsBooting
<1>2. ASSUME NEW p \in Proc, NEW mode \in {"authorize", "execute", "revoke"},
             NEW t \in Thread, Begin(p, mode, t)
      PROVE LockInv'
  BY <1>2, BeforeLock DEF Begin
<1>3. ASSUME NEW p \in Proc, Authorize(p) PROVE LockInv'
  <2>1. CASE AuthPreflight(p)
    BY <2>1, BeforeLock DEF AuthPreflight, Check
  <2>2. CASE Acquire(p, "authorized", "authLocked")
    BY <2>2, AcquireLock
  <2>3. CASE AuthGrant(p)
    BY <2>3, EndLock DEF AuthGrant
  <2> QED BY <1>3, <2>1, <2>2, <2>3 DEF Authorize
<1>4. ASSUME NEW p \in Proc, RevokeRun(p) PROVE LockInv'
  <2>1. CASE Acquire(p, "revoke", "revokeLocked")
    BY <2>1, AcquireLock
  <2>2. CASE Revoke(p)
    BY <2>2, EndLock DEF Revoke
  <2> QED BY <1>4, <2>1, <2>2 DEF RevokeRun
<1>5. ASSUME NEW p \in Proc, Execute(p) PROVE LockInv'
  <2>1. CASE Acquire(p, "execute", "locked")
    BY <2>1, AcquireLock
  <2>2. CASE CaptureTool(p) \/ VerifyAndPreflight(p) \/ VerifyAgain(p)
    BY <2>2, WithinLock DEF CaptureTool, VerifyAndPreflight, VerifyAgain, Check
  <2>3. CASE CreateReceipt(p) \/ LinkConsumed(p) \/ UnlinkPending(p)
    BY <2>3, WithinLock DEF CreateReceipt, LinkConsumed, UnlinkPending
  <2>4. CASE RepeatPreflight(p) \/ VerifyLast(p) \/ RequireMargin(p)
    BY <2>4, WithinLock DEF RepeatPreflight, VerifyLast, RequireMargin, Check
  <2>5. CASE Launch(p)
    BY <2>5, LaunchLock
  <2>6. CASE Finish(p)
    BY <2>6, EndLock DEF Finish
  <2> QED BY <1>5, <2>1, <2>2, <2>3, <2>4, <2>5, <2>6 DEF Execute
<1>6. ASSUME NEW p \in Proc, Stop(p) PROVE LockInv'
  BY <1>6, EndLock DEF Stop
<1>7. ASSUME NEW p \in Proc, ActionEnds(p) PROVE LockInv'
  <2>1. \A q \in Proc : q # p => <<"action", q>> # <<"action", p>>
    OBVIOUS
  <2> QED BY <1>7, <2>1 DEF TypeInv, TypeOK, LockInv, ScriptHolds, ActionHolds,
             OneHolder, ActionIsBooting, ActionEnds
<1>8. CASE Tick \/ ReplaceHelper \/ ReplaceTool
  BY <1>8 DEF Tick, ReplaceHelper, ReplaceTool, LockInv, ScriptHolds, ActionHolds,
              OneHolder, ActionIsBooting
<1>9. CASE Reboot
  BY <1>9 DEF Reboot, LockInv, ScriptHolds, ActionHolds, OneHolder, ActionIsBooting
<1> QED BY <1>1, <1>2, <1>3, <1>4, <1>5, <1>6, <1>7, <1>8, <1>9 DEF Next, Step

\* Two boot actions never run together, whoever is killed and whenever.
THEOREM OneBoot == Spec => []OneActionAtATime
<1>1. LockInv => OneActionAtATime
  BY DEF LockInv, ActionHolds, OneHolder, OneActionAtATime
<1> QED BY <1>1, TypeInit, TypeStep, LockInit, LockStep, PTL DEF Spec

-----------------------------------------------------------------------------
(* Grants                                                                  *)

\* A grant is touched only by authorize and revoke runs, which hold the lock
\* and so have no action of anybody running.
LEMMA GrantsKept ==
  ASSUME TypeInv, LockInv, [Next]_vars, active' # active
  PROVE  /\ \A p \in Proc : action[p] = None
         /\ action' = action
<1>1. PICK p \in Proc : AuthGrant(p) \/ Revoke(p)
  BY DEF Next, vars, Step, Authorize, RevokeRun, Execute, Begin, Stop, ActionEnds, Tick,
         ReplaceHelper, ReplaceTool, Reboot, AuthPreflight, Acquire, CaptureTool,
         VerifyAndPreflight, VerifyAgain, CreateReceipt, LinkConsumed, UnlinkPending,
         RepeatPreflight, VerifyLast, RequireMargin, Launch, Finish, Check, disk
<1>2. pc[p] \in {"authLocked", "revokeLocked"} /\ action' = action
  BY <1>1 DEF AuthGrant, Revoke
<1>3. ASSUME NEW q \in Proc, action[q] # None PROVE FALSE
  <2>1. q = p
    BY <1>2, <1>3 DEF LockInv, ScriptHolds, ActionHolds, OneHolder
  <2> QED BY <1>2, <1>3, <2>1 DEF LockInv, ActionIsBooting
<1> QED BY <1>2, <1>3

\* The grant an action was launched under stays in force while it runs.
THEOREM GrantOutlivesAction == Spec => []NoRevokeUnderAction
<1> DEFINE Inv == TypeInv /\ LockInv /\ NoRevokeUnderAction
<1>1. Init => Inv
  BY TypeInit, LockInit DEF Init, NoRevokeUnderAction
<1>2. ASSUME Inv, [Next]_vars PROVE NoRevokeUnderAction'
  <2>1. CASE active' # active
    BY <1>2, <2>1, GrantsKept DEF NoRevokeUnderAction
  <2>2. CASE active' = active
    <3>1. ASSUME NEW p \in Proc, Launch(p) PROVE NoRevokeUnderAction'
      BY <1>2, <2>2, <3>1 DEF Launch, Launched, NoRevokeUnderAction, TypeInv, TypeOK
    <3>2. ASSUME NEW p \in Proc, ActionEnds(p) PROVE NoRevokeUnderAction'
      BY <1>2, <2>2, <3>2 DEF ActionEnds, NoRevokeUnderAction, TypeInv, TypeOK
    <3>3. CASE Reboot
      BY <2>2, <3>3 DEF Reboot, NoRevokeUnderAction
    <3>4. CASE action' = action
      BY <1>2, <2>2, <3>4 DEF NoRevokeUnderAction
    <3> QED
      BY <1>2, <3>1, <3>2, <3>3, <3>4
      DEF Next, vars, Step, Authorize, RevokeRun, Execute, Begin, Stop, Tick,
          ReplaceHelper, ReplaceTool, AuthPreflight, Acquire, AuthGrant, Revoke, CaptureTool,
          VerifyAndPreflight, VerifyAgain, CreateReceipt, LinkConsumed, UnlinkPending,
          RepeatPreflight, VerifyLast, RequireMargin, Finish, Check
  <2> QED BY <2>1, <2>2
<1>3. Inv => NoRevokeUnderAction
  OBVIOUS
<1> QED BY <1>1, <1>2, <1>3, TypeStep, LockStep, PTL DEF Spec

\* While a boot action runs, no other runs and its grant is not revoked.
THEOREM ActionKeepsGate == Spec => []ActionAlone
BY OneBoot, GrantOutlivesAction, PTL DEF ActionAlone

\* No authorization moves the deadline of a grant in place.
THEOREM DeadlineKept == Spec => DeadlineNeverMoves
<1>1. ASSUME TypeInv, [Next]_vars, NEW t \in Thread, active[t] # None
      PROVE active'[t] \in {active[t], None}
  <2>1. CASE active' = active
    BY <2>1
  <2>2. ASSUME NEW p \in Proc, AuthGrant(p) \/ Revoke(p) PROVE active'[t] \in {active[t], None}
    BY <1>1, <2>2 DEF AuthGrant, Revoke, GrantAfter, TypeInv, TypeOK
  <2> QED
    BY <1>1, <2>1, <2>2
    DEF Next, vars, Step, Authorize, RevokeRun, Execute, Begin, Stop, ActionEnds, Tick,
        ReplaceHelper, ReplaceTool, Reboot, AuthPreflight, Acquire, CaptureTool,
        VerifyAndPreflight, VerifyAgain, CreateReceipt, LinkConsumed, UnlinkPending,
        RepeatPreflight, VerifyLast, RequireMargin, Launch, Finish, Check, disk
<1>2. TypeInv /\ [Next]_vars =>
        [\A t \in Thread : active[t] # None => active'[t] \in {active[t], None}]_vars
  BY <1>1
<1> QED BY <1>2, TypeInit, TypeStep, PTL DEF Spec, DeadlineNeverMoves
-----------------------------------------------------------------------------
(* Attempts                                                                *)

\* What the run knows of the receipt it created: it is for its own thread and
\* bindings, no older than the grant, and no action was launched with it.
ReceiptMine(p) ==
  /\ receipt[p].thread = thread[p] /\ receipt[p].bind = bind[p]
  /\ active[thread[p]].issued <= receipt[p].issued /\ receipt[p].issued <= now
  /\ receipt[p].expires = receipt[p].issued + ReceiptTTL
  /\ \A a \in launches : a.receipt.nonce # receipt[p].nonce

\* What the run may rely on at each of its steps.
Attempt(p) ==
  /\ pc[p] \in {"verified"} \cup WithReceipt =>
       active[thread[p]] # None /\ active[thread[p]].bind = bind[p]
  /\ pc[p] \in WithReceipt => ReceiptMine(p)
  /\ pc[p] = "receipted" => receipt[p] \in pending
  /\ pc[p] = "linked" => receipt[p] \in consumed
  /\ pc[p] \in {"spent", "repeated", "reverified", "armed"} =>
       receipt[p] \in consumed \ pending
  /\ pc[p] \in {"reverified", "armed"} =>
       receipt[p].issued < active[thread[p]].expires
  /\ pc[p] = "armed" =>
       /\ now <= timeout[p].at + 1
       /\ timeout[p].at + 1 < receipt[p].expires
       /\ timeout[p].at + 1 + timeout[p].seconds <= receipt[p].expires

GrantsPast == \A t \in Thread : active[t] # None => active[t].issued <= now

NoncesOnce ==
  \A r, s \in pending \cup consumed : r.nonce = s.nonce => r = s

\* What is so of an action once it was launched.
LaunchFacts(a) ==
  /\ a.receipt \in consumed \ pending
  /\ a.grant # None
  /\ a.thread = a.receipt.thread /\ a.grant.bind = a.receipt.bind
  /\ a.grant.issued <= a.receipt.issued
  /\ a.started < a.receipt.expires /\ a.started < a.grant.expires + ReceiptTTL

LaunchInv ==
  /\ \A a \in launches : LaunchFacts(a)
  /\ \A a, b \in launches : a.receipt.nonce = b.receipt.nonce => a = b

RunningInv ==
  \A p \in Proc : action[p] # None =>
    now <= action[p].stops /\ action[p].stops <= action[p].receipt.expires

AttemptInv ==
  /\ \A p \in Proc : Attempt(p)
  /\ GrantsPast /\ NoncesOnce /\ LaunchInv /\ RunningInv

LEMMA AttemptInit == Init => AttemptInv
BY DEF Init, AttemptInv, Attempt, WithReceipt, GrantsPast, NoncesOnce, LaunchInv, RunningInv

\* Who is between acquire and release is alone there.
LEMMA AloneInside ==
  ASSUME LockInv, NEW p \in Proc, pc[p] \in Locked, NEW q \in Proc, pc[q] \in Locked
  PROVE  q = p
BY DEF LockInv, ScriptHolds, OneHolder

\* A step of p's own locals.
LEMMA OwnStep ==
  ASSUME AttemptInv, NEW p \in Proc, Attempt(p)',
         UNCHANGED <<now, active, pending, consumed, action, launches>>,
         \A q \in Proc \ {p} : /\ pc'[q] = pc[q] /\ thread'[q] = thread[q]
                               /\ bind'[q] = bind[q] /\ receipt'[q] = receipt[q]
                               /\ timeout'[q] = timeout[q]
  PROVE  AttemptInv'
<1>1. \A q \in Proc \ {p} : Attempt(q)'
  BY DEF AttemptInv, Attempt, ReceiptMine
<1>2. (GrantsPast /\ NoncesOnce /\ LaunchInv /\ RunningInv)'
  BY DEF AttemptInv, GrantsPast, NoncesOnce, LaunchInv, LaunchFacts, RunningInv
<1> QED BY <1>1, <1>2 DEF AttemptInv

LEMMA EndAttempt ==
  ASSUME TypeInv, AttemptInv, NEW p \in Proc, End(p),
         UNCHANGED <<now, active, pending, consumed, action, launches>>
  PROVE  AttemptInv'
<1>1. Attempt(p)'
  BY DEF Attempt, WithReceipt, End, Go, TypeInv, TypeOK
<1>2. \A q \in Proc \ {p} : /\ pc'[q] = pc[q] /\ thread'[q] = thread[q]
                            /\ bind'[q] = bind[q] /\ receipt'[q] = receipt[q]
                            /\ timeout'[q] = timeout[q]
  BY DEF End, Go, TypeInv, TypeOK
<1> QED BY <1>1, <1>2, OwnStep

LEMMA OutsideAttempt ==
  ASSUME TypeInv, AttemptInv, NEW p \in Proc,
         \/ \E mode \in {"authorize", "execute", "revoke"}, t \in Thread : Begin(p, mode, t)
         \/ AuthPreflight(p) \/ CaptureTool(p) \/ VerifyAndPreflight(p)
         \/ Acquire(p, "authorized", "authLocked") \/ Acquire(p, "revoke", "revokeLocked")
         \/ Acquire(p, "execute", "locked")
  PROVE  AttemptInv'
<1>1. /\ pc'[p] \notin {"verified"} \cup WithReceipt
      /\ UNCHANGED <<now, active, pending, consumed, action, launches>>
  BY DEF Begin, AuthPreflight, CaptureTool, VerifyAndPreflight, Acquire, Check, Go,
         TypeInv, TypeOK, WithReceipt, disk
<1>2. Attempt(p)'
  BY <1>1 DEF Attempt, WithReceipt
<1>3. \A q \in Proc \ {p} : /\ pc'[q] = pc[q] /\ thread'[q] = thread[q]
                            /\ bind'[q] = bind[q] /\ receipt'[q] = receipt[q]
                            /\ timeout'[q] = timeout[q]
  BY DEF Begin, AuthPreflight, CaptureTool, VerifyAndPreflight, Acquire, Check, Go,
         TypeInv, TypeOK
<1> QED BY <1>1, <1>2, <1>3, OwnStep

LEMMA VerifyAttempt ==
  ASSUME TypeInv, AttemptInv, NEW p \in Proc,
         VerifyAgain(p) \/ RepeatPreflight(p) \/ VerifyLast(p)
  PROVE  AttemptInv'
<1>1. /\ UNCHANGED <<now, active, pending, consumed, action, launches, thread, bind,
                     receipt, timeout>>
      /\ \A q \in Proc \ {p} : pc'[q] = pc[q]
  BY DEF VerifyAgain, RepeatPreflight, VerifyLast, Check, Go, disk, TypeInv, TypeOK
<1>2. Attempt(p)'
  <2>1. CASE VerifyAgain(p)
    <3>1. pc'[p] = "verified" /\ HasGrant(p)
      BY <2>1 DEF VerifyAgain, Check, Go, TypeInv, TypeOK
    <3> QED BY <1>1, <3>1 DEF Attempt, WithReceipt, HasGrant, GrantValid
  <2>2. CASE RepeatPreflight(p)
    <3>1. pc[p] = "spent" /\ pc'[p] = "repeated"
      BY <2>2 DEF RepeatPreflight, Check, Go, TypeInv, TypeOK
    <3> QED BY <1>1, <3>1 DEF AttemptInv, Attempt, ReceiptMine, WithReceipt
  <2>3. CASE VerifyLast(p)
    <3>1. pc[p] = "repeated" /\ pc'[p] = "reverified" /\ HasGrant(p)
      BY <2>3 DEF VerifyLast, Check, Go, TypeInv, TypeOK
    <3>2. Attempt(p) /\ ReceiptMine(p)
      BY <3>1 DEF AttemptInv, Attempt, WithReceipt
    <3>3. /\ receipt[p] \in Receipt /\ thread[p] \in Thread
          /\ active[thread[p]] \in Grant /\ now \in Nat
      BY <3>1 DEF TypeInv, TypeOK, LocalsSet, WithReceipt, HasGrant, GrantValid, Time
    <3>4. receipt[p].issued < active[thread[p]].expires
      <4>1. receipt[p].issued \in Nat /\ active[thread[p]].expires \in Nat
        BY <3>3 DEF Receipt, Grant, Time
      <4>2. receipt[p].issued <= now /\ now < active[thread[p]].expires
        BY <3>1, <3>2 DEF ReceiptMine, HasGrant, GrantValid
      <4> QED BY <3>3, <4>1, <4>2
    <3> QED BY <1>1, <3>1, <3>2, <3>4 DEF Attempt, ReceiptMine, WithReceipt
  <2> QED BY <2>1, <2>2, <2>3
<1> QED BY <1>1, <1>2, OwnStep

LEMMA MarginAttempt ==
  ASSUME TypeInv, AttemptInv, NEW p \in Proc, RequireMargin(p)
  PROVE  AttemptInv'
<1> DEFINE left == receipt[p].expires - now
           t == [at |-> now, seconds |-> ActionSeconds(left)]
<1>1. /\ UNCHANGED <<now, active, pending, consumed, action, launches, thread, bind,
                     receipt>>
      /\ pc[p] = "reverified" /\ left > 1
      /\ pc' = [pc EXCEPT ![p] = "armed"] /\ timeout' = [timeout EXCEPT ![p] = t]
  BY DEF RequireMargin, Check, Go, disk
<1>2. Attempt(p) /\ ReceiptMine(p)
  BY <1>1 DEF AttemptInv, Attempt, WithReceipt
<1>3. receipt[p] \in Receipt /\ now \in Nat
  BY <1>1 DEF TypeInv, TypeOK, LocalsSet, WithReceipt, Time
<1>4. receipt[p].expires \in Nat
  BY <1>3 DEF Receipt
<1>5. t.at = now /\ t.seconds \in Nat /\ t.seconds <= left - 1
  BY <1>1, <1>3, <1>4, MarginSeconds
<1> HIDE DEF t
<1>6. timeout'[p] = t /\ pc'[p] = "armed"
  BY <1>1 DEF TypeInv, TypeOK
<1>7. /\ now' <= timeout'[p].at + 1
      /\ timeout'[p].at + 1 < receipt'[p].expires
      /\ timeout'[p].at + 1 + timeout'[p].seconds <= receipt'[p].expires
  BY <1>1, <1>3, <1>4, <1>5, <1>6
<1>8. Attempt(p)'
  BY <1>1, <1>2, <1>6, <1>7 DEF Attempt, ReceiptMine, WithReceipt
<1>9. \A q \in Proc \ {p} : pc'[q] = pc[q] /\ timeout'[q] = timeout[q]
  BY <1>1 DEF TypeInv, TypeOK
<1> QED BY <1>1, <1>8, <1>9, OwnStep

\* A step that hands out, spends or launches a receipt is p's alone.
LEMMA OthersOutside ==
  ASSUME TypeInv, LockInv, NEW p \in Proc, pc[p] \in Locked,
         \A q \in Proc \ {p} : pc'[q] = pc[q]
  PROVE  \A q \in Proc \ {p} : Attempt(q)'
<1> SUFFICES ASSUME NEW q \in Proc \ {p} PROVE Attempt(q)'
  OBVIOUS
<1>1. pc'[q] \notin Locked
  BY AloneInside
<1> QED BY <1>1 DEF Attempt, WithReceipt

LEMMA CreateAttempt ==
  ASSUME TypeInv, LockInv, AttemptInv, NEW p \in Proc, CreateReceipt(p)
  PROVE  AttemptInv'
<1>1. PICK n \in Fresh :
        /\ receipt' = [receipt EXCEPT ![p] = NewReceipt(p, n)]
        /\ pending' = pending \cup {NewReceipt(p, n)}
  BY DEF CreateReceipt
<1>2. PICK r : r = NewReceipt(p, n)
  OBVIOUS
<1>3. /\ r.nonce = n /\ r.thread = thread[p] /\ r.bind = bind[p]
      /\ r.issued = now /\ r.expires = now + ReceiptTTL
  BY <1>2 DEF NewReceipt
<1>4. /\ pc[p] = "verified" /\ pc'[p] = "receipted" /\ receipt'[p] = r
      /\ pending' = pending \cup {r}
      /\ UNCHANGED <<now, active, consumed, action, launches, thread, bind, timeout>>
      /\ \A q \in Proc \ {p} : pc'[q] = pc[q]
  BY <1>1, <1>2 DEF CreateReceipt, Go, TypeInv, TypeOK
<1>5. \A s \in pending \cup consumed : s.nonce # r.nonce
  BY <1>3 DEF Fresh
<1>6. \A a \in launches : a.receipt \in consumed \ pending
  BY DEF AttemptInv, LaunchInv, LaunchFacts
<1>7. thread[p] \in Thread /\ now \in Nat
  BY <1>4 DEF TypeInv, TypeOK, LocalsSet, Time
<1>8. Attempt(p)'
  <2>1. active[thread[p]] # None /\ active[thread[p]].bind = bind[p]
    BY <1>4 DEF AttemptInv, Attempt
  <2>2. active[thread[p]].issued <= now
    BY <1>7, <2>1 DEF AttemptInv, GrantsPast
  <2>3. ReceiptMine(p)'
    BY <1>3, <1>4, <1>5, <1>6, <1>7, <2>2 DEF ReceiptMine
  <2> QED BY <1>4, <2>1, <2>3 DEF Attempt
<1>9. \A q \in Proc \ {p} : Attempt(q)'
  BY <1>4, OthersOutside
<1>10. NoncesOnce'
  BY <1>4, <1>5 DEF AttemptInv, NoncesOnce
<1>11. LaunchInv'
  BY <1>4, <1>5, <1>6 DEF AttemptInv, LaunchInv, LaunchFacts
<1>12. GrantsPast' /\ RunningInv'
  BY <1>4 DEF AttemptInv, GrantsPast, RunningInv
<1> QED BY <1>8, <1>9, <1>10, <1>11, <1>12 DEF AttemptInv

LEMMA ConsumeAttempt ==
  ASSUME TypeInv, LockInv, AttemptInv, NEW p \in Proc, LinkConsumed(p) \/ UnlinkPending(p)
  PROVE  AttemptInv'
<1>1. /\ UNCHANGED <<now, active, action, launches, thread, bind, receipt, timeout>>
      /\ pc[p] \in {"receipted", "linked"}
      /\ \A q \in Proc \ {p} : pc'[q] = pc[q]
      /\ \/ /\ pc[p] = "receipted" /\ pc'[p] = "linked" /\ pending' = pending
            /\ consumed' = consumed \cup {receipt[p]}
         \/ /\ pc[p] = "linked" /\ pc'[p] = "spent" /\ consumed' = consumed
            /\ pending' = pending \ {receipt[p]}
  BY DEF LinkConsumed, UnlinkPending, Go, TypeInv, TypeOK
<1>2. Attempt(p) /\ ReceiptMine(p)
  BY <1>1 DEF AttemptInv, Attempt, WithReceipt
<1>3. receipt[p] \in pending \cup consumed
  BY <1>1, <1>2 DEF Attempt
<1>4. Attempt(p)'
  BY <1>1, <1>2 DEF Attempt, ReceiptMine, WithReceipt
<1>5. \A q \in Proc \ {p} : Attempt(q)'
  BY <1>1, OthersOutside
<1>6. NoncesOnce'
  BY <1>1, <1>3 DEF AttemptInv, NoncesOnce
<1>7. (GrantsPast /\ LaunchInv /\ RunningInv)'
  BY <1>1 DEF AttemptInv, GrantsPast, LaunchInv, LaunchFacts, RunningInv
<1> QED BY <1>4, <1>5, <1>6, <1>7 DEF AttemptInv

LEMMA LaunchAttempt ==
  ASSUME TypeInv, LockInv, AttemptInv, NEW p \in Proc, Launch(p)
  PROVE  AttemptInv'
<1>1. PICK new : new = Launched(p)
  OBVIOUS
<1>2. /\ new.receipt = receipt[p] /\ new.grant = active[thread[p]]
      /\ new.thread = thread[p] /\ new.started = now
      /\ new.stops = now + timeout[p].seconds
  BY <1>1 DEF Launched
<1>3. /\ UNCHANGED <<now, active, pending, consumed, thread, bind, receipt, timeout>>
      /\ pc[p] = "armed" /\ pc'[p] = "booting"
      /\ \A q \in Proc \ {p} : pc'[q] = pc[q] /\ action'[q] = action[q]
      /\ action'[p] = new /\ launches' = launches \cup {new}
  BY <1>1 DEF Launch, Go, disk, TypeInv, TypeOK
<1>4. Attempt(p) /\ ReceiptMine(p)
  BY <1>3 DEF AttemptInv, Attempt, WithReceipt
<1>5. /\ receipt[p] \in Receipt /\ timeout[p] \in Timeout /\ now \in Nat
      /\ thread[p] \in Thread
  BY <1>3 DEF TypeInv, TypeOK, LocalsSet, WithReceipt, Time
<1>6. active[thread[p]] # None /\ active[thread[p]] \in Grant
  BY <1>3, <1>4, <1>5 DEF Attempt, WithReceipt, TypeInv, TypeOK
<1>7. /\ receipt[p].issued \in Nat /\ receipt[p].expires \in Nat
      /\ active[thread[p]].expires \in Nat
      /\ timeout[p].at \in Nat /\ timeout[p].seconds \in Nat
  BY <1>5, <1>6 DEF Receipt, Grant, Timeout, Time
<1>8. /\ now <= timeout[p].at + 1 /\ timeout[p].at + 1 < receipt[p].expires
      /\ timeout[p].at + 1 + timeout[p].seconds <= receipt[p].expires
      /\ receipt[p].issued < active[thread[p]].expires
      /\ receipt[p].expires = receipt[p].issued + ReceiptTTL
  BY <1>3, <1>4 DEF Attempt, ReceiptMine
<1>9. /\ now < receipt[p].expires /\ now < active[thread[p]].expires + ReceiptTTL
      /\ now <= now + timeout[p].seconds /\ now + timeout[p].seconds <= receipt[p].expires
  BY <1>5, <1>7, <1>8, BoundsAssumption
<1>10. LaunchFacts(new)'
  BY <1>2, <1>3, <1>4, <1>6, <1>9 DEF LaunchFacts, Attempt, ReceiptMine, WithReceipt
<1>11. LaunchInv'
  <2>1. \A a \in launches : LaunchFacts(a)'
    BY <1>3 DEF AttemptInv, LaunchInv, LaunchFacts
  <2>2. \A a \in launches : a.receipt.nonce # new.receipt.nonce
    BY <1>2, <1>4 DEF ReceiptMine
  <2>3. \A a, b \in launches : a.receipt.nonce = b.receipt.nonce => a = b
    BY DEF AttemptInv, LaunchInv
  <2>4. \A a, b \in launches \cup {new} : a.receipt.nonce = b.receipt.nonce => a = b
    BY <2>2, <2>3
  <2> QED BY <1>3, <1>10, <2>1, <2>4 DEF LaunchInv
<1>12. RunningInv'
  BY <1>2, <1>3, <1>9 DEF AttemptInv, RunningInv
<1>13. Attempt(p)'
  BY <1>3 DEF Attempt, WithReceipt
<1>14. \A q \in Proc \ {p} : Attempt(q)'
  BY <1>3, OthersOutside
<1>15. GrantsPast' /\ NoncesOnce'
  BY <1>3 DEF AttemptInv, GrantsPast, NoncesOnce
<1> QED BY <1>11, <1>12, <1>13, <1>14, <1>15 DEF AttemptInv

LEMMA GrantAttempt ==
  ASSUME TypeInv, LockInv, AttemptInv, NEW p \in Proc, AuthGrant(p) \/ Revoke(p)
  PROVE  AttemptInv'
<1>1. /\ UNCHANGED <<now, pending, consumed, action, launches>>
      /\ pc[p] \in Locked /\ pc'[p] = "idle"
      /\ \A q \in Proc \ {p} : pc'[q] = pc[q]
  BY DEF AuthGrant, Revoke, End, Go, TypeInv, TypeOK
<1>2. thread[p] \in Thread /\ now \in Nat
  BY <1>1 DEF TypeInv, TypeOK, LocalsSet, Time
<1>3. GrantsPast'
  <2>1. \/ active' = [active EXCEPT ![thread[p]] = None]
        \/ active' = [active EXCEPT ![thread[p]] = NewGrant(p)]
        \/ active' = [active EXCEPT ![thread[p]] = active[thread[p]]]
    BY DEF AuthGrant, Revoke, GrantAfter
  <2>2. NewGrant(p).issued = now
    BY DEF NewGrant
  <2> QED BY <1>1, <1>2, <2>1, <2>2 DEF AttemptInv, GrantsPast, TypeInv, TypeOK
<1>4. Attempt(p)'
  BY <1>1 DEF Attempt, WithReceipt
<1>5. \A q \in Proc \ {p} : Attempt(q)'
  BY <1>1, OthersOutside
<1>6. (NoncesOnce /\ LaunchInv /\ RunningInv)'
  BY <1>1 DEF AttemptInv, NoncesOnce, LaunchInv, LaunchFacts, RunningInv
<1> QED BY <1>3, <1>4, <1>5, <1>6 DEF AttemptInv

LEMMA OutsideWorld ==
  ASSUME TypeInv, AttemptInv,
         Tick \/ ReplaceHelper \/ ReplaceTool \/ Reboot \/ (\E p \in Proc : ActionEnds(p))
  PROVE  AttemptInv'
<1>1. CASE Tick
  <2>1. /\ UNCHANGED <<active, pending, consumed, action, launches, pc, thread, bind,
                       receipt, timeout>>
        /\ now \in Nat /\ now' = now + 1
        /\ \A p \in Proc : action[p] # None => now < action[p].stops
        /\ \A p \in Proc : pc[p] = "armed" => now <= timeout[p].at
    BY <1>1 DEF Tick, disk, TypeInv, TypeOK, Time
  <2>2. ASSUME NEW p \in Proc PROVE Attempt(p)'
    <3>1. pc[p] \in WithReceipt => receipt[p].issued \in Nat
      BY DEF TypeInv, LocalsSet, Receipt, Time
    <3>2. pc[p] = "armed" => timeout[p].at \in Nat
      BY DEF TypeInv, LocalsSet, Timeout, Time
    <3>3. pc[p] = "armed" => now' <= timeout'[p].at + 1
      BY <2>1, <3>2
    <3>4. pc[p] \in WithReceipt => ReceiptMine(p)'
      BY <2>1, <3>1 DEF AttemptInv, Attempt, ReceiptMine
    <3> QED BY <2>1, <3>3, <3>4 DEF AttemptInv, Attempt
  <2>3. GrantsPast'
    <3>1. \A t \in Thread : active[t] # None => active[t].issued \in Nat
      BY DEF TypeInv, TypeOK, Grant, Time
    <3> QED BY <2>1, <3>1 DEF AttemptInv, GrantsPast
  <2>4. RunningInv'
    <3>1. \A p \in Proc : action[p] # None => action[p].stops \in Nat
      BY DEF TypeInv, TypeOK, Running
    <3> QED BY <2>1, <3>1 DEF AttemptInv, RunningInv
  <2>5. NoncesOnce' /\ LaunchInv'
    BY <2>1 DEF AttemptInv, NoncesOnce, LaunchInv, LaunchFacts
  <2> QED BY <2>2, <2>3, <2>4, <2>5 DEF AttemptInv
<1>2. CASE ReplaceHelper \/ ReplaceTool
  BY <1>2 DEF ReplaceHelper, ReplaceTool, disk, AttemptInv, Attempt, ReceiptMine, GrantsPast,
              NoncesOnce, LaunchInv, LaunchFacts, RunningInv
<1>3. CASE Reboot
  <2>1. /\ UNCHANGED <<now, active, pending, consumed, launches>>
        /\ \A p \in Proc : pc'[p] = "idle" /\ action'[p] = None
    BY <1>3 DEF Reboot, disk
  <2> QED BY <2>1 DEF AttemptInv, Attempt, WithReceipt, GrantsPast, NoncesOnce, LaunchInv,
                      LaunchFacts, RunningInv
<1>4. ASSUME NEW p \in Proc, ActionEnds(p) PROVE AttemptInv'
  <2>1. /\ UNCHANGED <<now, active, pending, consumed, launches, pc, thread, bind, receipt,
                       timeout>>
        /\ action' = [action EXCEPT ![p] = None]
    BY <1>4 DEF ActionEnds, disk
  <2> QED BY <2>1 DEF AttemptInv, Attempt, ReceiptMine, GrantsPast, NoncesOnce, LaunchInv,
                      LaunchFacts, RunningInv, TypeInv, TypeOK
<1> QED BY <1>1, <1>2, <1>3, <1>4

LEMMA AttemptStep == TypeInv /\ LockInv /\ AttemptInv /\ [Next]_vars => AttemptInv'
<1> SUFFICES ASSUME TypeInv, LockInv, AttemptInv, [Next]_vars PROVE AttemptInv'
  OBVIOUS
<1>1. CASE UNCHANGED vars
  BY <1>1 DEF vars, AttemptInv, Attempt, ReceiptMine, GrantsPast, NoncesOnce, LaunchInv,
              LaunchFacts, RunningInv
<1>2. ASSUME NEW p \in Proc, Stop(p) \/ Finish(p) PROVE AttemptInv'
  BY <1>2, EndAttempt DEF Stop, Finish, disk
<1> QED BY <1>1, <1>2, OutsideAttempt, VerifyAttempt, MarginAttempt, CreateAttempt,
           ConsumeAttempt, LaunchAttempt, GrantAttempt, OutsideWorld
        DEF Next, Step, Authorize, RevokeRun, Execute

LEMMA AttemptAlways == Spec => []AttemptInv
BY TypeInit, TypeStep, LockInit, LockStep, AttemptInit, AttemptStep, PTL DEF Spec

\* A receipt launches one action and has left pending/ when it does, whatever
\* dies between its link into consumed/ and the unlink (consume_receipt).
THEOREM ReceiptUsedOnce == Spec => []OneActionPerReceipt
<1>1. AttemptInv => OneActionPerReceipt
  BY DEF AttemptInv, LaunchInv, LaunchFacts, OneActionPerReceipt
<1> QED BY <1>1, AttemptAlways, PTL

\* The grant, the receipt and the run that launches an action agree on thread,
\* helper, boot and tool, although helper and tool may be replaced between any
\* two checks (--execute).
THEOREM GrantCoversAction == Spec => []BoundToGrant
<1>1. AttemptInv => BoundToGrant
  BY DEF AttemptInv, LaunchInv, LaunchFacts, BoundToGrant
<1> QED BY <1>1, AttemptAlways, PTL

\* For any policy limits, an action starts and is stopped before its receipt
\* expires, and less than a receipt's lifetime after its session's deadline
\* (require_action_margin and the timeout it computes).
THEOREM DeadlinesHold == Spec => []WithinDeadlines
<1>1. TypeInv /\ AttemptInv => WithinDeadlines
  <2> SUFFICES ASSUME TypeInv, AttemptInv PROVE WithinDeadlines
    OBVIOUS
  <2>1. \A p \in Proc : action[p] # None =>
          /\ now \in Nat /\ action[p].stops \in Nat /\ action[p].receipt.expires \in Nat
    BY DEF TypeInv, TypeOK, Running, Receipt, Time
  <2>2. \A p \in Proc : action[p] # None => now <= action[p].receipt.expires
    BY <2>1 DEF AttemptInv, RunningInv
  <2> QED BY <2>2 DEF AttemptInv, LaunchInv, LaunchFacts, WithinDeadlines, WithinReceipt,
                      WithinSession
<1> QED BY <1>1, AttemptAlways, TypeInit, TypeStep, PTL DEF Spec

-----------------------------------------------------------------------------
(* The way to a free lock                                                  *)

\* How many steps under the lock a script has left at most, and one more while
\* its boot action runs.
ScriptLeft(at) ==
  CASE at = "locked" -> 12 [] at = "granted" -> 11 [] at = "preflighted" -> 10
    [] at = "verified" -> 9 [] at = "receipted" -> 8 [] at = "linked" -> 7
    [] at = "spent" -> 6 [] at = "repeated" -> 5 [] at = "reverified" -> 4
    [] at = "armed" -> 3 [] at \in {"booting", "authLocked", "revokeLocked"} -> 1
    [] OTHER -> 0

ActionLeft(a) == IF a # None THEN 1 ELSE 0

Left(p) == ScriptLeft(pc[p]) + ActionLeft(action[p])

\* A descriptor of the lock is open only in a script that is between acquire and
\* release, or in a running action.
NoneLeaked ==
  \A p \in Proc : /\ <<"script", p>> \in lock => pc[p] \in Locked
                  /\ <<"action", p>> \in lock => action[p] # None

\* The lock is free exactly when nobody has anything left to do under it.
LockIsUsed == lock = {} <=> \A p \in Proc : Left(p) = 0

LockCount ==
  /\ \A p \in Proc : (pc[p] \in Locked /\ (Step(p) \/ Stop(p))) \/ ActionEnds(p)
       => Left(p)' < Left(p)
  /\ lock # {} => \A p \in Proc : Left(p)' <= Left(p)

\* What a step does to an invocation other than its own.
Apart(p) == \A q \in Proc \ {p} : Left(q)' = Left(q)

LEMMA LeftIsNat ==
  ASSUME TypeInv
  PROVE  /\ \A p \in Proc : Left(p) \in 0 .. 13
         /\ \A p \in Proc : Left(p) = 0 <=> pc[p] \notin Locked /\ action[p] = None
BY DEF TypeInv, TypeOK, Left, ScriptLeft, ActionLeft

LEMMA NoneLeakedStep == TypeInv /\ LockInv /\ NoneLeaked /\ [Next]_vars => NoneLeaked'
<1> SUFFICES ASSUME TypeInv, LockInv, NoneLeaked, [Next]_vars PROVE NoneLeaked'
  OBVIOUS
<1> USE DEF NoneLeaked
<1>1. ASSUME NEW p \in Proc, NEW at \in Locked \cup Unlocked, Go(p, at),
             UNCHANGED <<lock, action>>, pc[p] \in Locked => at \in Locked
      PROVE  NoneLeaked'
  BY <1>1 DEF TypeInv, TypeOK, Go
<1>2. ASSUME NEW p \in Proc, End(p), UNCHANGED action PROVE NoneLeaked'
  <2>1. \A q \in Proc : q # p => pc'[q] = pc[q] /\ <<"script", q>> # <<"script", p>>
    BY <1>2 DEF TypeInv, TypeOK, End, Go
  <2>2. \A q \in Proc : <<"action", q>> # <<"script", p>>
    OBVIOUS
  <2> QED BY <1>2, <2>1, <2>2 DEF End, Closed
<1>3. ASSUME NEW p \in Proc, NEW from, NEW to \in Locked, Acquire(p, from, to)
      PROVE  NoneLeaked'
  <2>1. /\ lock' = {<<"script", p>>} /\ pc'[p] \in Locked
        /\ \A q \in Proc : <<"script", q>> = <<"script", p>> => q = p
        /\ \A q \in Proc : <<"action", q>> # <<"script", p>>
    BY <1>3 DEF Acquire, Go, TypeInv, TypeOK
  <2> QED BY <2>1
<1>4. ASSUME NEW p \in Proc, Launch(p) PROVE NoneLeaked'
  <2>1. /\ lock' = lock \cup {<<"action", p>>}
        /\ pc' = [pc EXCEPT ![p] = "booting"]
        /\ action' = [action EXCEPT ![p] = Launched(p)]
    BY <1>4 DEF Launch, Go
  <2>2. Launched(p) # None
    BY <1>4, LaunchTypes, NoneAssumption, <2>1 DEF TypeInv, TypeOK, Launch
  <2>3. /\ \A q \in Proc : <<"action", q>> = <<"action", p>> => q = p
        /\ \A q \in Proc : <<"script", q>> # <<"action", p>>
    OBVIOUS
  <2> QED BY <2>1, <2>2, <2>3 DEF TypeInv, TypeOK
<1>5. ASSUME NEW p \in Proc, ActionEnds(p) PROVE NoneLeaked'
  <2>1. \A q \in Proc : q # p => action'[q] = action[q]
    BY <1>5 DEF ActionEnds, TypeInv, TypeOK
  <2> QED BY <1>5, <2>1 DEF ActionEnds
<1>6. ASSUME NEW p \in Proc, Authorize(p) PROVE NoneLeaked'
  BY <1>1, <1>2, <1>3, <1>6 DEF Authorize, AuthPreflight, Check, AuthGrant
<1>7. ASSUME NEW p \in Proc, RevokeRun(p) PROVE NoneLeaked'
  BY <1>2, <1>3, <1>7 DEF RevokeRun, Revoke
<1>8. ASSUME NEW p \in Proc, Execute(p) PROVE NoneLeaked'
  <2>1. CASE \/ CaptureTool(p) \/ VerifyAndPreflight(p) \/ VerifyAgain(p)
             \/ RepeatPreflight(p) \/ VerifyLast(p) \/ RequireMargin(p)
    BY <1>1, <2>1 DEF CaptureTool, VerifyAndPreflight, VerifyAgain, RepeatPreflight,
       VerifyLast, RequireMargin, Check
  <2>2. CASE CreateReceipt(p) \/ LinkConsumed(p) \/ UnlinkPending(p)
    BY <1>1, <2>2 DEF CreateReceipt, LinkConsumed, UnlinkPending
  <2> QED BY <1>2, <1>3, <1>4, <1>8, <2>1, <2>2 DEF Execute, Finish
<1>9. ASSUME NEW p \in Proc, Stop(p) PROVE NoneLeaked'
  BY <1>2, <1>9 DEF Stop
<1>10. ASSUME NEW p \in Proc, NEW mode \in {"authorize", "execute", "revoke"},
              NEW t \in Thread, Begin(p, mode, t)
       PROVE NoneLeaked'
  BY <1>1, <1>10 DEF Begin
<1>11. CASE Tick \/ ReplaceHelper \/ ReplaceTool \/ Reboot \/ UNCHANGED vars
  BY <1>11 DEF Tick, ReplaceHelper, ReplaceTool, Reboot, vars
<1> QED BY <1>5, <1>6, <1>7, <1>8, <1>9, <1>10, <1>11 DEF Next, Step

\* A step of a script that only moves on to another place.
LEMMA MoveCounts ==
  ASSUME TypeInv, NEW p \in Proc, NEW at, Go(p, at), UNCHANGED action
  PROVE  /\ Apart(p)
         /\ Left(p)' = ScriptLeft(at) + ActionLeft(action[p])
BY DEF TypeInv, TypeOK, Go, Apart, Left

\* The steps of a script, before it has the lock and after.
LEMMA StepCounts ==
  ASSUME TypeInv, LockInv, NEW p \in Proc, Step(p) \/ Stop(p)
  PROVE  /\ Apart(p)
         /\ lock # {} => Left(p)' <= Left(p)
         /\ pc[p] \in Locked => Left(p)' < Left(p)
<1> DEFINE Counts == /\ Apart(p)
                     /\ lock # {} => Left(p)' <= Left(p)
                     /\ pc[p] \in Locked => Left(p)' < Left(p)
<1>a. ActionLeft(action[p]) \in {0, 1}
  BY DEF ActionLeft
<1>1. CASE \/ AuthPreflight(p)
           \/ CaptureTool(p) \/ VerifyAndPreflight(p) \/ VerifyAgain(p)
           \/ CreateReceipt(p) \/ LinkConsumed(p) \/ UnlinkPending(p)
           \/ RepeatPreflight(p) \/ VerifyLast(p) \/ RequireMargin(p)
  <2>1. PICK at : /\ Go(p, at) /\ UNCHANGED action
                  /\ ScriptLeft(at) <= ScriptLeft(pc[p])
                  /\ pc[p] \in Locked => ScriptLeft(at) < ScriptLeft(pc[p])
                  /\ ScriptLeft(at) \in Nat /\ ScriptLeft(pc[p]) \in Nat
    BY <1>1 DEF AuthPreflight, CaptureTool, VerifyAndPreflight, VerifyAgain, CreateReceipt,
       LinkConsumed, UnlinkPending, RepeatPreflight, VerifyLast, RequireMargin, Check,
       ScriptLeft
  <2> QED BY <1>a, <2>1, MoveCounts DEF Left
<1>2. CASE \/ Acquire(p, "authorized", "authLocked") \/ Acquire(p, "revoke", "revokeLocked")
           \/ Acquire(p, "execute", "locked")
  <2>1. PICK at : Go(p, at) /\ UNCHANGED action /\ lock = {} /\ pc[p] \notin Locked
    BY <1>2 DEF Acquire
  <2> QED BY <2>1, MoveCounts
<1>3. CASE AuthGrant(p) \/ Revoke(p) \/ Finish(p) \/ Stop(p)
  <2>1. Go(p, "idle") /\ UNCHANGED action
    BY <1>3 DEF AuthGrant, Revoke, Finish, Stop, End
  <2>2. /\ ScriptLeft("idle") = 0 /\ ScriptLeft(pc[p]) \in Nat
        /\ pc[p] \in Locked => ScriptLeft(pc[p]) > 0
    BY DEF TypeInv, TypeOK, ScriptLeft
  <2> QED BY <1>a, <2>1, <2>2, MoveCounts DEF Left
<1>4. CASE Launch(p)
  <2>1. /\ pc[p] = "armed" /\ pc' = [pc EXCEPT ![p] = "booting"]
        /\ action' = [action EXCEPT ![p] = Launched(p)]
    BY <1>4 DEF Launch, Go
  <2>2. Apart(p)
    BY <2>1 DEF TypeInv, TypeOK, Apart, Left
  <2>3. Left(p)' = 1 + ActionLeft(Launched(p)) /\ Left(p) = 3 + ActionLeft(action[p])
    BY <2>1 DEF TypeInv, TypeOK, Left, ScriptLeft
  <2>4. ActionLeft(Launched(p)) \in {0, 1}
    BY DEF ActionLeft
  <2> QED BY <1>a, <2>2, <2>3, <2>4
<1> QED BY <1>1, <1>2, <1>3, <1>4 DEF Step, Authorize, RevokeRun, Execute

\* While anybody has the lock open, no step puts the moment off at which it is
\* free, and each step of its holders brings that moment nearer.
LEMMA LockCounts == TypeInv /\ LockInv /\ [Next]_vars => [LockCount]_vars
<1> SUFFICES ASSUME TypeInv, LockInv, Next PROVE LockCount
  OBVIOUS
<1>n. ASSUME NEW p \in Proc PROVE Left(p) \in Nat
  <2>1. Left(p) \in 0 .. 13
    BY LeftIsNat
  <2> QED BY <2>1
<1>1. ASSUME NEW p \in Proc, ActionEnds(p)
      PROVE  Left(p)' \in Nat /\ Left(p)' < Left(p) /\ Apart(p)
  <2>1. /\ action[p] # None /\ action' = [action EXCEPT ![p] = None] /\ pc' = pc
    BY <1>1 DEF ActionEnds
  <2>2. Left(p)' = ScriptLeft(pc[p]) /\ Left(p) = ScriptLeft(pc[p]) + 1
    BY <2>1 DEF TypeInv, TypeOK, Left, ActionLeft, ScriptLeft
  <2>3. ScriptLeft(pc[p]) \in Nat
    BY DEF ScriptLeft
  <2>4. Apart(p)
    BY <2>1 DEF TypeInv, TypeOK, Apart, Left
  <2> QED BY <2>2, <2>3, <2>4
<1>2. ASSUME lock # {}, NEW q \in Proc PROVE Left(q)' <= Left(q)
  <2>1. ASSUME NEW p \in Proc, Step(p) \/ Stop(p) \/ ActionEnds(p)
        PROVE  Left(q)' <= Left(q)
    <3>1. CASE q = p
      <4>1. CASE Step(p) \/ Stop(p)
        BY <1>2, <3>1, <4>1, StepCounts
      <4>2. CASE ActionEnds(p)
        BY <1>1, <3>1, <4>2, <1>n
      <4> QED BY <2>1, <4>1, <4>2
    <3>2. CASE q # p
      <4>1. Apart(p)
        BY <1>1, <2>1, StepCounts
      <4>2. Left(q)' = Left(q)
        BY <3>2, <4>1 DEF Apart
      <4> QED BY <1>n, <4>2
    <3> QED BY <3>1, <3>2
  <2>2. ASSUME NEW p \in Proc, NEW mode \in {"authorize", "execute", "revoke"},
               NEW t \in Thread, Begin(p, mode, t)
        PROVE  Left(q)' <= Left(q)
    <3>1. pc[p] = "idle" /\ Go(p, mode) /\ UNCHANGED action
      BY <2>2 DEF Begin
    <3>2. ScriptLeft(mode) = 0 /\ ScriptLeft("idle") = 0
      BY DEF ScriptLeft
    <3>3. Apart(p) /\ Left(p)' = Left(p)
      BY <3>1, <3>2, MoveCounts DEF Left
    <3> QED BY <1>n, <3>3 DEF Apart
  <2>3. CASE Tick \/ ReplaceHelper \/ ReplaceTool
    <3>1. UNCHANGED <<pc, action>>
      BY <2>3 DEF Tick, ReplaceHelper, ReplaceTool
    <3> QED BY <1>n, <3>1 DEF Left
  <2>4. CASE Reboot
    <3>1. Left(q)' = 0
      BY <2>4 DEF Reboot, Left, ScriptLeft, ActionLeft
    <3> QED BY <1>n, <3>1
  <2> QED BY <2>1, <2>2, <2>3, <2>4 DEF Next
<1> QED BY <1>1, <1>2, StepCounts DEF LockCount

\* No descriptor of execute.lock outlives what it was opened for, and the lock
\* is at most thirteen steps of its holders from being free: nothing another
\* invocation does, and no kill, adds to them while anybody has it open.
THEOREM GateComesFree ==
  Spec => /\ [](LockIsUsed /\ \A p \in Proc : Left(p) \in 0 .. 13)
          /\ [][LockCount]_vars
<1>1. Init => NoneLeaked
  BY DEF Init, NoneLeaked
<1>2. TypeInv /\ LockInv /\ NoneLeaked => LockIsUsed
  <2> SUFFICES ASSUME TypeInv, LockInv, NoneLeaked PROVE LockIsUsed
    OBVIOUS
  <2>1. lock \subseteq ({"script", "action"} \X Proc)
    BY DEF TypeInv, TypeOK
  <2>2. ASSUME lock # {}
        PROVE  \E p \in Proc : <<"script", p>> \in lock \/ <<"action", p>> \in lock
    <3>1. PICK x \in lock : TRUE
      BY <2>2
    <3>2. PICK p \in Proc : x = <<"script", p>> \/ x = <<"action", p>>
      BY <2>1, <3>1
    <3> QED BY <3>1, <3>2
  <2>3. \A p \in Proc : /\ <<"script", p>> \in lock <=> pc[p] \in Locked
                        /\ <<"action", p>> \in lock <=> action[p] # None
    BY DEF LockInv, ScriptHolds, ActionHolds, NoneLeaked
  <2> QED BY <2>2, <2>3, LeftIsNat DEF LockIsUsed
<1>3. TypeInv => \A p \in Proc : Left(p) \in 0 .. 13
  BY LeftIsNat
<1> QED BY <1>1, <1>2, <1>3, TypeInit, TypeStep, LockInit, LockStep, NoneLeakedStep,
           LockCounts, PTL DEF Spec
=============================================================================
