---------------------------- MODULE WriteTicket ----------------------------
(***************************************************************************)
(* What a one-use approval of a userdata write promises, without the       *)
(* processes, files and clocks that implement it.                          *)
(*                                                                         *)
(* A ticket is spent before anything is written under it, at most one      *)
(* write starts under it, and a verdict that names an outcome is never     *)
(* wrong: "refused" means that no write ever starts, then or later, and    *)
(* "completed" that the write ran to its end.  "unknown" may always be     *)
(* said of a spent ticket, and does not stop a write that may still start. *)
(***************************************************************************)
EXTENDS Naturals

CONSTANT Ticket

VARIABLES
  spent,      \* tickets that have been consumed
  closed,     \* spent tickets under which no write will start
  started,    \* the number of writes started under each ticket
  finished,   \* tickets whose write ran to its end
  verdicts    \* what has been published: pairs <<ticket, verdict>>

Verdict == {"refused", "completed", "unknown"}

TypeOK ==
  /\ spent \subseteq Ticket
  /\ closed \subseteq spent
  /\ started \in [Ticket -> 0..1]
  /\ finished \subseteq spent
  /\ verdicts \subseteq Ticket \X Verdict

Init ==
  /\ spent = {}
  /\ closed = {}
  /\ started = [t \in Ticket |-> 0]
  /\ finished = {}
  /\ verdicts = {}

\* More than one at a time: it may take a loss of power to settle which are spent.
Spend(T) ==
  /\ T \cap spent = {}
  /\ spent' = spent \cup T
  /\ UNCHANGED <<closed, started, finished, verdicts>>

Close(t) ==
  /\ t \in spent \ closed
  /\ started[t] = 0
  /\ closed' = closed \cup {t}
  /\ UNCHANGED <<spent, started, finished, verdicts>>

Start(t) ==
  /\ t \in spent \ closed
  /\ started[t] = 0
  /\ started' = [started EXCEPT ![t] = 1]
  /\ UNCHANGED <<spent, closed, finished, verdicts>>

Finish(t) ==
  /\ started[t] = 1
  /\ finished' = finished \cup {t}
  /\ UNCHANGED <<spent, closed, started, verdicts>>

Publish(t, v) ==
  /\ t \in spent
  /\ v = "refused" => t \in closed
  /\ v = "completed" => t \in finished
  /\ verdicts' = verdicts \cup {<<t, v>>}
  /\ UNCHANGED <<spent, closed, started, finished>>

Next ==
  \/ \E T \in SUBSET Ticket : Spend(T)
  \/ \E t \in Ticket :
       \/ Close(t) \/ Start(t) \/ Finish(t)
       \/ \E v \in Verdict : Publish(t, v)

vars == <<spent, closed, started, finished, verdicts>>

Spec == Init /\ [][Next]_vars
=============================================================================
