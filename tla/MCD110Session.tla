--------------------------- MODULE MCD110Session ---------------------------
(* Instances of D110Session for TLC.                                       *)
EXTENDS D110Session

CONSTANTS h1, f1, p1, n1

\* Two invocations meet early on, with helper, tool and host as they were; the
\* rest of the time, and every replacement, is for one of them alone, with one
\* receipt.
MeetUndisturbed ==
  \/ now <= 1 /\ helper = h1 /\ tool = f1 /\ host = 1
  \/ /\ \A q \in Proc \ {p1} : pc[q] = "idle"
     /\ \A r \in pending \cup consumed : r.nonce = n1
=============================================================================
