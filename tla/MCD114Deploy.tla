---------------------------- MODULE MCD114Deploy ----------------------------
(* Instances of D114Deploy for TLC.                                        *)
EXTENDS D114Deploy

CONSTANT p1

\* Invocations meet within the first second; the clock then runs while only one
\* of them does.
OneInvocationInTime ==
  now > 0 => \A q \in Proc \ {p1} : pc[q] = "idle"
=============================================================================
