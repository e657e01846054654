--------------------------- MODULE MCSealedBuild ---------------------------
(* An instance of SealedBuild: two cache files, and package sets that       *)
(* differ in a pinned package, in an unpinned one, and in being allowed.    *)
EXTENDS SealedBuild

MCPkgs == {[ssh |-> 1, rest |-> 1, allowed |-> TRUE],
           [ssh |-> 1, rest |-> 2, allowed |-> TRUE],
           [ssh |-> 2, rest |-> 1, allowed |-> TRUE],
           [ssh |-> 1, rest |-> 1, allowed |-> FALSE]}
=============================================================================
