---------------------------- MODULE MCSealStore ----------------------------
(***************************************************************************)
(* Crews of two of the programs; a store that starts with an older seal of *)
(* the earlier schema and two of the generation after it.                  *)
(***************************************************************************)
EXTENDS SealStore

CONSTANTS k1, k2, i1, i2, a1, a2, l1, l2, c1, c2, bad
MCContent == {c1, c2, bad}
MCSound == {c1, c2}
MCPacker == {k1, k2}
MCInstaller == {i1, i2}
MCAdmin == {a1, a2}
MCLauncher == {l1, l2}
MCCrews == {{k1, k2}, {k1, i1}, {i1, i2}, {a1, a2}, {i1, a1}, {a1, l1}, {l1, l2}}
MCPackGen == [k \in MCPacker |-> 3]
Seal(c, g, v) == [content |-> c, commit |-> c, gen |-> g, current |-> v]
MCInstalled0 == {Seal(c1, 1, FALSE), Seal(c1, 2, TRUE), Seal(c2, 2, TRUE)}
MCStray == {[man |-> Seal(c2, 3, TRUE), body |-> c2],
            [man |-> Seal(c2, 3, TRUE), body |-> None],
            [man |-> Seal(bad, 3, TRUE), body |-> bad],
            [man |-> Seal(c1, 1, FALSE), body |-> c1]}
=============================================================================
