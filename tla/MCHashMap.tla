---------------------------- MODULE MCHashMap ----------------------------
(***************************************************************************)
(* Two stable keys and a buffer, three texts and two values.  Capacities 1 *)
(* and 2 make tables of one and two buckets where texts collide, capacity  *)
(* 9 one of eleven buckets.                                                *)
(***************************************************************************)
EXTENDS HashMap, TLC

CONSTANTS k1, k2, b1, v1, v2

MCTexts == {"ab", "ba", "c"}
MCHash == [t \in MCTexts |-> IF t = "c" THEN 4 ELSE 3]
MCCapacities == {1, 2, 9}
MCStable == {k1, k2}
MCBuffers == {b1}
MCValues == {v1, v2}
Symmetry == Permutations(MCStable) \cup Permutations(MCValues)
=============================================================================
