----------------------------- MODULE MCServerApp -----------------------------
(***************************************************************************)
(* Three users, two of them in one bucket; four groups, two of them in one *)
(* bucket, so three groups can exist; a pool of two addresses, so that the *)
(* third group meets the exhausted pool.                                   *)
(***************************************************************************)
EXTENDS ServerApp

CONSTANTS ab, ba, cd, pw1, pw2, g12, g21, g33, g44

MCUsers       == {ab, ba, cd}
MCPasswords   == {pw1, pw2}
MCGroups      == {g12, g21, g33, g44}
MCBuckets     == 0 .. 2
MCUserBucket  == [u \in MCUsers |-> IF u = cd THEN 1 ELSE 0]
MCGroupBucket == [g \in MCGroups |-> CASE g \in {g12, g21} -> 0
                                       [] g = g33 -> 1
                                       [] g = g44 -> 2]
MCCapacity    == 2
MCSizeT       == 16
MCMaxPartic   == 2
=============================================================================
