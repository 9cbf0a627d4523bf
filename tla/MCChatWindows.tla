--------------------------- MODULE MCChatWindows ---------------------------
(***************************************************************************)
(* Two clients, four windows, one restart of the server.  Three groups     *)
(* whose names fall into one bucket, and a pool with addresses for two of  *)
(* them: a third group, after two openings that were broken off, shares    *)
(* the first one's.                                                        *)
(***************************************************************************)
EXTENDS ChatWindows, TLC

CONSTANTS c1, c2, g1, g2, g3

MCClients == {c1, c2}
MCGroups == {g1, g2, g3}
MCGroupBucket == [g \in MCGroups |-> 0]
MCCapacity == 2
MCSizeT == 4
Symmetry == Permutations(MCClients) \cup Permutations(MCGroups)
=============================================================================
