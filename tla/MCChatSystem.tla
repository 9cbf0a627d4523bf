---------------------------- MODULE MCChatSystem ----------------------------
(***************************************************************************)
(* Two clients, and one user name that both contend for; three groups, two *)
(* of them in one bucket and mangled into each other; a pool of two        *)
(* addresses.                                                              *)
(***************************************************************************)
EXTENDS ChatSystem, TLC

CONSTANTS c1, c2, ab, ba, pw1, pw2, g12, g21, g33

TwoClients    == {c1, c2}
MCUsers       == {ab}
OnePassword   == {pw1}
TwoPasswords  == {pw1, pw2}
MCGroups      == {g12, g21, g33}
MCBuckets     == 0 .. 1
MCUserBucket  == [u \in MCUsers |-> 0]
MCGroupBucket == [g \in MCGroups |-> IF g = g33 THEN 1 ELSE 0]
MCMangled     == [g \in MCGroups |-> CASE g = g12 -> g21 [] g = g21 -> g12 [] g = g33 -> g33]
MCCapacity    == 2
MCSizeT       == 16

Symmetry == Permutations(TwoClients)

\* The scratch of the last request and the histories that no property here reads.
View == <<m_userNames, m_groupNames, m_addIPPool, registered, service, client>>
=============================================================================
