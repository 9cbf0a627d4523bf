----------------------------- MODULE MCServerTCP -----------------------------
(***************************************************************************)
(* Three descriptors against a limit of one, so that two clients get in    *)
(* and the third is refused.  The liveness properties are stated of c1:    *)
(* ServerTCP tells its connections apart by nothing but what they do.      *)
(***************************************************************************)
EXTENDS ServerTCP

CONSTANTS c1, c2, c3

TwoConns   == {c1, c2}
ThreeConns == {c1, c2, c3}

\* A request of an accepted client (ReceiveAndSend) is answered, or lost with
\* its connection, whoever else keeps sending.
RequestOfC1Served == RequestServed(c1)

\* While all clients are silent (Check_expiry_of_Clients) a connection stays
\* open for ever for no other reason than the hang.
C1ExpiresUnlessHung == SilentClientsExpireUnlessHung(c1)

\* One of the three is kept: GetTTL's "oldest client" (server_tcp.c:545), the
\* "maximum" of server_tcp.h:66, the expiry of silent clients (server_tcp.c:44).
\* A behaviour that keeps none, under a fair thread and clock, refutes each.
LoopAsCommented == []TimerIsOldest \/ []LimitKept \/ SilentClientsExpire(c1)
=============================================================================
