--------------------------- MODULE RequestService ---------------------------
(***************************************************************************)
(* What the server's event loop promises its clients, without the loop:    *)
(* connections are accepted in their order, a request is answered once or  *)
(* lost with its connection, and the server may close a connection at any  *)
(* time, or end.  ServerTCP implements it; the clients are specified on    *)
(* top of it.                                                              *)
(***************************************************************************)
EXTENDS Naturals, Sequences, FiniteSets

CONSTANTS Conns,          \* descriptors of client connections
          CLIENTS_LIMIT,  \* 1000 in the build
          BackLog         \* connections the kernel holds until accept

VARIABLES up,        \* the server runs
          sock,      \* the server's end of each connection
          backlog,   \* connections waiting for accept, oldest first
          request,   \* a request lies unread at the server's end
          peer       \* the client's end: up, fin (closed) or rst (reset)

vars == <<up, sock, backlog, request, peer>>

Open == {c \in Conns : sock[c] = "open"}

Init ==
  /\ up = TRUE
  /\ sock = [c \in Conns |-> "closed"]
  /\ backlog = << >>
  /\ request = [c \in Conns |-> FALSE]
  /\ peer = [c \in Conns |-> "up"]

(***************************************************************************)
(* The client's end.                                                       *)
(***************************************************************************)
Connect(c) ==
  /\ up /\ sock[c] = "closed" /\ Len(backlog) < BackLog
  /\ sock' = [sock EXCEPT ![c] = "backlog"]
  /\ backlog' = Append(backlog, c)
  /\ UNCHANGED <<up, request, peer>>

Send(c) ==
  /\ up /\ sock[c] # "closed" /\ peer[c] = "up" /\ ~request[c]
  /\ request' = [request EXCEPT ![c] = TRUE]
  /\ UNCHANGED <<up, sock, backlog, peer>>

Hangup(c) ==
  /\ up /\ sock[c] # "closed" /\ peer[c] # "rst"
  /\ \E how \in {"fin", "rst"} \ {peer[c]} : peer' = [peer EXCEPT ![c] = how]
  /\ UNCHANGED <<up, sock, backlog, request>>

(***************************************************************************)
(* The server's end.                                                       *)
(***************************************************************************)
Close(S) ==
  /\ sock' = [c \in Conns |-> IF c \in S THEN "closed" ELSE sock[c]]
  /\ request' = [c \in Conns |-> request[c] /\ c \notin S]
  /\ peer' = [c \in Conns |-> IF c \in S THEN "up" ELSE peer[c]]

Accept ==
  /\ up /\ backlog # << >>
  /\ sock' = [sock EXCEPT ![Head(backlog)] = "open"]
  /\ backlog' = Tail(backlog)
  /\ UNCHANGED <<up, request, peer>>

\* A connection is refused only above the limit.
Refuse ==
  /\ up /\ backlog # << >> /\ CLIENTS_LIMIT < Cardinality(Open)
  /\ Close({Head(backlog)})
  /\ backlog' = Tail(backlog)
  /\ UNCHANGED up

\* Defect: the request is read and answered but stays in the socket.
DefectServeKeepsRequest(c) ==
  /\ up /\ sock[c] = "open" /\ request[c] /\ peer[c] # "rst"
  /\ UNCHANGED <<up, sock, backlog, request, peer>>

Serve(c) ==
  /\ up /\ sock[c] = "open" /\ request[c] /\ peer[c] # "rst"
  /\ request' = [request EXCEPT ![c] = FALSE]
  /\ UNCHANGED <<up, sock, backlog, peer>>

\* The client has gone, or its answer could not be sent.
Gone(c) ==
  /\ up /\ sock[c] = "open"
  /\ IF request[c] THEN peer[c] = "rst" ELSE peer[c] # "up"
  /\ Close({c})
  /\ UNCHANGED <<up, backlog>>

\* The time of the clients in S is over.
Expire(S) ==
  /\ up /\ S # {} /\ S \subseteq Open
  /\ Close(S)
  /\ UNCHANGED <<up, backlog>>

\* The process ends, by SIGINT or by dying: the kernel closes everything.
Down ==
  /\ up /\ up' = FALSE
  /\ Close(Conns)
  /\ backlog' = << >>

Next ==
  \/ \E c \in Conns : Connect(c) \/ Send(c) \/ Hangup(c) \/ Serve(c) \/ Gone(c)
  \/ Accept \/ Refuse \/ Down
  \/ \E S \in SUBSET Conns : Expire(S)

Spec == Init /\ [][Next]_vars
=============================================================================
