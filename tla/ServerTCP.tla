------------------------------ MODULE ServerTCP ------------------------------
(***************************************************************************)
(* The event loop of the server, ServerTCP/server_tcp.c: one thread that   *)
(* selects on the listening socket and on its clients' sockets, accepts,   *)
(* answers requests and drops clients whose time is over.  Around it run   *)
(* the clients, the clock and the operator's SIGINT.                       *)
(*                                                                         *)
(* A connection c stands for the descriptor it gets: once c is closed a    *)
(* new connection may take it over, as a descriptor is reused.  Expiry     *)
(* times are kept as the ticks left to them, and what lies in the past is  *)
(* -1, so time is unbounded and the state space finite.  A clock tick may  *)
(* fall between any two steps.                                             *)
(***************************************************************************)
EXTENDS Integers, Sequences, FiniteSets

CONSTANTS Conns,          \* descriptors of client connections
          Master,         \* the listening socket
          End,            \* the iterator past the last client
          CLIENTS_LIMIT,  \* 1000 in the build
          m_maxWaitTime,  \* ticks a client may stay silent, 300 s in the build
          BackLog         \* connections the kernel holds until accept

ASSUME ConnAssumption ==
  /\ IsFiniteSet(Conns)
  /\ Master \notin Conns /\ End \notin Conns
  /\ CLIENTS_LIMIT \in Nat
  /\ m_maxWaitTime \in Nat \ {0}
  /\ BackLog \in Nat \ {0}

VARIABLES
  \* the server
  pc,                      \* the step of RunServer's loop
  stop,                    \* set by the SIGINT handler
  m_List_connectedClient,  \* the clients, head first
  m_client_timeout,        \* ticks left to each client
  m_master_fds,            \* descriptors to select on
  m_forSelect_fds,         \* the copy select reduces to the ready ones
  m_timeout,               \* the timer handed to select
  m_activity,              \* number of ready descriptors left
  iter,                    \* ReceiveAndSend's iterator: a client or End
  \* kernel and clients
  sock,                    \* the server's end of each connection
  backlog,                 \* connections waiting for accept, oldest first
  request,                 \* a request lies unread at the server's end
  peer                     \* the client's end: up, fin (closed) or rst (reset)

server == <<pc, stop, m_List_connectedClient, m_client_timeout, m_master_fds,
            m_forSelect_fds, m_timeout, m_activity, iter>>
network == <<sock, backlog, request, peer>>
vars == <<pc, stop, m_List_connectedClient, m_client_timeout, m_master_fds,
          m_forSelect_fds, m_timeout, m_activity, iter, sock, backlog, request, peer>>

Forever == m_maxWaitTime + 1      \* select's NULL timeout

\* Between two rounds the loop's working values are dead: each is assigned
\* again before it is read.  The model clears them.
ForgetRound ==
  m_forSelect_fds' = {} /\ m_timeout' = Forever /\ m_activity' = 0 /\ iter' = End

Running == pc \notin {"done", "crashed"}

Clients(list) == {list[i] : i \in DOMAIN list}

\* ListItr_Remove of the node that an iterator to c stands on.
Without(list, c) ==
  LET at == CHOOSE i \in DOMAIN list : list[i] = c
  IN SubSeq(list, 1, at - 1) \o SubSeq(list, at + 1, Len(list))

ListItr_Begin(list) == IF list = << >> THEN End ELSE Head(list)
ListItr_Next(list, c) ==
  LET later == {i \in 2 .. Len(list) : list[i - 1] = c}
  IN IF later = {} THEN End ELSE list[CHOOSE i \in later : TRUE]

Readable(c) == request[c] \/ peer[c] # "up"

\* What select reports ready of the descriptors it was given.
Ready ==
  {d \in m_forSelect_fds : IF d = Master THEN backlog # << >> ELSE Readable(d)}

Init ==
  /\ pc = "loop"
  /\ stop = FALSE
  /\ m_List_connectedClient = << >>
  /\ m_client_timeout = [c \in Conns |-> 0]
  /\ m_master_fds = {Master}
  /\ m_forSelect_fds = {}
  /\ m_timeout = Forever
  /\ m_activity = 0
  /\ iter = End
  /\ sock = [c \in Conns |-> "closed"]
  /\ backlog = << >>
  /\ request = [c \in Conns |-> FALSE]
  /\ peer = [c \in Conns |-> "up"]

(***************************************************************************)
(* Clients, clock and operator.                                            *)
(***************************************************************************)
Connect(c) ==
  /\ Running
  /\ sock[c] = "closed"
  /\ Len(backlog) < BackLog
  /\ sock' = [sock EXCEPT ![c] = "backlog"]
  /\ backlog' = Append(backlog, c)
  /\ UNCHANGED <<server, request, peer>>

\* A client waits for the answer before it sends its next request.
Send(c) ==
  /\ Running
  /\ sock[c] # "closed" /\ peer[c] = "up" /\ ~request[c]
  /\ request' = [request EXCEPT ![c] = TRUE]
  /\ UNCHANGED <<server, sock, backlog, peer>>

Hangup(c) ==
  /\ Running
  /\ sock[c] # "closed" /\ peer[c] # "rst"
  /\ \/ peer[c] = "up" /\ peer' = [peer EXCEPT ![c] = "fin"]
     \/ peer' = [peer EXCEPT ![c] = "rst"]
  /\ UNCHANGED <<server, sock, backlog, request>>

\* select's timer runs only while the thread is in select.
Tick ==
  LET Less(t) == IF t > 0 THEN t - 1 ELSE -1 IN
  /\ Running
  /\ m_client_timeout' =
       [c \in Conns |-> IF c \in Clients(m_List_connectedClient)
                        THEN Less(m_client_timeout[c]) ELSE m_client_timeout[c]]
  /\ m_timeout' = IF pc = "select" /\ m_timeout # Forever
                  THEN Less(m_timeout) ELSE m_timeout
  /\ UNCHANGED <<pc, stop, m_List_connectedClient, m_master_fds, m_forSelect_fds,
                 m_activity, iter, network>>

\* The handler only sets the flag; a select in progress fails with EINTR.
SignalHandler ==
  /\ Running
  /\ ~stop
  /\ stop' = TRUE
  /\ IF pc = "select"
     THEN pc' = "loop" /\ ForgetRound
     ELSE UNCHANGED <<pc, m_forSelect_fds, m_timeout, m_activity, iter>>
  /\ UNCHANGED <<m_List_connectedClient, m_client_timeout, m_master_fds, network>>

(***************************************************************************)
(* RunServer: the head of the loop and select.                             *)
(***************************************************************************)
\* Defect: select never gets a timer.
DefectNoTimer(list) == Forever

\* GetTTL reads the client at the head of the list; Check_list_empty decides
\* whether there is one.
GetTTL(list) == IF list = << >> THEN Forever ELSE m_client_timeout[Head(list)]

\* Defect: the loop runs on whatever stop says.
DefectIgnoresStop ==
  /\ pc = "loop"
  /\ m_forSelect_fds' = m_master_fds
  /\ m_timeout' = GetTTL(m_List_connectedClient)
  /\ pc' = "poll"
  /\ UNCHANGED <<stop, m_List_connectedClient, m_client_timeout, m_master_fds,
                 m_activity, iter, network>>

StartRound ==
  /\ pc = "loop" /\ ~stop
  /\ m_forSelect_fds' = m_master_fds
  /\ m_timeout' = GetTTL(m_List_connectedClient)
  /\ pc' = "poll"
  /\ UNCHANGED <<stop, m_List_connectedClient, m_client_timeout, m_master_fds,
                 m_activity, iter, network>>

\* A negative timer is EINVAL, and the loop starts again.
EnterSelect ==
  /\ pc = "poll"
  /\ \/ /\ m_timeout < 0
        /\ pc' = "loop"
        /\ ForgetRound
     \/ /\ m_timeout >= 0
        /\ pc' = "select"
        /\ UNCHANGED <<m_forSelect_fds, m_timeout, m_activity, iter>>
  /\ UNCHANGED <<stop, m_List_connectedClient, m_client_timeout, m_master_fds, network>>

SelectReady ==
  /\ pc = "select"
  /\ Ready # {}
  /\ m_forSelect_fds' = Ready
  /\ m_activity' = Cardinality(Ready)
  /\ pc' = IF Master \in Ready THEN "accept" ELSE "serve"
  /\ iter' = ListItr_Begin(m_List_connectedClient)
  /\ m_timeout' = Forever
  /\ UNCHANGED <<stop, m_List_connectedClient, m_client_timeout, m_master_fds, network>>

SelectTimeout ==
  /\ pc = "select"
  /\ Ready = {} /\ m_timeout <= 0
  /\ m_activity' = 0
  /\ pc' = "expire"
  /\ UNCHANGED <<stop, m_List_connectedClient, m_client_timeout, m_master_fds,
                 m_forSelect_fds, m_timeout, iter, network>>

(***************************************************************************)
(* Check_expiry_of_Clients, AddClientToTheList, ReceiveAndSend.            *)
(***************************************************************************)
\* close() and free() of the clients in S; the network forgets the connection.
CloseClients(S) ==
  /\ sock' = [c \in Conns |-> IF c \in S THEN "closed" ELSE sock[c]]
  /\ request' = [c \in Conns |-> request[c] /\ c \notin S]
  /\ peer' = [c \in Conns |-> IF c \in S THEN "up" ELSE peer[c]]
  /\ m_client_timeout' = [c \in Conns |-> IF c \in S THEN 0 ELSE m_client_timeout[c]]

\* Defect: the times are compared with >=, a client in its last tick goes too.
DefectExpiresEarly ==
  LET list == m_List_connectedClient
      Expired(i) == m_client_timeout[list[i]] <= 0
  IN {i \in DOMAIN list : \A j \in 1 .. i : Expired(j)}

\* Clients are dropped from the head up to the first whose time is not over,
\* with whatever request they have sent since select returned.
ExpiredPrefix ==
  LET list == m_List_connectedClient
      Expired(i) == m_client_timeout[list[i]] < 0
  IN {i \in DOMAIN list : \A j \in 1 .. i : Expired(j)}

\* Defect: the descriptors of the dropped clients stay in m_master_fds.
DefectExpireKeepsFd ==
  /\ pc = "expire"
  /\ m_List_connectedClient' =
       SubSeq(m_List_connectedClient, Cardinality(ExpiredPrefix) + 1,
              Len(m_List_connectedClient))
  /\ CloseClients({m_List_connectedClient[i] : i \in ExpiredPrefix})
  /\ pc' = "loop"
  /\ ForgetRound
  /\ UNCHANGED <<stop, m_master_fds, backlog>>

Check_expiry_of_Clients ==
  LET dropped == {m_List_connectedClient[i] : i \in ExpiredPrefix} IN
  /\ pc = "expire"
  /\ m_List_connectedClient' =
       SubSeq(m_List_connectedClient, Cardinality(ExpiredPrefix) + 1,
              Len(m_List_connectedClient))
  /\ m_master_fds' = m_master_fds \ dropped
  /\ CloseClients(dropped)
  /\ pc' = "loop"
  /\ ForgetRound
  /\ UNCHANGED <<stop, backlog>>

\* Defect: the limit is compared with <=, and the last free place is refused.
DefectRefusesLast(n) == CLIENTS_LIMIT <= n

\* The list is measured after accept and before the client is added.
TooManyClients(n) == CLIENTS_LIMIT < n

\* Defect: the wait time is added to what was left of the last one.
DefectTimeAdded(c) == [m_client_timeout EXCEPT ![c] = @ + m_maxWaitTime]

UpdateTimeForClient(c) == [m_client_timeout EXCEPT ![c] = m_maxWaitTime]

AddClientToTheList ==
  LET c == Head(backlog) IN
  /\ pc = "accept"
  /\ backlog' = Tail(backlog)
  /\ IF TooManyClients(Len(m_List_connectedClient))
     THEN /\ CloseClients({c})
          /\ UNCHANGED <<m_List_connectedClient, m_master_fds>>
     ELSE /\ sock' = [sock EXCEPT ![c] = "open"]
          /\ m_master_fds' = m_master_fds \cup {c}
          /\ m_client_timeout' = UpdateTimeForClient(c)
          /\ m_List_connectedClient' = Append(m_List_connectedClient, c)
          /\ UNCHANGED <<request, peer>>
  /\ pc' = "serve"
  /\ iter' = ListItr_Begin(m_List_connectedClient')
  /\ UNCHANGED <<stop, m_forSelect_fds, m_timeout, m_activity>>

Serving(c) == pc = "serve" /\ m_activity > 0 /\ iter = c

Skip(c) ==
  /\ Serving(c) /\ c \notin m_forSelect_fds
  /\ iter' = ListItr_Next(m_List_connectedClient, c)
  /\ UNCHANGED <<pc, stop, m_List_connectedClient, m_client_timeout, m_master_fds,
                 m_forSelect_fds, m_timeout, m_activity, network>>

\* Defect: a served client goes to the tail, where the iteration meets it again.
DefectPushTail(list, c) == Append(Without(list, c), c)

\* A served client is taken out of the list and pushed back at its head.
Served(list, c) == <<c>> \o Without(list, c)

\* recv, the application function and send succeed; the client's time is
\* renewed.  A client that has closed still gets its answer sent.
ServeRequest(c) ==
  /\ Serving(c) /\ c \in m_forSelect_fds
  /\ request[c] /\ peer[c] # "rst"
  /\ request' = [request EXCEPT ![c] = FALSE]
  /\ m_client_timeout' = UpdateTimeForClient(c)
  /\ m_List_connectedClient' = Served(m_List_connectedClient, c)
  /\ iter' = ListItr_Next(m_List_connectedClient, c)
  /\ m_activity' = m_activity - 1
  /\ UNCHANGED <<pc, stop, m_master_fds, m_forSelect_fds, m_timeout, sock, backlog, peer>>

\* recv finds the connection closed (goodbye is called), or send fails on a
\* reset one: the client is closed and removed, and the iterator is advanced
\* through the freed node, whose link still reads as it was.
DropGone(c) ==
  /\ CloseClients({c})
  /\ m_master_fds' = m_master_fds \ {c}
  /\ m_List_connectedClient' = Without(m_List_connectedClient, c)
  /\ iter' = ListItr_Next(m_List_connectedClient, c)
  /\ m_activity' = m_activity - 1
  /\ UNCHANGED <<pc, backlog>>

\* Or the process dies: on the allocator's bookkeeping in the freed node, or on
\* the SIGPIPE of a send to a client that closed before it reset.  The kernel
\* closes its descriptors.
Crash ==
  /\ pc' = "crashed"
  /\ CloseClients(Conns)
  /\ backlog' = << >>
  /\ UNCHANGED <<m_List_connectedClient, m_master_fds, m_activity, iter>>

ServeGone(c) ==
  /\ Serving(c) /\ c \in m_forSelect_fds
  /\ IF request[c] THEN peer[c] = "rst" ELSE peer[c] # "up"
  /\ DropGone(c) \/ Crash
  /\ UNCHANGED <<stop, m_forSelect_fds, m_timeout>>

EndRound ==
  /\ pc = "serve"
  /\ m_activity = 0 \/ iter = End
  /\ pc' = "loop"
  /\ ForgetRound
  /\ UNCHANGED <<stop, m_List_connectedClient, m_client_timeout, m_master_fds, network>>

DestroyServer ==
  /\ pc = "loop" /\ stop
  /\ m_master_fds' = {}
  /\ m_forSelect_fds' = {}
  /\ m_List_connectedClient' = << >>
  /\ CloseClients(Conns)
  /\ backlog' = << >>
  /\ pc' = "done"
  /\ UNCHANGED <<stop, m_timeout, m_activity, iter>>

Server ==
  \/ StartRound \/ EnterSelect \/ SelectReady \/ SelectTimeout
  \/ Check_expiry_of_Clients \/ AddClientToTheList
  \/ (\E c \in Conns : Skip(c) \/ ServeRequest(c) \/ ServeGone(c)) \/ EndRound
  \/ DestroyServer

Environment ==
  \/ \E c \in Conns : Connect(c) \/ Send(c) \/ Hangup(c)
  \/ Tick
  \/ SignalHandler

Next == Server \/ Environment

Spec == Init /\ [][Next]_vars

\* The thread runs and time passes.  Nothing is assumed of the clients.
Fairness == WF_vars(Server) /\ WF_vars(Tick)

FairSpec == Spec /\ Fairness
-----------------------------------------------------------------------------
\* Every field of the server and of its connections keeps its type.
TypeOK ==
  /\ pc \in {"loop", "poll", "select", "expire", "accept", "serve", "done", "crashed"}
  /\ stop \in BOOLEAN
  /\ m_List_connectedClient \in Seq(Conns)
  /\ m_client_timeout \in [Conns -> -1 .. m_maxWaitTime]
  /\ m_master_fds \subseteq Conns \cup {Master}
  /\ m_forSelect_fds \subseteq Conns \cup {Master}
  /\ m_timeout \in -1 .. Forever
  /\ m_activity \in 0 .. Cardinality(Conns) + 1
  /\ iter \in Conns \cup {End}
  /\ sock \in [Conns -> {"closed", "backlog", "open"}]
  /\ backlog \in Seq(Conns) /\ Len(backlog) <= BackLog
  /\ request \in [Conns -> BOOLEAN]
  /\ peer \in [Conns -> {"up", "fin", "rst"}]

\* The client list, the descriptor set and the open sockets are the same set
\* of connections, and no client is listed twice: no descriptor is leaked,
\* selected on after its close, or served through two list nodes.
DescriptorsAgree ==
  Running =>
    /\ m_master_fds = Clients(m_List_connectedClient) \cup {Master}
    /\ Clients(m_List_connectedClient) = {c \in Conns : sock[c] = "open"}
    /\ \A i, j \in DOMAIN m_List_connectedClient :
         m_List_connectedClient[i] = m_List_connectedClient[j] => i = j

\* The thread never waits in recv: a client it is about to serve because
\* select found it ready still has something to read, though its node moves
\* in the list and descriptors are closed and accepted in the meantime.
NeverBlocksInRecv ==
  \A c \in Conns : Serving(c) /\ c \in m_forSelect_fds => Readable(c)

\* server_tcp.c:545, of GetTTL: "get the time of the oldest client in the list".
\* The timer that select would be given is no longer than what is left to any
\* client.  It is the head's, and a served client is pushed to the head.
TimerIsOldest ==
  pc = "loop" /\ m_List_connectedClient # << >> =>
    \A c \in Clients(m_List_connectedClient) :
      GetTTL(m_List_connectedClient) <= m_client_timeout[c]

\* server_tcp.h:66: "maximum 1000 clients can enter on the same time".  The
\* test (server_tcp.c:433) lets one more in.
LimitKept == Len(m_List_connectedClient) <= CLIENTS_LIMIT

\* An open connection is closed only if its client has hung up, its time is
\* over, or the server ends (Check_expiry_of_Clients, ReceiveAndSend): nobody
\* is dropped together with the clients whose time is over, and nobody for the
\* sake of the limit, whatever was accepted and served since select returned.
ClosedForCause ==
  [][\A c \in Conns : sock[c] = "open" /\ sock'[c] # "open" =>
       peer[c] # "up" \/ m_client_timeout[c] < 0 \/ ~Running']_vars

\* The head's time was over when the loop came to select, which fails with
\* EINVAL (server_tcp.c:179-183) and is called again with the same head.
Hung ==
  \/ /\ pc = "loop" /\ m_List_connectedClient # << >>
     /\ m_client_timeout[Head(m_List_connectedClient)] < 0
  \/ pc = "poll" /\ m_timeout < 0

\* The loop (RunServer) keeps what RequestService promises: connections are
\* accepted in their order and refused only above the limit, and a request is
\* answered once or lost with its connection.  RequestService lets the server
\* close a connection at any time: ClosedForCause says when this one does.
Service == INSTANCE RequestService WITH up <- Running

ImplementsService == Service!Spec

(***************************************************************************)
(* Liveness, of one connection c: connections differ in nothing, so what   *)
(* holds of one holds of all.                                              *)
(***************************************************************************)
\* A request at an accepted client's socket is read and answered, or its
\* connection is closed, unless the loop hangs, stops or dies: clients that
\* are pushed to the head again and again do not starve the others.
RequestServed(c) ==
  sock[c] = "open" /\ request[c] ~> ~request[c] \/ Hung \/ stop \/ ~Running

\* server_tcp.c:44, of m_maxWaitTime: "The time to wait until experation of a
\* client".  A connection does not stay open for ever while all clients are
\* silent and the server runs.
SilentClientsExpire(c) ==
  sock[c] = "open" ~>
    sock[c] # "open" \/ (\E d \in Conns : Readable(d)) \/ stop \/ ~Running

\* Nothing but the hang keeps it open (Check_expiry_of_Clients): whatever order
\* the list has come to, select gets a timer that ends, and each expiry leads
\* to the next one until the silent clients are closed.
SilentClientsExpireUnlessHung(c) ==
  sock[c] = "open" ~>
    \/ sock[c] # "open" \/ (\E d \in Conns : Readable(d))
    \/ Hung \/ stop \/ ~Running

\* SIGINT ends the loop, unless it fell between the test of stop and select
\* and select now waits without a timer for the next client.
StopEndsLoop ==
  stop ~> ~Running \/ (pc = "select" /\ m_timeout = Forever /\ Ready = {})
=============================================================================
