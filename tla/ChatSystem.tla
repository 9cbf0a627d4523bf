----------------------------- MODULE ChatSystem -----------------------------
(***************************************************************************)
(* The whole program: client processes (Main/, UI/UI.c, Client/Client.c,   *)
(* ClientServerComm/), the connections that RequestService promises them,  *)
(* and the application and data base of ServerApp behind it.               *)
(*                                                                         *)
(* A client process has one connection for its life and the same name as   *)
(* it.  It asks one question at a time and waits for the answer; its user  *)
(* is told the Client_err the answer is read as.  The listener and sender  *)
(* of a group that the client starts are one window here, and outlive it.  *)
(***************************************************************************)
EXTENDS ServerApp, Functions

CONSTANTS Clients,        \* client processes
          CLIENTS_LIMIT,  \* 1000 in the build
          BackLog,        \* connections the kernel holds until accept
          Mangled         \* the name the server finds in a packed LEAVE request

ASSUME ClientAssumption ==
  IsFiniteSet(Clients) /\ Cardinality(Clients) <= CLIENTS_LIMIT /\ BackLog \in Nat \ {0}

ASSUME MangledAssumption == Mangled \in [Groups -> Groups]

VARIABLES
  up, sock, backlog, request, peer,   \* see RequestService
  inbox,     \* packed answers on their way to a client
  lost,      \* what a client's kernel knows of a connection the server closed
  ui,        \* where a client's user is: a menu, or off when there is no process
  me,        \* the name and password typed at the welcome menu
  asked,     \* the request sent and not yet answered or lost
  windows    \* number of open windows on each group and address

service == <<up, sock, backlog, request, peer>>
client  == <<inbox, lost, ui, me, asked, windows>>
chatVars == <<appVars, service, client>>

Service == INSTANCE RequestService WITH Conns <- Clients

Places == Groups \X (IPAddrs \cup {NULL})

ChatInit ==
  /\ Init
  /\ Service!Init
  /\ inbox = [c \in Clients |-> << >>]
  /\ lost = [c \in Clients |-> "no"]
  /\ ui = [c \in Clients |-> "off"]
  /\ me = [c \in Clients |-> NULL]
  /\ asked = [c \in Clients |-> NULL]
  /\ windows = [p \in Places |-> 0]

(***************************************************************************)
(* Starting and ending a client process.                                   *)
(***************************************************************************)
\* A failed connect is printed and the process goes on without a connection.
Start(c) ==
  /\ ui[c] = "off"
  /\ \/ Service!Connect(c) /\ UNCHANGED lost
     \/ ~up /\ lost' = [lost EXCEPT ![c] = "dead"] /\ UNCHANGED service
  /\ ui' = [ui EXCEPT ![c] = "welcome"]
  /\ UNCHANGED <<appVars, inbox, me, asked, windows>>

\* A request that was sent stays on its way to the server.
ProcessEnds(c) ==
  /\ ui' = [ui EXCEPT ![c] = "off"]
  /\ inbox' = [inbox EXCEPT ![c] = << >>]
  /\ lost' = [lost EXCEPT ![c] = "no"]
  /\ me' = [me EXCEPT ![c] = NULL]
  /\ asked' = [asked EXCEPT ![c] = IF request[c] THEN @ ELSE NULL]
  /\ UNCHANGED <<appVars, windows>>

\* The menus have no way out: the user kills the process or closes its terminal.
\* The kernel closes the connection, with a reset if an answer lay unread.
Quit(c) ==
  /\ ui[c] # "off"
  /\ IF lost[c] = "no"
     THEN Service!Hangup(c) /\ peer'[c] = (IF inbox[c] = << >> THEN "fin" ELSE "rst")
     ELSE UNCHANGED service
  /\ ProcessEnds(c)

(***************************************************************************)
(* Asking: RunUI's menus down to Send_To_Server.                           *)
(***************************************************************************)
\* The questions a menu offers.  After a registration only a login with the
\* same details can be asked for.
Questions(c) ==
  CASE ui[c] = "welcome" -> [m_type : UserReqs, m_body : UserMsgs]
    [] ui[c] = "prompt"  -> [m_type : {"LOGIN_REQ"}, m_body : {me[c]}]
    [] ui[c] = "menu"    -> [m_type : GroupReqs,
                             m_body : [m_groupName : Groups,
                                       m_userName : {me[c].m_userName}]]
    [] OTHER             -> {}

\* Any number but 1 leads from the prompt to the group menu without a login.
SkipLogin(c) ==
  /\ ui[c] = "prompt"
  /\ ui' = [ui EXCEPT ![c] = "menu"]
  /\ UNCHANGED <<appVars, service, inbox, lost, me, asked, windows>>

\* The name and password kept while q is asked.
Details(c, q) == IF q.m_type \in UserReqs THEN q.m_body ELSE me[c]

\* On a connection the server has closed the send succeeds and provokes a reset.
Ask(c) ==
  /\ \E q \in Questions(c) :
       /\ asked' = [asked EXCEPT ![c] = q]
       /\ me' = [me EXCEPT ![c] = Details(c, q)]
  /\ \/ lost[c] = "no" /\ Service!Send(c) /\ UNCHANGED lost
     \/ lost[c] = "fin" /\ lost' = [lost EXCEPT ![c] = "dead"] /\ UNCHANGED service
  /\ ui' = [ui EXCEPT ![c] = "recv"]
  /\ UNCHANGED <<appVars, inbox, windows>>

\* A later send raises SIGPIPE, which nothing handles.
Killed(c) ==
  /\ Questions(c) # {} /\ lost[c] = "dead"
  /\ UNCHANGED service
  /\ ProcessEnds(c)

(***************************************************************************)
(* Reading the answer: Client.c's five requests and UI.c's reports.        *)
(***************************************************************************)
\* What each request makes of the code it finds.
User_Register(code) ==
  IF code = REGISTER_SUCCESS THEN "CLIENT_SUCCESS" ELSE "CLIENT_FAIL"

User_LogIn(code) ==
  CASE code = LOGIN_USER_SUCCESSFULLY_CONNECTED -> "CLIENT_SUCCESS"
    [] code = LOGIN_USER_NAME_NOT_EXIST         -> "CLIENT_USER_NAME_NOT_EXIST"
    [] code = LOGIN_WRONG_PSW                   -> "CLIENT_WRONG_PSW"
    [] code = LOGIN_ALLREADY_CONNECTED          -> "CLIENT_ALLREADY_CONNECTED"
    [] OTHER                                    -> "-1"

\* Defect: only the code of a new group is a success.
DefectZeroRefuses(code) ==
  IF code = GROUP_SUCCESSFULLY_INSERT THEN "CLIENT_SUCCESS" ELSE "CLIENT_FAIL_GROUP_CREATE"

Create_New_Group(code) ==
  IF code = GROUP_NAME_ALREADY_EXIST THEN "CLIENT_FAIL_GROUP_CREATE" ELSE "CLIENT_SUCCESS"

Join_To_Group(code) ==
  IF code = GROUP_NAME_NOT_EXIST THEN "CLIENT_FAIL_GROUP_CREATE" ELSE "CLIENT_SUCCESS"

\* GROUP_SUCCESSFULLY_FOUND, on which the windows would be looked up, is never
\* sent; RemovePID would close none of the windows it finds.
Leave_Group_Conversation(code) ==
  IF code = GROUP_NAME_NOT_EXIST THEN "CLIENT_FAIL_GROUP_LEAVE" ELSE "CLIENT_SUCCESS"

ReadAs(type, code) ==
  CASE type = "REGISTER_REQ"                  -> User_Register(code)
    [] type = "LOGIN_REQ"                     -> User_LogIn(code)
    [] type = "CREATE_GROUP_CONVERSATION_REQ" -> Create_New_Group(code)
    [] type = "JOIN_CONVERSATION_REQ"         -> Join_To_Group(code)
    [] type = "LEAVE_CONVERSATION_REQ"        -> Leave_Group_Conversation(code)

\* Defect: a creation opens its window whatever is answered.
DefectCreateOpensAlways(type, code) ==
  \/ type = "CREATE_GROUP_CONVERSATION_REQ" /\ code # 0
  \/ type = "JOIN_CONVERSATION_REQ" /\ code = GROUP_SUCCESSFULLY_JOIN

\* Defect: a join opens a window also on the code of a creation.
DefectJoinOpensOnInsert(type, code) ==
  \/ code = GROUP_SUCCESSFULLY_INSERT
  \/ type = "JOIN_CONVERSATION_REQ" /\ code = GROUP_SUCCESSFULLY_JOIN

OpensWindow(type, code) ==
  \/ type = "CREATE_GROUP_CONVERSATION_REQ" /\ code = GROUP_SUCCESSFULLY_INSERT
  \/ type = "JOIN_CONVERSATION_REQ" /\ code = GROUP_SUCCESSFULLY_JOIN

SendFailed(type) ==
  IF type \in UserReqs THEN "CLIENT_ALLOC_FAIL" ELSE "CLIENT_SEND_TO_SERVER_FAIL"

\* The menu the report leads to.
NextMenu(type, err) ==
  CASE type = "REGISTER_REQ" -> IF err = "CLIENT_FAIL" THEN "welcome" ELSE "prompt"
    [] type = "LOGIN_REQ"    -> IF err = "CLIENT_SUCCESS" THEN "menu" ELSE "welcome"
    [] OTHER                 -> "menu"

\* The details typed are forgotten at the welcome menu, which asks for them anew.
Return_To_Menu(c, q, err) ==
  LET menu == NextMenu(q.m_type, err) IN
  /\ ui' = [ui EXCEPT ![c] = menu]
  /\ me' = [me EXCEPT ![c] = IF menu = "welcome" THEN NULL ELSE Details(c, q)]

\* A reset that arrived while nobody waited makes the next send fail.
AskFails(c) ==
  /\ lost[c] = "reset"
  /\ lost' = [lost EXCEPT ![c] = "dead"]
  /\ \E q \in Questions(c) : Return_To_Menu(c, q, SendFailed(q.m_type))
  /\ UNCHANGED <<appVars, service, inbox, asked, windows>>

\* The code found in the buffer, which was cleared before: the end or the reset
\* of the connection leaves it at zero.
Code(c) == IF inbox[c] = << >> THEN 0 ELSE AnswerRead(Head(inbox[c]))

\* What the user is about to be told.
Report(c) == ReadAs(asked[c].m_type, Code(c))

ReportDue(c) == ui[c] = "recv" /\ (inbox[c] # << >> \/ lost[c] # "no")

Recive_From_Server(c) ==
  /\ ReportDue(c)
  /\ inbox' = [inbox EXCEPT ![c] = IF @ = << >> THEN @ ELSE Tail(@)]
  /\ windows' =
       IF OpensWindow(asked[c].m_type, Code(c))
       THEN [windows EXCEPT ![<<asked[c].m_body.m_groupName, Head(inbox[c]).m_groupIP>>] = @ + 1]
       ELSE windows
  /\ Return_To_Menu(c, asked[c], Report(c))
  /\ asked' = [asked EXCEPT ![c] = NULL]
  /\ UNCHANGED <<appVars, service, lost>>

(***************************************************************************)
(* The server.                                                             *)
(***************************************************************************)
\* Packing a LEAVE request falls through to REGISTER_ANS and reverses four
\* bytes of the group's name.
PackRequest(q) ==
  IF q.m_type = "LEAVE_CONVERSATION_REQ"
  THEN [q EXCEPT !.m_body.m_groupName = Mangled[@]] ELSE q

Handle(q) ==
  \/ q.m_type = "REGISTER_REQ" /\ Register(q.m_body)
  \/ q.m_type = "LOGIN_REQ" /\ Login(q.m_body)
  \/ q.m_type = "CREATE_GROUP_CONVERSATION_REQ" /\ Create(q.m_body)
  \/ q.m_type = "JOIN_CONVERSATION_REQ" /\ Join(q.m_body)
  \/ q.m_type = "LEAVE_CONVERSATION_REQ" /\ Leave(q.m_body)

Accept ==
  /\ Service!Accept
  /\ UNCHANGED <<appVars, client>>

\* An answer to a client that has ended is dropped.
Answer(c) ==
  /\ Service!Serve(c)
  /\ Handle(PackRequest(asked[c]))
  /\ inbox' = [inbox EXCEPT ![c] = IF ui[c] = "off" THEN @ ELSE Append(@, answer')]
  /\ UNCHANGED <<lost, ui, me, asked, windows>>

\* The client has ended.  A request it left behind was taken by Answer first.
Drop(c) ==
  /\ Service!Gone(c)
  /\ UNCHANGED <<appVars, client>>

\* What the clients of the connections in S that the server closes notice: an
\* end, or a reset if a request was lost with it.  A client that waits takes
\* note of the reset at once.
Lose(S) ==
  lost' = [c \in Clients |->
             IF c \notin S \/ ui[c] = "off" THEN lost[c]
             ELSE IF request[c] THEN "dead"
             ELSE IF sock[c] = "backlog" /\ ~up' THEN "reset"
             ELSE "fin"]

Close(S) ==
  /\ Lose(S)
  /\ UNCHANGED <<appVars, inbox, ui, me, asked, windows>>

\* To a client a refused connection is one that expired at once: with no more
\* clients than the limit nothing is lost.
Expire == \E S \in SUBSET Clients : Service!Expire(S) /\ Close(S)

Down == Service!Down /\ Close({c \in Clients : sock[c] # "closed"})

ChatNext ==
  \/ \E c \in Clients :
       \/ Start(c) \/ Quit(c) \/ SkipLogin(c) \/ Ask(c) \/ AskFails(c) \/ Killed(c)
       \/ Recive_From_Server(c) \/ Answer(c) \/ Drop(c)
  \/ Accept \/ Expire \/ Down

ChatSpec == ChatInit /\ [][ChatNext]_chatVars
-----------------------------------------------------------------------------
\* The clients, their connections and their windows keep their types.
ChatTypeOK ==
  /\ TypeOK
  /\ up \in BOOLEAN /\ backlog \in Seq(Clients)
  /\ sock \in [Clients -> {"closed", "backlog", "open"}]
  /\ request \in [Clients -> BOOLEAN]
  /\ peer \in [Clients -> {"up", "fin", "rst"}]
  /\ inbox \in [Clients -> Seq([m_type : AnswerTypes, m_answer : Nat,
                                m_groupIP : IPAddrs \cup {NULL}])]
  /\ lost \in [Clients -> {"no", "fin", "reset", "dead"}]
  /\ ui \in [Clients -> {"off", "welcome", "prompt", "menu", "recv"}]
  /\ me \in [Clients -> UserMsgs \cup {NULL}]
  /\ windows \in [Places -> 0 .. MaxPartic]

\* A client never holds more than one answer, and it is the answer to what it
\* asks: no answer outlives its process, and no lost question shifts the rest.
AnswerToTheQuestion ==
  \A c \in Clients : inbox[c] # << >> =>
    /\ ui[c] = "recv" /\ Len(inbox[c]) = 1
    /\ <<asked[c].m_type, inbox[c][1].m_type>> \in
         {<<"REGISTER_REQ", "REGISTER_ANS">>, <<"LOGIN_REQ", "LOGIN_ANS">>,
          <<"CREATE_GROUP_CONVERSATION_REQ", "CREATE_GROUP_CONVERSATION_ANS">>,
          <<"JOIN_CONVERSATION_REQ", "JOIN_CONVERSATION_ANS">>,
          <<"LEAVE_CONVERSATION_REQ", "LEAVE_CONVERSATION_ANS">>}

\* Every window is on the address the server keeps for the group it shows, so
\* all windows of a group are in one conversation, whoever died in between.
WindowOnGroupAddress ==
  \A p \in Places : windows[p] > 0 =>
    \E e \in Range(GroupChain(p[1])) : e.m_groupName = p[1] /\ e.m_ip_add_group = p[2]

\* The clients that hold an admission to group g they have not read yet.
Admitted(g) ==
  {c \in Clients : inbox[c] # << >> /\ asked[c].m_type \in GroupReqs
     /\ asked[c].m_body.m_groupName = g
     /\ OpensWindow(asked[c].m_type, AnswerRead(inbox[c][1]))}

\* Nobody is in a conversation uncounted: the windows open on a group's address
\* and the admissions still to be read are at most the participants the server
\* counts.  (The group has windows on no other address, WindowOnGroupAddress.)
ParticipantsCoverWindows ==
  \A p \in Places :
    LET open == windows[p] + Cardinality(Admitted(p[1])) IN
    open > 0 => \E e \in Range(GroupChain(p[1])) :
                  e.m_groupName = p[1] /\ open <= e.m_numOfPartic

Reports(c, type, err) == ReportDue(c) /\ asked[c].m_type = type /\ Report(c) = err

\* A success that answers a registration or a creation is the server's: the
\* user's details are confirmed, and the group's entry has the name asked for.
SuccessIsRecorded ==
  \A c \in Clients : inbox[c] # << >> =>
    LET body == asked[c].m_body IN
    /\ Reports(c, "REGISTER_REQ", "CLIENT_SUCCESS")
         => <<body.m_userName, body.m_password>> \in registered
    /\ Reports(c, "CREATE_GROUP_CONVERSATION_REQ", "CLIENT_SUCCESS")
         => \E e \in Range(GroupChain(body.m_groupName)) : e.m_groupName = body.m_groupName

\* A user is told that a name is taken only if its bucket is: a lost
\* connection is never mistaken for a refusal.
RefusalsHaveCause ==
  \A c \in Clients :
    LET body == asked[c].m_body IN
    /\ Reports(c, "REGISTER_REQ", "CLIENT_FAIL") => UserChain(body.m_userName) # << >>
    /\ Reports(c, "CREATE_GROUP_CONVERSATION_REQ", "CLIENT_FAIL_GROUP_CREATE")
         => GroupChain(body.m_groupName) # << >>

(***************************************************************************)
(* What the comments of the code say of it.                                *)
(***************************************************************************)
\* Client.c:103, the details are sent "to the protocol- the last destination -
\* the DB for update": who is told of a successful registration is registered.
RegistrationReachedDB ==
  \A c \in Clients : Reports(c, "REGISTER_REQ", "CLIENT_SUCCESS") =>
    <<asked[c].m_body.m_userName, asked[c].m_body.m_password>> \in registered

\* ServerApp.c:47, "Checks whether the user in the group-then returns an exit
\* permit": a user is told he left only if the server's answer was no refusal.
LeaveIsPermitted ==
  \A c \in Clients :
    inbox[c] # << >> /\ Reports(c, "LEAVE_CONVERSATION_REQ", "CLIENT_SUCCESS")
      => Head(inbox[c]).m_answer # GROUP_NAME_NOT_EXIST

\* One or the other is true of what the users are told.  A state in which
\* neither is shows one user told of a registration that did not reach the data
\* base and another of a departure that was refused.
ReportsAsCommented == RegistrationReachedDB \/ LeaveIsPermitted
=============================================================================
