------------------------------ MODULE ServerApp ------------------------------
(***************************************************************************)
(* The application function of the server, ServerApp/ServerApp.c: one      *)
(* request is unpacked from the receive buffer, carried out on the data    *)
(* base and answered with a packed message.  The event loop calls it once  *)
(* per request and never concurrently.                                     *)
(***************************************************************************)
EXTENDS DataBase, Protocol

VARIABLES m_buffer_rcv,   \* the request being handled: its type and fields
          answer,         \* the packed answer returned to the event loop
          registered,     \* history: <<name, password>> of each success
          told,           \* history: <<group, address>> a client was given
          admitted        \* history: group -> admissions minus departures

history == <<registered, told, admitted>>
appVars == <<m_userNames, m_groupNames, m_addIPPool, dbRes,
             m_buffer_rcv, answer, registered, told, admitted>>

Request(type, msg) == m_buffer_rcv' = [m_type |-> type, m_body |-> msg]

Reply(type, code, ip) ==
  answer' = PackAnswer([m_type |-> type, m_answer |-> code, m_groupIP |-> ip])

\* What a client reads in an answer, after its own UnPack.
AnswerRead(ans) == UnPackAnswer(ans).m_answer

(***************************************************************************)
(* CheckUserNameOnDB                                                       *)
(***************************************************************************)
LoginAnswer(err) ==
  CASE err = "DB_CONNECT_SUCCESFULLY" -> LOGIN_USER_SUCCESSFULLY_CONNECTED
    [] err = "DB_ALREADY_CONNECTED"   -> LOGIN_ALLREADY_CONNECTED
    [] err = "DB_WORNG_USER_NAME"     -> LOGIN_USER_NAME_NOT_EXIST
    [] err = "DB_WORNG_PSW"           -> LOGIN_WRONG_PSW

Register(msg) ==
  /\ Request("REGISTER_REQ", msg)
  /\ IsUserNameUnique(msg)
  /\ Reply("REGISTER_ANS",
       IF dbRes'.err = "UNIQE" THEN REGISTER_SUCCESS
                               ELSE REGISTER_USER_NAME_ALLREADY_EXIST, NULL)
  /\ registered' = IF dbRes'.err = "UNIQE"
                   THEN registered \cup {<<msg.m_userName, msg.m_password>>}
                   ELSE registered
  /\ UNCHANGED <<told, admitted>>

Login(msg) ==
  /\ Request("LOGIN_REQ", msg)
  /\ CheckClientStatusAndConnect(msg)
  /\ Reply("LOGIN_ANS", LoginAnswer(dbRes'.err), NULL)
  /\ UNCHANGED history

(***************************************************************************)
(* ANSForGroupRequests                                                     *)
(***************************************************************************)
\* Create_Group_Ans.m_answer: the same switch serves the three requests.
GroupAnswer(err) ==
  CASE err = "DB_GROUP_SUCCESSFULLY_INSERT" -> GROUP_SUCCESSFULLY_INSERT
    [] err = "DB_GROUP_NAME_ALREADY_EXIST"  -> GROUP_NAME_ALREADY_EXIST
    [] err = "DB_GROUP_NAME_NOT_EXIST"      -> GROUP_NAME_NOT_EXIST
    [] err = "DB_GROUP_JOIN_SUCCESSFULLY"   -> GROUP_SUCCESSFULLY_JOIN
    [] err = "DB_GROUP_REMOVE_SUCCESSFULLY" -> GROUP_SUCCESSFULLY_JOIN

Tell(msg) ==
  told' = IF dbRes'.ipAddr = NULL THEN told
          ELSE told \cup {<<msg.m_groupName, dbRes'.ipAddr>>}

Count(msg, err, n) ==
  admitted' = IF dbRes'.err = err THEN [admitted EXCEPT ![msg.m_groupName] = @ + n]
                                  ELSE admitted

Create(msg) ==
  /\ Request("CREATE_GROUP_CONVERSATION_REQ", msg)
  /\ Check_Group_Name_And_Insert(msg)
  /\ Reply("CREATE_GROUP_CONVERSATION_ANS", GroupAnswer(dbRes'.err), dbRes'.ipAddr)
  /\ Tell(msg)
  /\ Count(msg, "DB_GROUP_SUCCESSFULLY_INSERT", 1)
  /\ UNCHANGED registered

Join(msg) ==
  /\ Request("JOIN_CONVERSATION_REQ", msg)
  /\ Try_to_Join_To_Group(msg)
  /\ Reply("JOIN_CONVERSATION_ANS", GroupAnswer(dbRes'.err), dbRes'.ipAddr)
  /\ Tell(msg)
  /\ Count(msg, "DB_GROUP_JOIN_SUCCESSFULLY", 1)
  /\ UNCHANGED registered

Leave(msg) ==
  /\ Request("LEAVE_CONVERSATION_REQ", msg)
  /\ Try_to_Leave_To_Group(msg)
  /\ Reply("LEAVE_CONVERSATION_ANS", GroupAnswer(dbRes'.err), dbRes'.ipAddr)
  /\ Count(msg, "DB_GROUP_REMOVE_SUCCESSFULLY", -1)
  /\ UNCHANGED <<registered, told>>

\* The switch on the type of the request in the buffer.
GetFromClientAndSendToServer ==
  \/ \E msg \in UserMsgs : Register(msg) \/ Login(msg)
  \/ \E msg \in GroupMsgs : Create(msg) \/ Join(msg) \/ Leave(msg)

Init ==
  /\ CreateMainDataBase
  /\ m_buffer_rcv = [m_type |-> "none", m_body |-> NULL]
  /\ answer = [m_type |-> "none", m_answer |-> 0, m_groupIP |-> NULL]
  /\ registered = {}
  /\ told = {}
  /\ admitted = [g \in Groups |-> 0]

Spec == Init /\ [][GetFromClientAndSendToServer]_appVars
-----------------------------------------------------------------------------
\* The buffer, the answer and the history variables keep their types.
TypeOK ==
  /\ DBTypeOK
  /\ m_buffer_rcv.m_type \in UserReqs \cup GroupReqs \cup {"none"}
  /\ answer.m_type \in AnswerTypes \cup {"none"}
  /\ answer.m_groupIP \in IPAddrs \cup {NULL}
  /\ registered \subseteq Users \X Passwords
  /\ told \subseteq Groups \X IPAddrs
  /\ admitted \in [Groups -> 0 .. MaxPartic]

\* A name and password once answered REGISTER_SUCCESS are known for ever: no
\* later request of anybody hides, replaces or drops the entry, so that a login
\* with them is refused neither for its name nor for its password.
RegisteredIsKnown ==
  \A r \in registered :
    LoginOutcome([m_userName |-> r[1], m_password |-> r[2]])
      \notin {"DB_WORNG_USER_NAME", "DB_WORNG_PSW"}

\* No name is registered a second time, with any password.
NoSecondRegistration ==
  [][ (m_buffer_rcv'.m_type = "REGISTER_REQ" /\ dbRes'.err = "UNIQE")
        => \A r \in registered : r[1] # m_buffer_rcv'.m_body.m_userName ]_appVars

\* Everybody who was given an address for a group was given the same one, so
\* that the group's creator and all who joined are in one conversation.
MembersShareAddress ==
  \A s, t \in told : s[1] = t[1] => s[2] = t[2]

\* Clients told of different groups are on different addresses, while no
\* more groups exist than the pool had addresses.
GroupsKeptApart ==
  Cardinality(OccupiedBuckets) <= Capacity =>
    \A s, t \in told : s[2] = t[2] => s[1] = t[1]

\* A group's participant count is the admissions answered under its own
\* name; a request that only reached its entry through the bucket leaves it.
ParticipantsAdmitted ==
  \A b \in Buckets : \A i \in DOMAIN m_groupNames[b] :
    m_groupNames[b][i].m_numOfPartic = admitted[m_groupNames[b][i].m_groupName]

(***************************************************************************)
(* What the comment on logins says of it, DataBase.c:124-129.              *)
(***************************************************************************)
LoginSucceeded ==
  answer.m_type = "LOGIN_ANS" /\ AnswerRead(answer) = LOGIN_USER_SUCCESSFULLY_CONNECTED

\* DataBase.c:128, "if the client not regitred- error": a login succeeds only
\* for a name that was registered.
OnlyRegisteredLogIn ==
  LoginSucceeded => \E r \in registered : r[1] = m_buffer_rcv.m_body.m_userName

\* DataBase.c:126, "if the client not connected- connect him", and 127, "if the
\* client allready connect, recive this answerLogin": a login that succeeds
\* leaves the entry it has found connected, which the next login is told.
LoginConnects ==
  LoginSucceeded => FoundUser(m_buffer_rcv.m_body).m_status = "CONNECT"

\* One or the other is true of every login.  A state in which neither is shows
\* that CheckClientStatusAndConnect keeps neither part of the comment.
LoginAsCommented == OnlyRegisteredLogIn \/ LoginConnects
=============================================================================
