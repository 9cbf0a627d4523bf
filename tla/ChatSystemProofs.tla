--------------------------- MODULE ChatSystemProofs ---------------------------
(***************************************************************************)
(* Proofs about the whole program, for every number of client processes,   *)
(* every set of names and every hash of them.                              *)
(*                                                                         *)
(* The argument.  A client waits from its question to the answer, and its  *)
(* connection is never reused while the process lives, so the one answer   *)
(* it can hold is the answer to what it asks (LinkOK).  What an answer     *)
(* says was true of the data base when it was packed, and the data base    *)
(* forgets nothing (AnswerFits, Grown), so it is true when it is read and  *)
(* true of the window that is opened on it (WindowsTold, Counted).         *)
(***************************************************************************)
EXTENDS ChatSystem, ServerAppProofs

AnswerRecords ==
  [m_type : AnswerTypes, m_answer : Nat, m_groupIP : IPAddrs \cup {NULL}]

Asks == [m_type : UserReqs, m_body : UserMsgs] \cup [m_type : GroupReqs, m_body : GroupMsgs]

\* The types of the connections, the clients and the windows.
LinkTypes ==
  /\ up \in BOOLEAN /\ backlog \in Seq(Clients)
  /\ sock \in [Clients -> {"closed", "backlog", "open"}]
  /\ request \in [Clients -> BOOLEAN]
  /\ peer \in [Clients -> {"up", "fin", "rst"}]
  /\ inbox \in [Clients -> Seq(AnswerRecords)]
  /\ lost \in [Clients -> {"no", "fin", "reset", "dead"}]
  /\ ui \in [Clients -> {"off", "welcome", "prompt", "menu", "recv"}]
  /\ me \in [Clients -> UserMsgs \cup {NULL}]
  /\ asked \in [Clients -> Asks \cup {NULL}]
  /\ windows \in [Places -> Nat]

\* The kernel's queue holds the connections that wait in it, once each, and a
\* server that is down has no connection left.
QueueOK ==
  /\ \A i, j \in DOMAIN backlog : backlog[i] = backlog[j] => i = j
  /\ \A i \in DOMAIN backlog : sock[backlog[i]] = "backlog"
  /\ ~up => backlog = << >> /\ \A c \in Clients : sock[c] = "closed"

\* What client c's process, its kernel and the server's end of its connection
\* know of each other.
LinkOK(c) ==
  /\ ui[c] = "off" => /\ inbox[c] = << >> /\ lost[c] = "no"
                      /\ sock[c] # "closed" => peer[c] # "up"
  /\ ui[c] # "off" /\ lost[c] = "no" => sock[c] # "closed" /\ peer[c] = "up"
  /\ lost[c] # "no" => sock[c] = "closed"
  /\ sock[c] = "closed" => ~request[c] /\ peer[c] = "up"
  /\ request[c] => /\ asked[c] \in Asks
                   /\ ui[c] # "off" => ui[c] = "recv" /\ inbox[c] = << >>
  /\ inbox[c] # << >> => ui[c] = "recv" /\ Len(inbox[c]) = 1
  /\ ui[c] = "recv" => asked[c] \in Asks
  /\ ui[c] \in {"prompt", "menu", "recv"} => me[c] \in UserMsgs

\* What answer a to question q says is so: it is of the question's kind, a
\* success was recorded and told, and a refusal met an entry in the bucket.
AnswerFits(q, a) ==
  \/ /\ q.m_type = "REGISTER_REQ" /\ a.m_type = "REGISTER_ANS"
     /\ \/ /\ AnswerRead(a) = REGISTER_SUCCESS
           /\ <<q.m_body.m_userName, q.m_body.m_password>> \in registered
        \/ /\ AnswerRead(a) = REGISTER_USER_NAME_ALLREADY_EXIST
           /\ UserChain(q.m_body.m_userName) # << >>
  \/ q.m_type = "LOGIN_REQ" /\ a.m_type = "LOGIN_ANS"
  \/ /\ q.m_type = "CREATE_GROUP_CONVERSATION_REQ"
     /\ a.m_type = "CREATE_GROUP_CONVERSATION_ANS"
     /\ \/ /\ AnswerRead(a) = GROUP_SUCCESSFULLY_INSERT
           /\ <<q.m_body.m_groupName, a.m_groupIP>> \in told
        \/ /\ AnswerRead(a) = GROUP_NAME_ALREADY_EXIST
           /\ GroupChain(q.m_body.m_groupName) # << >>
  \/ /\ q.m_type = "JOIN_CONVERSATION_REQ" /\ a.m_type = "JOIN_CONVERSATION_ANS"
     /\ AnswerRead(a) = GROUP_SUCCESSFULLY_JOIN
          => <<q.m_body.m_groupName, a.m_groupIP>> \in told
  \/ q.m_type = "LEAVE_CONVERSATION_REQ" /\ a.m_type = "LEAVE_CONVERSATION_ANS"

Fits == \A c \in Clients : inbox[c] # << >> => AnswerFits(asked[c], inbox[c][1])

\* A window is on an address that was told for its group.
WindowsTold == \A p \in Places : windows[p] > 0 => p \in told

\* Windows and unread admissions are covered by the admissions of the group.
Counted ==
  \A p \in Places : windows[p] + Cardinality(Admitted(p[1])) <= admitted[p[1]]

ChatInv ==
  /\ AppInv
  /\ LinkTypes
  /\ QueueOK
  /\ \A c \in Clients : LinkOK(c)
  /\ Fits
  /\ WindowsTold
  /\ Counted
-----------------------------------------------------------------------------
(***************************************************************************)
(* One request on the data base, and what its answer says.                 *)
(***************************************************************************)
\* Reversing the bytes of a code twice gives the code (htonl, ntohl).
LEMMA SwapTwice ==
  \A n \in Answers : Swap32(n) \in Nat /\ Swap32(Swap32(n)) = n
  BY DEF Answers, Swap32, Byte

\* A client reads in an answer the code the server packed into it; the answer
\* to a departure is not packed.
LEMMA ReplyRead ==
  ASSUME NEW type \in AnswerTypes, NEW code \in Answers, NEW ip \in IPAddrs \cup {NULL},
         Reply(type, code, ip)
  PROVE  /\ answer' \in AnswerRecords
         /\ answer'.m_type = type /\ answer'.m_groupIP = ip
         /\ type # "LEAVE_CONVERSATION_ANS" => AnswerRead(answer') = code
  <1> DEFINE s == Swap32(code)
  <1>1. s \in Nat /\ Swap32(s) = code /\ code \in Nat
    BY SwapTwice DEF Answers
  <1>2. answer' = [m_type |-> type,
                   m_answer |-> IF type = "LEAVE_CONVERSATION_ANS" THEN code ELSE s,
                   m_groupIP |-> ip]
    BY DEF Reply, PackAnswer
  <1> HIDE DEF s
  <1> QED
    BY <1>1, <1>2 DEF AnswerRecords, AnswerRead, UnPackAnswer

\* The data base forgets nothing.
Grown ==
  /\ told \subseteq told' /\ registered \subseteq registered'
  /\ \A u \in Users : UserChain(u) # << >> => UserChain(u)' # << >>
  /\ \A g \in Groups : GroupChain(g) # << >> => GroupChain(g)' # << >>

\* An admission is counted when, and only when, the answer opens a window.
CountedAs(q, a) ==
  \A g \in Groups :
    admitted'[g] = IF /\ q.m_type \in GroupReqs /\ q.m_body.m_groupName = g
                      /\ OpensWindow(q.m_type, AnswerRead(a))
                   THEN admitted[g] + 1 ELSE admitted[g]

Answered(q) ==
  /\ AppInv' /\ Grown
  /\ answer' \in AnswerRecords
  /\ AnswerFits(q, answer)'
  /\ CountedAs(q, answer')

\* Adding an entry to an empty bucket empties no other.
LEMMA UsersGrow ==
  ASSUME AppInv, NEW msg \in UserMsgs, UserAdded(msg) \/ UNCHANGED m_userNames
  PROVE  \A u \in Users : UserChain(u) # << >> => UserChain(u)' # << >>
  <1>1. \A u \in Users : UserBucket[u] \in Buckets
    BY BucketAssumption
  <1>2. CASE UNCHANGED m_userNames
    BY <1>2 DEF UserChain
  <1>3. CASE UserAdded(msg)
    <2>1. m_userNames' = [m_userNames EXCEPT ![UserBucket[msg.m_userName]] = <<NewUser(msg)>>]
      BY <1>3 DEF UserAdded
    <2>2. \A b \in Buckets :
            m_userNames'[b] = IF b = UserBucket[msg.m_userName] THEN <<NewUser(msg)>>
                              ELSE m_userNames[b]
      BY <2>1, AppTypeParts
    <2> QED
      BY <1>1, <2>2 DEF UserChain
  <1> QED
    BY <1>2, <1>3

\* CheckUserNameOnDB answers a registration with what the data base then holds.
LEMMA RegisterAnswered ==
  ASSUME AppInv, NEW q \in Asks, q.m_type = "REGISTER_REQ", q.m_body \in UserMsgs,
         Register(q.m_body)
  PROVE  Answered(q)
  <1> DEFINE msg == q.m_body
             code == IF dbRes'.err = "UNIQE" THEN REGISTER_SUCCESS
                     ELSE REGISTER_USER_NAME_ALLREADY_EXIST
  <1>1. /\ IsUserNameUnique(msg) /\ UNCHANGED <<told, admitted>>
        /\ Reply("REGISTER_ANS", code, NULL)
        /\ registered' = IF dbRes'.err = "UNIQE"
                         THEN registered \cup {<<msg.m_userName, msg.m_password>>}
                         ELSE registered
    BY DEF Register
  <1>2. AppInv'
    BY RegisterAppInv
  <1>3. /\ UNCHANGED m_groupNames
        /\ UserAdded(msg) \/ UNCHANGED m_userNames
    BY <1>1, UserRequestEffect
  <1>4. Grown
    BY <1>1, <1>3, UsersGrow DEF Grown, GroupChain
  <1>5. /\ answer' \in AnswerRecords /\ answer'.m_type = "REGISTER_ANS"
        /\ AnswerRead(answer') = code
    BY <1>1, ReplyRead DEF Answers, AnswerTypes, REGISTER_SUCCESS,
                           REGISTER_USER_NAME_ALLREADY_EXIST
  <1>6. AnswerFits(q, answer)'
    <2>1. CASE dbRes'.err = "UNIQE"
      BY <1>1, <1>5, <2>1 DEF AnswerFits
    <2>2. CASE dbRes'.err # "UNIQE"
      <3>1. FindUser(msg) /\ UNCHANGED m_userNames
        BY <1>1, <2>2 DEF IsUserNameUnique, Return
      <3>2. UserChain(msg.m_userName)' # << >>
        BY <3>1 DEF FindUser, Found, UserChain
      <3> QED
        BY <1>5, <2>2, <3>2 DEF AnswerFits
    <2> QED
      BY <2>1, <2>2
  <1>7. CountedAs(q, answer')
    BY <1>1 DEF CountedAs, GroupReqs
  <1> QED
    BY <1>2, <1>4, <1>5, <1>6, <1>7 DEF Answered

\* A login is answered and changes nothing.
LEMMA LoginAnswered ==
  ASSUME AppInv, NEW q \in Asks, q.m_type = "LOGIN_REQ", q.m_body \in UserMsgs,
         Login(q.m_body)
  PROVE  Answered(q)
  <1> DEFINE code == LoginAnswer(dbRes'.err)
  <1>1. /\ CheckClientStatusAndConnect(q.m_body) /\ UNCHANGED <<told, admitted, registered>>
        /\ Reply("LOGIN_ANS", code, NULL)
    BY DEF Login, history
  <1>2. code \in Answers
    <2>1. dbRes'.err \in {"DB_WORNG_USER_NAME", "DB_ALREADY_CONNECTED", "DB_WORNG_PSW",
                          "DB_CONNECT_SUCCESFULLY"}
      BY <1>1 DEF CheckClientStatusAndConnect, LoginOutcome, Return
    <2> QED
      BY <2>1 DEF LoginAnswer, Answers, LOGIN_USER_SUCCESSFULLY_CONNECTED,
                  LOGIN_ALLREADY_CONNECTED, LOGIN_USER_NAME_NOT_EXIST, LOGIN_WRONG_PSW
  <1>3. AppInv'
    BY LoginAppInv
  <1>4. Grown
    <2>1. UNCHANGED <<m_userNames, m_groupNames>>
      BY <1>1 DEF CheckClientStatusAndConnect, InsertUserToList
    <2> QED
      BY <1>1, <2>1 DEF Grown, UserChain, GroupChain
  <1>5. answer' \in AnswerRecords /\ answer'.m_type = "LOGIN_ANS"
    BY <1>1, <1>2, ReplyRead DEF AnswerTypes
  <1>6. AnswerFits(q, answer)'
    BY <1>5 DEF AnswerFits
  <1>7. CountedAs(q, answer')
    BY <1>1 DEF CountedAs, GroupReqs
  <1> QED
    BY <1>3, <1>4, <1>5, <1>6, <1>7 DEF Answered

\* ANSForGroupRequests answers a creation with the address it stored, or
\* refuses it because the bucket is taken.
LEMMA CreateAnswered ==
  ASSUME AppInv, NEW q \in Asks, q.m_type = "CREATE_GROUP_CONVERSATION_REQ",
         q.m_body \in GroupMsgs, Create(q.m_body)
  PROVE  Answered(q)
  <1> DEFINE msg == q.m_body
             code == GroupAnswer(dbRes'.err)
             ip == dbRes'.ipAddr
  <1>1. /\ Check_Group_Name_And_Insert(msg) /\ UNCHANGED registered
        /\ Reply("CREATE_GROUP_CONVERSATION_ANS", code, ip)
        /\ Tell(msg) /\ Count(msg, "DB_GROUP_SUCCESSFULLY_INSERT", 1)
    BY DEF Create
  <1>2. AppInv' /\ UNCHANGED m_userNames
    BY <1>1, CreateAppInv, CreateEffect
  <1>3. \A g \in Groups : GroupBucket[g] \in Buckets
    BY BucketAssumption
  <1>4. msg.m_groupName \in Groups /\ admitted \in [Groups -> 0 .. MaxPartic]
    BY AppTypeParts DEF GroupMsgs
  <1>5. CASE /\ UNCHANGED <<m_groupNames, m_addIPPool>>
             /\ dbRes' = [err |-> "DB_GROUP_NAME_ALREADY_EXIST", ipAddr |-> NULL]
    <2>1. code = GROUP_NAME_ALREADY_EXIST /\ ip = NULL /\ UNCHANGED <<told, admitted>>
      BY <1>1, <1>5 DEF GroupAnswer, Tell, Count
    <2>2. /\ answer' \in AnswerRecords /\ answer'.m_type = "CREATE_GROUP_CONVERSATION_ANS"
          /\ AnswerRead(answer') = GROUP_NAME_ALREADY_EXIST
      BY <1>1, <2>1, ReplyRead DEF AnswerTypes, Answers, GROUP_NAME_ALREADY_EXIST
    <2>3. GroupChain(msg.m_groupName)' # << >>
      <3>1. FindGroup(msg)
        BY <1>1, <1>5 DEF Check_Group_Name_And_Insert, Return
      <3> QED
        BY <1>5, <3>1 DEF FindGroup, Found, GroupChain
    <2>4. AnswerFits(q, answer)'
      BY <2>2, <2>3 DEF AnswerFits
    <2>5. Grown
      BY <1>1, <1>2, <1>5, <2>1 DEF Grown, UserChain, GroupChain
    <2>6. CountedAs(q, answer')
      BY <2>1, <2>2 DEF CountedAs, OpensWindow, GROUP_SUCCESSFULLY_INSERT,
                        GROUP_NAME_ALREADY_EXIST
    <2> QED
      BY <1>2, <2>2, <2>4, <2>5, <2>6 DEF Answered
  <1>6. CASE /\ GroupAdded(msg)
             /\ dbRes' = [err |-> "DB_GROUP_SUCCESSFULLY_INSERT",
                          ipAddr |-> NewGroup(msg).m_ip_add_group]
    <2>1. ip \in IPAddrs /\ ip # NULL
      BY <1>6, AddressTaken, AppTypeParts, NameAssumption DEF NewGroup
    <2>2. /\ code = GROUP_SUCCESSFULLY_INSERT
          /\ told' = told \cup {<<msg.m_groupName, ip>>}
          /\ admitted' = [admitted EXCEPT ![msg.m_groupName] = @ + 1]
      BY <1>1, <1>6, <2>1 DEF GroupAnswer, Tell, Count
    <2>3. /\ answer' \in AnswerRecords /\ answer'.m_type = "CREATE_GROUP_CONVERSATION_ANS"
          /\ AnswerRead(answer') = GROUP_SUCCESSFULLY_INSERT /\ answer'.m_groupIP = ip
      BY <1>1, <2>1, <2>2, ReplyRead DEF AnswerTypes, Answers, GROUP_SUCCESSFULLY_INSERT
    <2>4. AnswerFits(q, answer)'
      BY <2>2, <2>3 DEF AnswerFits
    <2>5. \A b \in Buckets :
            m_groupNames'[b] = IF b = GroupBucket[msg.m_groupName] THEN <<NewGroup(msg)>>
                               ELSE m_groupNames[b]
      BY <1>6, AppTypeParts DEF GroupAdded
    <2>6. \A g \in Groups : GroupChain(g) # << >> => GroupChain(g)' # << >>
      BY <1>3, <2>5 DEF GroupChain
    <2>7. Grown
      BY <1>1, <1>2, <2>2, <2>6 DEF Grown, UserChain
    <2>8. CountedAs(q, answer')
      BY <1>4, <2>2, <2>3 DEF CountedAs, OpensWindow, GroupReqs
    <2> QED
      BY <1>2, <2>3, <2>4, <2>7, <2>8 DEF Answered
  <1> QED
    BY <1>1, <1>5, <1>6, CreateEffect

\* A join that is admitted is answered with the address of the group's entry.
LEMMA JoinAnswered ==
  ASSUME AppInv, NEW q \in Asks, q.m_type = "JOIN_CONVERSATION_REQ",
         q.m_body \in GroupMsgs, Join(q.m_body)
  PROVE  Answered(q)
  <1> DEFINE msg == q.m_body
             code == GroupAnswer(dbRes'.err)
             ip == dbRes'.ipAddr
  <1>1. /\ Try_to_Join_To_Group(msg) /\ UNCHANGED registered
        /\ Reply("JOIN_CONVERSATION_ANS", code, ip)
        /\ Tell(msg) /\ Count(msg, "DB_GROUP_JOIN_SUCCESSFULLY", 1)
    BY DEF Join
  <1>2. AppInv' /\ UNCHANGED m_userNames
    BY <1>1, JoinAppInv, JoinEffect
  <1>3. \A g \in Groups : GroupBucket[g] \in Buckets
    BY BucketAssumption
  <1>4. msg.m_groupName \in Groups /\ admitted \in [Groups -> 0 .. MaxPartic]
    BY AppTypeParts DEF GroupMsgs
  <1>5. CASE dbRes'.err # "DB_GROUP_JOIN_SUCCESSFULLY"
    <2>1. /\ UNCHANGED <<m_groupNames, told, admitted>> /\ ip = NULL
          /\ code \in {GROUP_NAME_NOT_EXIST, GROUP_SUCCESSFULLY_INSERT}
      <3>1. /\ UNCHANGED m_groupNames /\ ip = NULL
            /\ dbRes'.err \in {"DB_GROUP_NAME_NOT_EXIST", "DB_GROUP_SUCCESSFULLY_INSERT"}
        BY <1>1, <1>5 DEF Try_to_Join_To_Group, Return
      <3> QED
        BY <1>1, <1>5, <3>1 DEF GroupAnswer, Tell, Count
    <2>2. /\ answer' \in AnswerRecords /\ answer'.m_type = "JOIN_CONVERSATION_ANS"
          /\ AnswerRead(answer') # GROUP_SUCCESSFULLY_JOIN
      <3>1. code \in Answers /\ code # GROUP_SUCCESSFULLY_JOIN
        BY <2>1 DEF Answers, GROUP_NAME_NOT_EXIST, GROUP_SUCCESSFULLY_INSERT,
                    GROUP_SUCCESSFULLY_JOIN
      <3> QED
        BY <1>1, <2>1, <3>1, ReplyRead DEF AnswerTypes
    <2>3. AnswerFits(q, answer)'
      BY <2>2 DEF AnswerFits
    <2>4. Grown
      BY <1>1, <1>2, <2>1 DEF Grown, UserChain, GroupChain
    <2>5. CountedAs(q, answer')
      BY <2>1, <2>2 DEF CountedAs, OpensWindow
    <2> QED
      BY <1>2, <2>2, <2>3, <2>4, <2>5 DEF Answered
  <1>6. CASE dbRes'.err = "DB_GROUP_JOIN_SUCCESSFULLY"
    <2>1. /\ ParticAdded(msg) /\ FoundGroup(msg).m_groupName = msg.m_groupName
          /\ ip = FoundGroup(msg).m_ip_add_group
      BY <1>1, <1>6, JoinEffect
    <2>2. ip \in IPAddrs /\ ip # NULL
      <3>1. /\ GroupChain(msg.m_groupName) \in Seq(GroupValues)
            /\ GroupChain(msg.m_groupName) # << >>
        BY <1>3, <1>4, <2>1, AppTypeParts DEF ParticAdded, GroupChain
      <3>2. FoundGroup(msg) \in GroupValues
        BY <3>1, HeadTailProperties DEF FoundGroup
      <3> QED
        BY <2>1, <3>2, NameAssumption DEF GroupValues
    <2>3. /\ code = GROUP_SUCCESSFULLY_JOIN
          /\ told' = told \cup {<<msg.m_groupName, ip>>}
          /\ admitted' = [admitted EXCEPT ![msg.m_groupName] = @ + 1]
      BY <1>1, <1>6, <2>2 DEF GroupAnswer, Tell, Count
    <2>4. /\ answer' \in AnswerRecords /\ answer'.m_type = "JOIN_CONVERSATION_ANS"
          /\ AnswerRead(answer') = GROUP_SUCCESSFULLY_JOIN /\ answer'.m_groupIP = ip
      BY <1>1, <2>2, <2>3, ReplyRead DEF AnswerTypes, Answers, GROUP_SUCCESSFULLY_JOIN
    <2>5. AnswerFits(q, answer)'
      BY <2>3, <2>4 DEF AnswerFits
    <2>6. \A g \in Groups : GroupChain(g) # << >> => GroupChain(g)' # << >>
      <3>1. \A b \in Buckets : m_groupNames[b] # << >> => m_groupNames'[b] # << >>
        <4>1. \A b \in Buckets : Len(m_groupNames'[b]) = Len(m_groupNames[b])
          BY <2>1, ParticAddedKeeps, AppTypeParts
        <4> QED
          BY <4>1, <1>2, AppTypeParts, AppTypeParts, EmptySeq
             DEF AppInv, TypeOK, DBTypeOK
      <3> QED
        BY <1>3, <3>1 DEF GroupChain
    <2>7. Grown
      BY <1>1, <1>2, <2>3, <2>6 DEF Grown, UserChain
    <2>8. CountedAs(q, answer')
      BY <1>4, <2>3, <2>4 DEF CountedAs, OpensWindow, GroupReqs
    <2> QED
      BY <1>2, <2>4, <2>5, <2>7, <2>8 DEF Answered
  <1> QED
    BY <1>5, <1>6

\* A departure is always refused, with a code that is not packed.
LEMMA LeaveAnswered ==
  ASSUME AppInv, NEW q \in Asks, q.m_type = "LEAVE_CONVERSATION_REQ",
         NEW msg \in GroupMsgs, Leave(msg)
  PROVE  Answered(q)
  <1> DEFINE code == GroupAnswer(dbRes'.err)
             ip == dbRes'.ipAddr
  <1>1. /\ Try_to_Leave_To_Group(msg) /\ UNCHANGED <<registered, told>>
        /\ Reply("LEAVE_CONVERSATION_ANS", code, ip)
        /\ Count(msg, "DB_GROUP_REMOVE_SUCCESSFULLY", -1)
    BY DEF Leave
  <1>2. /\ UNCHANGED <<m_userNames, m_groupNames>>
        /\ dbRes' = [err |-> "DB_GROUP_NAME_NOT_EXIST", ipAddr |-> NULL]
    BY <1>1, LeaveEffect
  <1>3. code = GROUP_NAME_NOT_EXIST /\ ip = NULL /\ UNCHANGED admitted
    BY <1>1, <1>2 DEF GroupAnswer, Count
  <1>4. answer' \in AnswerRecords /\ answer'.m_type = "LEAVE_CONVERSATION_ANS"
    BY <1>1, <1>3, ReplyRead DEF AnswerTypes, Answers, GROUP_NAME_NOT_EXIST
  <1>5. AnswerFits(q, answer)'
    BY <1>4 DEF AnswerFits
  <1>6. Grown
    BY <1>1, <1>2 DEF Grown, UserChain, GroupChain
  <1>7. CountedAs(q, answer')
    BY <1>3 DEF CountedAs, OpensWindow
  <1> QED
    BY <1>4, <1>5, <1>6, <1>7, LeaveAppInv DEF Answered

\* Every question that is handled is answered, whatever its packing makes of it.
LEMMA HandleAnswered ==
  ASSUME AppInv, NEW q \in Asks, Handle(PackRequest(q))
  PROVE  Answered(q)
  <1>1. CASE q \in [m_type : UserReqs, m_body : UserMsgs]
    <2>1. PackRequest(q) = q /\ q.m_type \in UserReqs /\ q.m_body \in UserMsgs
      BY <1>1 DEF PackRequest, UserReqs
    <2> QED
      BY <2>1, RegisterAnswered, LoginAnswered DEF Handle, UserReqs
  <1>2. CASE q \in [m_type : GroupReqs, m_body : GroupMsgs]
    <2>1. q.m_type \in GroupReqs /\ q.m_body \in GroupMsgs
      BY <1>2
    <2>2. CASE q.m_type # "LEAVE_CONVERSATION_REQ"
      <3>1. PackRequest(q) = q
        BY <2>2 DEF PackRequest
      <3> QED
        BY <2>1, <2>2, <3>1, CreateAnswered, JoinAnswered DEF Handle, GroupReqs
    <2>3. CASE q.m_type = "LEAVE_CONVERSATION_REQ"
      <3> DEFINE msg == [q.m_body EXCEPT !.m_groupName = Mangled[@]]
      <3>1. msg \in GroupMsgs
        BY <2>1, MangledAssumption DEF GroupMsgs
      <3>2. PackRequest(q) = [q EXCEPT !.m_body = msg]
        BY <2>1, <2>3 DEF PackRequest
      <3>3. PackRequest(q).m_type = q.m_type /\ PackRequest(q).m_body = msg
        BY <1>2, <3>2
      <3> HIDE DEF msg
      <3>4. Leave(msg)
        BY <2>3, <3>3 DEF Handle
      <3> QED
        BY <2>3, <3>1, <3>4, LeaveAnswered
    <2> QED
      BY <2>2, <2>3
  <1> QED
    BY <1>1, <1>2 DEF Asks
-----------------------------------------------------------------------------
(***************************************************************************)
(* Steps that no answer is read in or given by.                            *)
(***************************************************************************)
\* The clients that hold an admission can be counted.
LEMMA AdmittedFinite ==
  ASSUME NEW g \in Groups
  PROVE  /\ IsFiniteSet(Admitted(g)) /\ Cardinality(Admitted(g)) \in Nat
         /\ IsFiniteSet(Admitted(g)') /\ Cardinality(Admitted(g)') \in Nat
  <1>1. Admitted(g) \subseteq Clients /\ Admitted(g)' \subseteq Clients
    BY DEF Admitted
  <1> QED
    BY <1>1, ClientAssumption, FS_Subset, FS_CardinalityType

\* What an answer says stays so while the data base forgets nothing.
LEMMA FitsGrown ==
  ASSUME NEW q \in Asks, NEW a, Grown, AnswerFits(q, a)
  PROVE  AnswerFits(q, a)'
  <1>1. CASE q \in [m_type : UserReqs, m_body : UserMsgs]
    <2>1. q.m_body.m_userName \in Users
      BY <1>1 DEF UserMsgs
    <2>2. q.m_type \notin GroupReqs
      BY <1>1 DEF UserReqs, GroupReqs
    <2> QED
      BY <2>1, <2>2 DEF AnswerFits, Grown, GroupReqs
  <1>2. CASE q \in [m_type : GroupReqs, m_body : GroupMsgs]
    <2>1. q.m_body.m_groupName \in Groups
      BY <1>2 DEF GroupMsgs
    <2>2. q.m_type \notin UserReqs
      BY <1>2 DEF UserReqs, GroupReqs
    <2> QED
      BY <2>1, <2>2 DEF AnswerFits, Grown, UserReqs
  <1> QED
    BY <1>1, <1>2 DEF Asks

\* An answer that stays unread with its question stays as it is.
LEMMA FitsKept ==
  ASSUME Fits, Grown, NEW d \in Clients, asked[d] \in Asks, inbox[d] # << >>,
         inbox'[d] = inbox[d], asked'[d] = asked[d]
  PROVE  AnswerFits(asked[d], inbox[d][1])'
  <1>1. PICK q \in Asks : q = asked[d]
    OBVIOUS
  <1>2. PICK a : a = inbox[d][1]
    OBVIOUS
  <1>3. AnswerFits(q, a)'
    <2>1. AnswerFits(asked[d], inbox[d][1])
      BY DEF Fits
    <2>2. AnswerFits(q, a)
      BY <1>1, <1>2, <2>1
    <2> QED
      BY <2>2, FitsGrown
  <1>4. asked'[d] = q /\ inbox'[d][1] = a
    BY <1>1, <1>2
  <1> QED
    BY <1>3, <1>4 DEF AnswerFits

\* A client holds an answer only to a question it has asked.
LEMMA InboxAsked ==
  ASSUME ChatInv, NEW d \in Clients, inbox[d] # << >>
  PROVE  /\ asked[d] \in Asks /\ ui[d] = "recv"
         /\ inbox[d] \in Seq(AnswerRecords) /\ Len(inbox[d]) = 1
         /\ inbox[d][1] \in AnswerRecords /\ Head(inbox[d]) = inbox[d][1]
         /\ Tail(inbox[d]) = << >>
  <1>1. ui[d] = "recv" /\ Len(inbox[d]) = 1 /\ asked[d] \in Asks
    BY DEF ChatInv, LinkOK
  <1>2. inbox[d] \in Seq(AnswerRecords)
    BY DEF ChatInv, LinkTypes
  <1>3. inbox[d][1] \in AnswerRecords
    BY <1>1, <1>2, ElementOfSeq
  <1>4. Tail(inbox[d]) = << >>
    <2>1. Tail(inbox[d]) \in Seq(AnswerRecords) /\ Len(Tail(inbox[d])) = 0
      BY <1>1, <1>2, HeadTailProperties
    <2> QED
      BY <2>1, EmptySeq
  <1> QED
    BY <1>1, <1>2, <1>3, <1>4

\* Client d's answer and question stay, or it holds no answer.
Quiet(d) ==
  \/ inbox'[d] = << >>
  \/ inbox'[d] = inbox[d] /\ asked'[d] = asked[d]

\* A client that is quiet holds no admission it did not hold.
LEMMA QuietAdmitted ==
  ASSUME NEW d \in Clients, NEW g \in Groups, Quiet(d), d \in Admitted(g)'
  PROVE  d \in Admitted(g)
  BY DEF Quiet, Admitted

\* While all clients are quiet and no request is handled, what is said of
\* answers, windows and counts stays true.
LEMMA QuietStep ==
  ASSUME ChatInv, UNCHANGED <<appVars, windows>>, \A d \in Clients : Quiet(d)
  PROVE  AppInv' /\ Fits' /\ WindowsTold' /\ Counted'
  <1>1. /\ UNCHANGED <<told, registered, admitted, m_userNames, m_groupNames>>
        /\ windows' = windows
    BY DEF appVars
  <1>2. AppInv'
    BY UnchangedAppInv DEF ChatInv
  <1>3. Grown
    BY <1>1 DEF Grown, UserChain, GroupChain
  <1>4. Fits'
    <2> SUFFICES ASSUME NEW d \in Clients, inbox'[d] # << >>
                 PROVE  AnswerFits(asked[d], inbox[d][1])'
      BY DEF Fits
    <2>1. inbox'[d] = inbox[d] /\ asked'[d] = asked[d]
      BY DEF Quiet
    <2> QED
      BY <1>3, <2>1, FitsKept, InboxAsked DEF ChatInv
  <1>5. WindowsTold'
    BY <1>1 DEF ChatInv, WindowsTold
  <1>6. Counted'
    <2> SUFFICES ASSUME NEW p \in Places
                 PROVE  windows'[p] + Cardinality(Admitted(p[1])') <= admitted'[p[1]]
      BY DEF Counted
    <2> DEFINE g == p[1]
    <2>1. g \in Groups
      BY DEF Places
    <2>2. Admitted(g)' \subseteq Admitted(g)
      BY <2>1, QuietAdmitted DEF Admitted
    <2>3. Cardinality(Admitted(g)') <= Cardinality(Admitted(g))
      BY <2>1, <2>2, AdmittedFinite, FS_Subset
    <2>4. windows[p] + Cardinality(Admitted(g)) <= admitted[g] /\ windows[p] \in Nat
          /\ admitted[g] \in Nat
      BY <2>1, AppTypeParts DEF ChatInv, Counted, LinkTypes
    <2> HIDE DEF g
    <2>5. windows[p] + Cardinality(Admitted(g)') <= admitted[g]
      BY <2>1, <2>3, <2>4, AdmittedFinite
    <2> QED
      BY <1>1, <2>5 DEF g
  <1> QED
    BY <1>2, <1>4, <1>5, <1>6
-----------------------------------------------------------------------------
(***************************************************************************)
(* The client processes.                                                   *)
(***************************************************************************)
LinkInv == LinkTypes /\ QueueOK /\ \A c \in Clients : LinkOK(c)

\* A client whose process, kernel and connection a step leaves alone.
Untouched(d) ==
  /\ sock'[d] = sock[d] /\ request'[d] = request[d] /\ peer'[d] = peer[d]
  /\ inbox'[d] = inbox[d] /\ lost'[d] = lost[d] /\ ui'[d] = ui[d]
  /\ me'[d] = me[d] /\ asked'[d] = asked[d]

LEMMA LinkKept ==
  ASSUME NEW d \in Clients, LinkOK(d), Untouched(d)
  PROVE  LinkOK(d)'
  BY DEF LinkOK, Untouched

\* The kernel's queue is left alone, and so are the connections in it.
LEMMA QueueKept ==
  ASSUME QueueOK, UNCHANGED <<up, backlog, sock>>
  PROVE  QueueOK'
  BY DEF QueueOK

\* A process starts with a connection in the kernel's queue, or without one.
LEMMA StartKeeps ==
  ASSUME ChatInv, NEW c \in Clients, Start(c)
  PROVE  ChatInv'
  <1>1. /\ LinkTypes /\ QueueOK /\ LinkOK(c)
        /\ ui[c] = "off" /\ ui' = [ui EXCEPT ![c] = "welcome"]
        /\ UNCHANGED <<appVars, inbox, me, asked, windows>>
    BY DEF ChatInv, Start
  <1>2. inbox[c] = << >> /\ lost[c] = "no"
    BY <1>1 DEF LinkOK
  <1>3. LinkInv'
    <2>1. CASE Service!Connect(c) /\ UNCHANGED lost
      <3>1. /\ up /\ sock[c] = "closed" /\ UNCHANGED <<up, request, peer, lost>>
            /\ sock' = [sock EXCEPT ![c] = "backlog"]
            /\ backlog' = Append(backlog, c)
        BY <2>1 DEF Service!Connect
      <3>2. LinkTypes'
        BY <1>1, <3>1, AppendProperties DEF LinkTypes
      <3>3. LinkOK(c)'
        BY <1>1, <1>2, <3>1 DEF LinkOK, LinkTypes
      <3>4. \A d \in Clients : d # c => Untouched(d)
        BY <1>1, <3>1 DEF Untouched, LinkTypes
      <3>5. QueueOK'
        <4>1. /\ backlog \in Seq(Clients) /\ Len(backlog) \in Nat
              /\ DOMAIN backlog = 1 .. Len(backlog)
          BY <1>1, LenProperties DEF LinkTypes
        <4>2. \A i \in DOMAIN backlog : backlog[i] # c /\ backlog[i] \in Clients
          BY <1>1, <3>1, <4>1, ElementOfSeq DEF QueueOK
        <4>3. /\ DOMAIN backlog' = 1 .. Len(backlog) + 1
              /\ backlog'[Len(backlog) + 1] = c
              /\ \A i \in 1 .. Len(backlog) : backlog'[i] = backlog[i]
          BY <3>1, <4>1
        <4>4. \A i \in DOMAIN backlog' : sock'[backlog'[i]] = "backlog"
          BY <1>1, <3>1, <4>1, <4>2, <4>3 DEF QueueOK, LinkTypes
        <4>5. \A i, j \in DOMAIN backlog' : backlog'[i] = backlog'[j] => i = j
          BY <1>1, <4>1, <4>2, <4>3 DEF QueueOK
        <4> QED
          BY <3>1, <4>4, <4>5 DEF QueueOK
      <3> QED
        BY <3>2, <3>3, <3>4, <3>5, LinkKept DEF LinkInv, ChatInv
    <2>2. CASE ~up /\ lost' = [lost EXCEPT ![c] = "dead"] /\ UNCHANGED service
      <3>1. UNCHANGED <<up, sock, backlog, request, peer>> /\ sock[c] = "closed"
        BY <1>1, <2>2 DEF service, QueueOK
      <3>2. LinkTypes'
        BY <1>1, <2>2, <3>1 DEF LinkTypes
      <3>3. LinkOK(c)'
        BY <1>1, <1>2, <2>2, <3>1 DEF LinkOK, LinkTypes
      <3>4. \A d \in Clients : d # c => Untouched(d)
        BY <1>1, <2>2, <3>1 DEF Untouched, LinkTypes
      <3>5. QueueOK'
        BY <1>1, <3>1, QueueKept
      <3> QED
        BY <3>2, <3>3, <3>4, <3>5, LinkKept DEF LinkInv, ChatInv
    <2> QED
      BY <2>1, <2>2 DEF Start
  <1>4. \A d \in Clients : Quiet(d)
    BY <1>1 DEF Quiet
  <1> QED
    BY <1>1, <1>3, <1>4, QuietStep DEF ChatInv, LinkInv

\* The end of a process leaves nothing of it behind but a request on its way.
LEMMA EndKeeps ==
  ASSUME ChatInv, NEW c \in Clients, ProcessEnds(c), UNCHANGED <<up, sock, backlog, request>>,
         ui[c] # "off",
         peer' \in [Clients -> {"up", "fin", "rst"}],
         \A d \in Clients : d # c => peer'[d] = peer[d],
         IF lost[c] = "no" THEN peer'[c] # "up" ELSE peer'[c] = peer[c]
  PROVE  ChatInv'
  <1>1. /\ LinkTypes /\ QueueOK /\ LinkOK(c)
        /\ ui' = [ui EXCEPT ![c] = "off"]
        /\ inbox' = [inbox EXCEPT ![c] = << >>]
        /\ lost' = [lost EXCEPT ![c] = "no"]
        /\ me' = [me EXCEPT ![c] = NULL]
        /\ asked' = [asked EXCEPT ![c] = IF request[c] THEN @ ELSE NULL]
        /\ UNCHANGED <<appVars, windows>>
    BY DEF ChatInv, ProcessEnds
  <1>2. LinkTypes'
    <2>1. asked' \in [Clients -> Asks \cup {NULL}]
      BY <1>1 DEF LinkTypes
    <2>2. inbox' \in [Clients -> Seq(AnswerRecords)]
      BY <1>1 DEF LinkTypes
    <2> QED
      BY <1>1, <2>1, <2>2 DEF LinkTypes
  <1>3. LinkOK(c)'
    <2>1. /\ ui'[c] = "off" /\ inbox'[c] = << >> /\ lost'[c] = "no"
          /\ request'[c] => asked'[c] = asked[c]
      BY <1>1 DEF LinkTypes
    <2>2. /\ sock[c] # "closed" => lost[c] = "no"
          /\ sock[c] = "closed" => ~request[c] /\ peer[c] = "up" /\ lost[c] # "no"
          /\ request[c] => asked[c] \in Asks
      BY <1>1 DEF LinkOK, LinkTypes
    <2> QED
      BY <2>1, <2>2 DEF LinkOK
  <1>4. \A d \in Clients : d # c => Untouched(d)
    BY <1>1 DEF Untouched, LinkTypes
  <1>5. QueueOK'
    BY <1>1, QueueKept
  <1>6. \A d \in Clients : Quiet(d)
    BY <1>1 DEF Quiet, LinkTypes
  <1> QED
    BY <1>1, <1>2, <1>3, <1>4, <1>5, <1>6, LinkKept, QuietStep DEF ChatInv

\* The user kills the process: its kernel closes the connection it has.
LEMMA QuitKeeps ==
  ASSUME ChatInv, NEW c \in Clients, Quit(c)
  PROVE  ChatInv'
  <1>1. LinkTypes /\ LinkOK(c) /\ ui[c] # "off" /\ ProcessEnds(c)
    BY DEF ChatInv, Quit
  <1>2. CASE lost[c] = "no"
    <2>1. Service!Hangup(c) /\ peer'[c] # "up"
      BY <1>2 DEF Quit
    <2>2. PICK how \in {"fin", "rst"} : peer' = [peer EXCEPT ![c] = how]
      BY <2>1 DEF Service!Hangup
    <2>3. UNCHANGED <<up, sock, backlog, request>>
      BY <2>1 DEF Service!Hangup
    <2>4. peer' \in [Clients -> {"up", "fin", "rst"}]
      BY <1>1, <2>2 DEF LinkTypes
    <2>5. \A d \in Clients : d # c => peer'[d] = peer[d]
      BY <1>1, <2>2 DEF LinkTypes
    <2> QED
      BY <1>1, <1>2, <2>1, <2>3, <2>4, <2>5, EndKeeps
  <1>3. CASE lost[c] # "no"
    <2>1. UNCHANGED <<up, sock, backlog, request, peer>>
      BY <1>3 DEF Quit, service
    <2> QED
      BY <1>1, <1>3, <2>1, EndKeeps DEF LinkTypes
  <1> QED
    BY <1>2, <1>3

\* The process is killed by a send on a connection known to be dead.
LEMMA KilledKeeps ==
  ASSUME ChatInv, NEW c \in Clients, Killed(c)
  PROVE  ChatInv'
  <1>1. LinkTypes /\ ui[c] # "off" /\ ProcessEnds(c) /\ lost[c] = "dead"
    BY DEF ChatInv, Killed, Questions
  <1>2. UNCHANGED <<up, sock, backlog, request, peer>>
    BY DEF Killed, service
  <1> QED
    BY <1>1, <1>2, EndKeeps DEF LinkTypes

\* The group menu is reached with the details of the registration.
LEMMA SkipLoginKeeps ==
  ASSUME ChatInv, NEW c \in Clients, SkipLogin(c)
  PROVE  ChatInv'
  <1>1. /\ LinkTypes /\ QueueOK /\ LinkOK(c)
        /\ ui[c] = "prompt" /\ ui' = [ui EXCEPT ![c] = "menu"]
        /\ UNCHANGED <<appVars, inbox, lost, me, asked, windows>>
        /\ UNCHANGED <<up, sock, backlog, request, peer>>
    BY DEF ChatInv, SkipLogin, service
  <1>2. LinkTypes'
    BY <1>1 DEF LinkTypes
  <1>3. LinkOK(c)'
    BY <1>1 DEF LinkOK, LinkTypes
  <1>4. \A d \in Clients : d # c => Untouched(d)
    BY <1>1 DEF Untouched, LinkTypes
  <1>5. \A d \in Clients : Quiet(d)
    BY <1>1 DEF Quiet
  <1> QED
    BY <1>1, <1>2, <1>3, <1>4, <1>5, QueueKept, LinkKept, QuietStep DEF ChatInv

\* A menu offers questions the server can be asked, and keeps the details.
LEMMA QuestionsAsked ==
  ASSUME LinkTypes, NEW c \in Clients, LinkOK(c), NEW q \in Questions(c)
  PROVE  q \in Asks /\ Details(c, q) \in UserMsgs /\ ui[c] \in {"welcome", "prompt", "menu"}
  <1>1. ui[c] \in {"welcome", "prompt", "menu"}
    BY DEF Questions
  <1>2. CASE ui[c] = "welcome"
    BY <1>2 DEF Questions, Asks, Details
  <1>3. CASE ui[c] = "prompt"
    <2>1. me[c] \in UserMsgs
      BY <1>3 DEF LinkOK
    <2> QED
      BY <1>3, <2>1 DEF Questions, Asks, Details, UserReqs
  <1>4. CASE ui[c] = "menu"
    <2>1. me[c] \in UserMsgs
      BY <1>4 DEF LinkOK
    <2>2. q \in [m_type : GroupReqs, m_body : GroupMsgs]
      BY <1>4, <2>1 DEF Questions, GroupMsgs, UserMsgs
    <2> QED
      BY <1>1, <2>1, <2>2 DEF Asks, Details, UserReqs, GroupReqs
  <1> QED
    BY <1>1, <1>2, <1>3, <1>4

\* One question is sent, on a connection that is up or was closed unnoticed.
LEMMA AskKeeps ==
  ASSUME ChatInv, NEW c \in Clients, Ask(c)
  PROVE  ChatInv'
  <1>1. LinkTypes /\ QueueOK /\ LinkOK(c)
    BY DEF ChatInv
  <1>2. PICK q \in Questions(c) : /\ asked' = [asked EXCEPT ![c] = q]
                                  /\ me' = [me EXCEPT ![c] = Details(c, q)]
    BY DEF Ask
  <1>3. /\ q \in Asks /\ Details(c, q) \in UserMsgs /\ ui[c] \in {"welcome", "prompt", "menu"}
        /\ ui' = [ui EXCEPT ![c] = "recv"] /\ UNCHANGED <<appVars, inbox, windows>>
    BY <1>1, QuestionsAsked DEF Ask
  <1>4. inbox[c] = << >>
    BY <1>1, <1>3 DEF LinkOK
  <1> DEFINE details == Details(c, q)
  <1> HIDE DEF details
  <1>5. LinkInv'
    <2>1. CASE lost[c] = "no" /\ Service!Send(c) /\ UNCHANGED lost
      <3>1. /\ request' = [request EXCEPT ![c] = TRUE] /\ sock[c] # "closed"
            /\ UNCHANGED <<up, sock, backlog, peer, lost>>
        BY <2>1 DEF Service!Send
      <3>2. LinkTypes'
        BY <1>1, <1>2, <1>3, <3>1 DEF LinkTypes, details
      <3>3. LinkOK(c)'
        BY <1>1, <1>2, <1>3, <1>4, <3>1 DEF LinkOK, LinkTypes, details
      <3>4. \A d \in Clients : d # c => Untouched(d)
        BY <1>1, <1>2, <1>3, <3>1 DEF Untouched, LinkTypes
      <3> QED
        BY <1>1, <3>1, <3>2, <3>3, <3>4, QueueKept, LinkKept DEF ChatInv, LinkInv
    <2>2. CASE lost[c] = "fin" /\ lost' = [lost EXCEPT ![c] = "dead"] /\ UNCHANGED service
      <3>1. UNCHANGED <<up, sock, backlog, request, peer>>
        BY <2>2 DEF service
      <3>2. LinkTypes'
        BY <1>1, <1>2, <1>3, <2>2, <3>1 DEF LinkTypes, details
      <3>3. LinkOK(c)'
        BY <1>1, <1>2, <1>3, <1>4, <2>2, <3>1 DEF LinkOK, LinkTypes, details
      <3>4. \A d \in Clients : d # c => Untouched(d)
        BY <1>1, <1>2, <1>3, <2>2, <3>1 DEF Untouched, LinkTypes
      <3> QED
        BY <1>1, <3>1, <3>2, <3>3, <3>4, QueueKept, LinkKept DEF ChatInv, LinkInv
    <2> QED
      BY <2>1, <2>2 DEF Ask
  <1>6. \A d \in Clients : Quiet(d)
    BY <1>1, <1>2, <1>3, <1>4 DEF Quiet, LinkTypes
  <1> QED
    BY <1>3, <1>5, <1>6, QuietStep DEF ChatInv, LinkInv

\* Where a report leads, and what is kept of the details.
LEMMA MenuReached ==
  ASSUME LinkTypes, NEW c \in Clients, NEW q \in Asks, NEW err,
         Details(c, q) \in UserMsgs, Return_To_Menu(c, q, err)
  PROVE  /\ ui' \in [Clients -> {"off", "welcome", "prompt", "menu", "recv"}]
         /\ me' \in [Clients -> UserMsgs \cup {NULL}]
         /\ ui'[c] \in {"welcome", "prompt", "menu"}
         /\ ui'[c] # "welcome" => me'[c] \in UserMsgs
         /\ \A d \in Clients : d # c => ui'[d] = ui[d] /\ me'[d] = me[d]
  <1> DEFINE menu == NextMenu(q.m_type, err)
             details == Details(c, q)
  <1>1. menu \in {"welcome", "prompt", "menu"}
    BY DEF NextMenu
  <1>2. /\ ui' = [ui EXCEPT ![c] = menu]
        /\ me' = [me EXCEPT ![c] = IF menu = "welcome" THEN NULL ELSE details]
    BY DEF Return_To_Menu
  <1> HIDE DEF menu, details
  <1>3. ui \in [Clients -> {"off", "welcome", "prompt", "menu", "recv"}]
        /\ me \in [Clients -> UserMsgs \cup {NULL}]
    BY DEF LinkTypes
  <1>4. ui'[c] = menu /\ \A d \in Clients : d # c => ui'[d] = ui[d]
    BY <1>2, <1>3
  <1>5. /\ me'[c] = (IF menu = "welcome" THEN NULL ELSE details)
        /\ \A d \in Clients : d # c => me'[d] = me[d]
    BY <1>2, <1>3
  <1>6. me' \in [Clients -> UserMsgs \cup {NULL}]
    BY <1>2, <1>3 DEF details
  <1> QED
    BY <1>1, <1>2, <1>3, <1>4, <1>5, <1>6 DEF details

\* A send that fails at once is reported, and nothing is on its way.
LEMMA AskFailsKeeps ==
  ASSUME ChatInv, NEW c \in Clients, AskFails(c)
  PROVE  ChatInv'
  <1>1. /\ LinkTypes /\ QueueOK /\ LinkOK(c)
        /\ lost[c] = "reset" /\ lost' = [lost EXCEPT ![c] = "dead"]
        /\ UNCHANGED <<appVars, inbox, asked, windows>>
        /\ UNCHANGED <<up, sock, backlog, request, peer>>
    BY DEF ChatInv, AskFails, service
  <1>2. PICK q \in Questions(c) : Return_To_Menu(c, q, SendFailed(q.m_type))
    BY DEF AskFails
  <1>3. q \in Asks /\ Details(c, q) \in UserMsgs /\ ui[c] \in {"welcome", "prompt", "menu"}
    BY <1>1, QuestionsAsked
  <1>4. /\ ui' \in [Clients -> {"off", "welcome", "prompt", "menu", "recv"}]
        /\ me' \in [Clients -> UserMsgs \cup {NULL}]
        /\ ui'[c] \in {"welcome", "prompt", "menu"}
        /\ ui'[c] # "welcome" => me'[c] \in UserMsgs
        /\ \A d \in Clients : d # c => ui'[d] = ui[d] /\ me'[d] = me[d]
    BY <1>1, <1>2, <1>3, MenuReached
  <1>5. LinkTypes'
    BY <1>1, <1>4 DEF LinkTypes
  <1>6. LinkOK(c)'
    BY <1>1, <1>3, <1>4 DEF LinkOK, LinkTypes
  <1>7. \A d \in Clients : d # c => Untouched(d)
    BY <1>1, <1>4 DEF Untouched, LinkTypes
  <1>8. \A d \in Clients : Quiet(d)
    BY <1>1 DEF Quiet
  <1> QED
    BY <1>1, <1>5, <1>6, <1>7, <1>8, QueueKept, LinkKept, QuietStep DEF ChatInv

\* An admission that is read names the address told for its group.
LEMMA WindowPlace ==
  ASSUME ChatInv, NEW c \in Clients, OpensWindow(asked[c].m_type, Code(c))
  PROVE  LET g == asked[c].m_body.m_groupName
             place == <<g, Head(inbox[c]).m_groupIP>> IN
         /\ inbox[c] # << >> /\ g \in Groups /\ c \in Admitted(g)
         /\ place \in told /\ place \in Places
  <1> DEFINE q == asked[c]
             a == inbox[c][1]
  <1>1. inbox[c] # << >>
    BY DEF OpensWindow, Code, GROUP_SUCCESSFULLY_INSERT, GROUP_SUCCESSFULLY_JOIN
  <1>2. q \in Asks /\ Head(inbox[c]) = a /\ AnswerFits(q, a)
    BY <1>1, InboxAsked DEF ChatInv, Fits
  <1>3. OpensWindow(q.m_type, AnswerRead(a))
    BY <1>1, <1>2 DEF Code
  <1>4. q.m_type \in {"CREATE_GROUP_CONVERSATION_REQ", "JOIN_CONVERSATION_REQ"}
    BY <1>3 DEF OpensWindow
  <1>5. q.m_type \in GroupReqs /\ q.m_body \in GroupMsgs
    BY <1>2, <1>4 DEF Asks, UserReqs, GroupReqs
  <1>6. <<q.m_body.m_groupName, a.m_groupIP>> \in told
    BY <1>2, <1>3, <1>4 DEF AnswerFits, OpensWindow, GROUP_SUCCESSFULLY_INSERT,
       GROUP_SUCCESSFULLY_JOIN, GROUP_NAME_ALREADY_EXIST
  <1>7. told \subseteq Groups \X IPAddrs
    BY AppTypeParts DEF ChatInv
  <1>8. q.m_body.m_groupName \in Groups
    BY <1>5 DEF GroupMsgs
  <1>9. c \in Admitted(q.m_body.m_groupName)
    BY <1>1, <1>3, <1>5 DEF Admitted
  <1> QED
    BY <1>1, <1>2, <1>6, <1>7, <1>8, <1>9 DEF Places

\* Reading an admission turns it into the window it opens.
LEMMA ReciveCounted ==
  ASSUME ChatInv, NEW c \in Clients, Recive_From_Server(c)
  PROVE  WindowsTold' /\ Counted'
  <1> DEFINE opens == OpensWindow(asked[c].m_type, Code(c))
  <1>1. /\ LinkTypes /\ UNCHANGED <<told, admitted>>
        /\ \A g \in Groups : admitted[g] \in Nat
    BY AppTypeParts DEF ChatInv, Recive_From_Server, appVars
  <1>2. inbox'[c] = << >> /\ \A d \in Clients : d # c => Untouched(d) \/ Quiet(d)
    <2>1. inbox' = [inbox EXCEPT ![c] = IF @ = << >> THEN @ ELSE Tail(@)]
          /\ asked' = [asked EXCEPT ![c] = NULL]
      BY DEF Recive_From_Server
    <2>2. inbox'[c] = << >>
      BY <1>1, <2>1, InboxAsked DEF LinkTypes
    <2> QED
      BY <1>1, <2>1, <2>2 DEF Quiet, LinkTypes
  <1>3. \A g \in Groups : Admitted(g)' \subseteq Admitted(g) /\ c \notin Admitted(g)'
    <2> SUFFICES ASSUME NEW g \in Groups, NEW d \in Admitted(g)'
                 PROVE  d \in Admitted(g) /\ d # c
      OBVIOUS
    <2>1. d \in Clients /\ d # c
      BY <1>2 DEF Admitted
    <2> QED
      BY <1>2, <2>1, QuietAdmitted DEF Quiet, Untouched
  <1>4. \A g \in Groups : Cardinality(Admitted(g)') <= Cardinality(Admitted(g))
    BY <1>3, AdmittedFinite, FS_Subset
  <1>5. \A p \in Places : /\ p[1] \in Groups /\ windows[p] \in Nat
                          /\ windows[p] + Cardinality(Admitted(p[1])) <= admitted[p[1]]
    BY <1>1 DEF Places, LinkTypes, ChatInv, Counted
  <1>6. CASE ~opens
    <2>1. windows' = windows
      BY <1>6 DEF Recive_From_Server
    <2>2. WindowsTold'
      BY <1>1, <2>1 DEF ChatInv, WindowsTold
    <2>3. ASSUME NEW p \in Places
          PROVE  windows'[p] + Cardinality(Admitted(p[1])') <= admitted'[p[1]]
      <3> DEFINE n == Cardinality(Admitted(p[1])')
                 m == Cardinality(Admitted(p[1]))
      <3>1. /\ n \in Nat /\ m \in Nat /\ n <= m
            /\ windows[p] \in Nat /\ windows[p] + m <= admitted[p[1]] /\ admitted[p[1]] \in Nat
        BY <1>1, <1>4, <1>5, AdmittedFinite
      <3> HIDE DEF n, m
      <3>2. windows[p] + n <= admitted[p[1]]
        BY <3>1
      <3> QED
        BY <1>1, <2>1, <3>2 DEF n
    <2> QED
      BY <2>2, <2>3 DEF Counted
  <1>7. CASE opens
    <2>1. PICK g0 \in Groups, place \in Places :
            /\ g0 = asked[c].m_body.m_groupName /\ place = <<g0, Head(inbox[c]).m_groupIP>>
            /\ c \in Admitted(g0) /\ place \in told
      BY <1>7, WindowPlace
    <2>2. windows' = [windows EXCEPT ![place] = @ + 1]
      BY <1>7, <2>1 DEF Recive_From_Server
    <2>3. \A p \in Places : windows'[p] = IF p = place THEN windows[p] + 1 ELSE windows[p]
      BY <1>1, <2>1, <2>2 DEF LinkTypes
    <2>4. WindowsTold'
      <3>1. \A p \in Places : windows'[p] > 0 => p \in told
        BY <1>5, <2>1, <2>3 DEF ChatInv, WindowsTold
      <3> QED
        BY <1>1, <3>1 DEF WindowsTold
    <2>5. Cardinality(Admitted(g0)') + 1 <= Cardinality(Admitted(g0))
      <3>1. /\ IsFiniteSet(Admitted(g0) \ {c})
            /\ Cardinality(Admitted(g0) \ {c}) = Cardinality(Admitted(g0)) - 1
        BY <2>1, AdmittedFinite, FS_RemoveElement
      <3>2. Admitted(g0)' \subseteq Admitted(g0) \ {c}
        BY <1>3, <2>1
      <3>3. Cardinality(Admitted(g0)') <= Cardinality(Admitted(g0) \ {c})
        BY <3>1, <3>2, FS_Subset
      <3> QED
        BY <2>1, <3>1, <3>3, AdmittedFinite
    <2>6. place[1] = g0
      BY <2>1
    <2>7. ASSUME NEW p \in Places
          PROVE  windows'[p] + Cardinality(Admitted(p[1])') <= admitted'[p[1]]
      <3> DEFINE n == Cardinality(Admitted(p[1])')
                 m == Cardinality(Admitted(p[1]))
                 w == windows[p]
                 k == admitted[p[1]]
      <3>1. /\ n \in Nat /\ m \in Nat /\ n <= m /\ w \in Nat /\ k \in Nat /\ w + m <= k
        BY <1>1, <1>4, <1>5, AdmittedFinite
      <3>2. p = place => n + 1 <= m
        BY <2>5, <2>6
      <3>3. windows'[p] = (IF p = place THEN w + 1 ELSE w) /\ admitted'[p[1]] = k
        BY <1>1, <2>3
      <3> HIDE DEF n, m, w, k
      <3>4. (IF p = place THEN w + 1 ELSE w) + n <= k
        BY <3>1, <3>2
      <3> QED
        BY <3>3, <3>4 DEF n
    <2> QED
      BY <2>4, <2>7 DEF Counted
  <1> QED
    BY <1>6, <1>7

\* The answer is read and reported, and its question is over.
LEMMA ReciveKeeps ==
  ASSUME ChatInv, NEW c \in Clients, Recive_From_Server(c)
  PROVE  ChatInv'
  <1>1. /\ LinkTypes /\ QueueOK /\ LinkOK(c) /\ ReportDue(c)
        /\ inbox' = [inbox EXCEPT ![c] = IF @ = << >> THEN @ ELSE Tail(@)]
        /\ asked' = [asked EXCEPT ![c] = NULL]
        /\ UNCHANGED <<appVars, lost>> /\ UNCHANGED <<up, sock, backlog, request, peer>>
    BY DEF ChatInv, Recive_From_Server, service
  <1>2. ui[c] = "recv" /\ asked[c] \in Asks /\ me[c] \in UserMsgs /\ ~request[c]
    BY <1>1 DEF ReportDue, LinkOK
  <1>3. PICK q \in Asks : q = asked[c]
    BY <1>2
  <1>4. Details(c, q) \in UserMsgs
    BY <1>2 DEF Asks, Details, UserReqs, GroupReqs
  <1>5. Return_To_Menu(c, q, Report(c))
    BY <1>3 DEF Recive_From_Server
  <1>6. /\ ui' \in [Clients -> {"off", "welcome", "prompt", "menu", "recv"}]
        /\ me' \in [Clients -> UserMsgs \cup {NULL}]
        /\ ui'[c] \in {"welcome", "prompt", "menu"}
        /\ ui'[c] # "welcome" => me'[c] \in UserMsgs
        /\ \A d \in Clients : d # c => ui'[d] = ui[d] /\ me'[d] = me[d]
    BY <1>1, <1>4, <1>5, MenuReached
  <1>7. inbox' \in [Clients -> Seq(AnswerRecords)] /\ inbox'[c] = << >>
    <2>1. (IF inbox[c] = << >> THEN inbox[c] ELSE Tail(inbox[c])) = << >>
      BY InboxAsked
    <2>2. inbox' = [inbox EXCEPT ![c] = << >>]
      BY <1>1, <2>1
    <2> QED
      BY <1>1, <2>2, EmptySeq DEF LinkTypes
  <1>8. windows' \in [Places -> Nat]
    <2>1. CASE ~OpensWindow(asked[c].m_type, Code(c))
      BY <1>1, <2>1 DEF Recive_From_Server, LinkTypes
    <2>2. CASE OpensWindow(asked[c].m_type, Code(c))
      BY <1>1, <2>2, WindowPlace DEF Recive_From_Server, LinkTypes
    <2> QED
      BY <2>1, <2>2
  <1>9. LinkTypes'
    BY <1>1, <1>6, <1>7, <1>8 DEF LinkTypes
  <1>10. LinkOK(c)'
    BY <1>1, <1>2, <1>6, <1>7 DEF LinkOK
  <1>11. \A d \in Clients : d # c => Untouched(d)
    BY <1>1, <1>6 DEF Untouched, LinkTypes
  <1>12. Fits'
    <2> SUFFICES ASSUME NEW d \in Clients, inbox'[d] # << >>
                 PROVE  AnswerFits(asked[d], inbox[d][1])'
      BY DEF Fits
    <2>1. inbox'[d] = inbox[d] /\ asked'[d] = asked[d]
      BY <1>7, <1>11 DEF Untouched
    <2>2. Grown
      BY <1>1 DEF Grown, UserChain, GroupChain, appVars
    <2> QED
      BY <2>1, <2>2, FitsKept, InboxAsked DEF ChatInv
  <1>13. AppInv'
    BY <1>1, UnchangedAppInv DEF ChatInv
  <1> QED
    BY <1>1, <1>9, <1>10, <1>11, <1>12, <1>13, ReciveCounted, QueueKept, LinkKept DEF ChatInv
-----------------------------------------------------------------------------
(***************************************************************************)
(* The server's end.                                                       *)
(***************************************************************************)
\* An admission answered is counted when it is given.
LEMMA AnswerCounted ==
  ASSUME ChatInv, NEW c \in Clients, NEW q \in Asks, q = asked[c], Answered(q),
         UNCHANGED <<asked, windows>>, inbox[c] = << >>,
         inbox'[c] = << >> \/ inbox'[c] = <<answer'>>,
         \A d \in Clients : d # c => inbox'[d] = inbox[d]
  PROVE  WindowsTold' /\ Counted'
  <1> DEFINE opens(g) == /\ q.m_type \in GroupReqs /\ q.m_body.m_groupName = g
                         /\ OpensWindow(q.m_type, AnswerRead(answer'))
  <1>1. /\ told \subseteq told' /\ windows' = windows
        /\ \A g \in Groups : admitted'[g] = IF opens(g) THEN admitted[g] + 1 ELSE admitted[g]
    BY DEF Answered, Grown, CountedAs
  <1>2. WindowsTold'
    BY <1>1 DEF ChatInv, WindowsTold
  <1>3. ASSUME NEW g \in Groups
        PROVE  Cardinality(Admitted(g)') <= Cardinality(Admitted(g)) + IF opens(g) THEN 1 ELSE 0
    <2>1. ASSUME NEW d \in Admitted(g)', d # c PROVE d \in Admitted(g)
      <3>1. d \in Clients
        BY <2>1 DEF Admitted
      <3>2. Quiet(d)
        BY <2>1, <3>1 DEF Quiet
      <3> QED
        BY <2>1, <3>1, <3>2, QuietAdmitted
    <2>2. c \in Admitted(g)' => opens(g)
      <3> SUFFICES ASSUME c \in Admitted(g)' PROVE opens(g)
        OBVIOUS
      <3>1. inbox'[c] # << >> /\ asked'[c] = q
        BY DEF Admitted
      <3>2. inbox'[c][1] = answer'
        BY <3>1
      <3> QED
        BY <3>1, <3>2 DEF Admitted
    <2> DEFINE m == Cardinality(Admitted(g))
    <2>3. IsFiniteSet(Admitted(g)) /\ m \in Nat
      BY AdmittedFinite
    <2>4. CASE opens(g)
      <3>1. Admitted(g)' \subseteq Admitted(g) \cup {c}
        BY <2>1
      <3>2. /\ IsFiniteSet(Admitted(g) \cup {c})
            /\ Cardinality(Admitted(g) \cup {c}) = IF c \in Admitted(g) THEN m ELSE m + 1
        BY <2>3, FS_AddElement
      <3>3. Cardinality(Admitted(g)') <= Cardinality(Admitted(g) \cup {c})
        BY <3>1, <3>2, FS_Subset
      <3>4. Cardinality(Admitted(g) \cup {c}) \in Nat /\ Cardinality(Admitted(g)') \in Nat
        BY <3>2, FS_CardinalityType, AdmittedFinite
      <3> HIDE DEF m, opens
      <3>5. Cardinality(Admitted(g)') <= m + 1
        BY <2>3, <3>2, <3>3, <3>4
      <3> QED
        BY <2>4, <3>5 DEF m
    <2>5. CASE ~opens(g)
      <3>1. Admitted(g)' \subseteq Admitted(g)
        BY <2>1, <2>2, <2>5
      <3>2. Cardinality(Admitted(g)') <= m
        BY <2>3, <3>1, FS_Subset
      <3> HIDE DEF opens
      <3> QED
        BY <2>3, <2>5, <3>2
    <2> HIDE DEF opens
    <2> QED
      BY <2>4, <2>5
  <1> HIDE DEF opens
  <1>4. ASSUME NEW p \in Places
        PROVE  windows'[p] + Cardinality(Admitted(p[1])') <= admitted'[p[1]]
    <2> DEFINE n == Cardinality(Admitted(p[1])')
               m == Cardinality(Admitted(p[1]))
               w == windows[p]
               k == admitted[p[1]]
               one == IF opens(p[1]) THEN 1 ELSE 0
    <2>1. p[1] \in Groups
      BY DEF Places
    <2>2. n <= m + one /\ n \in Nat /\ m \in Nat
      BY <1>3, <2>1, AdmittedFinite
    <2>3. w \in Nat /\ k \in Nat /\ w + m <= k
      BY <2>1, AppTypeParts DEF ChatInv, LinkTypes, Counted
    <2>4. one \in Nat
      OBVIOUS
    <2>5. admitted'[p[1]] = k + one
      BY <1>1, <2>1, <2>3
    <2> HIDE DEF n, m, w, k, one
    <2>6. w + n <= k + one
      BY <2>2, <2>3, <2>4
    <2> QED
      BY <1>1, <2>5, <2>6 DEF n, w
  <1> QED
    BY <1>2, <1>4 DEF Counted

\* A request is handled and its answer sent to the client, if it still runs.
LEMMA AnswerKeeps ==
  ASSUME ChatInv, NEW c \in Clients, Answer(c)
  PROVE  ChatInv'
  <1>1. /\ LinkTypes /\ QueueOK /\ LinkOK(c) /\ request[c]
        /\ request' = [request EXCEPT ![c] = FALSE]
        /\ UNCHANGED <<up, sock, backlog, peer>>
        /\ inbox' = [inbox EXCEPT ![c] = IF ui[c] = "off" THEN @ ELSE Append(@, answer')]
        /\ UNCHANGED <<lost, ui, me, asked, windows>>
    BY DEF ChatInv, Answer, Service!Serve
  <1>2. asked[c] \in Asks /\ inbox[c] = << >> /\ (ui[c] # "off" => ui[c] = "recv")
    BY <1>1 DEF LinkOK
  <1>3. PICK q \in Asks : q = asked[c]
    BY <1>2
  <1>4. Answered(q)
    <2>1. Handle(PackRequest(q))
      BY <1>3 DEF Answer
    <2> QED
      BY <2>1, HandleAnswered DEF ChatInv
  <1>5. AppInv' /\ Grown /\ answer' \in AnswerRecords /\ AnswerFits(q, answer)'
    BY <1>4 DEF Answered
  <1>6. /\ inbox'[c] = IF ui[c] = "off" THEN << >> ELSE <<answer'>>
        /\ \A d \in Clients : d # c => inbox'[d] = inbox[d]
        /\ inbox' \in [Clients -> Seq(AnswerRecords)]
    <2>1. Append(<< >>, answer') = <<answer'>> /\ <<answer'>> \in Seq(AnswerRecords)
      BY <1>5
    <2> DEFINE new == IF ui[c] = "off" THEN << >> ELSE <<answer'>>
    <2>2. inbox' = [inbox EXCEPT ![c] = new]
      BY <1>1, <1>2, <2>1
    <2>3. new \in Seq(AnswerRecords)
      BY <2>1, EmptySeq
    <2>4. inbox \in [Clients -> Seq(AnswerRecords)]
      BY <1>1 DEF LinkTypes
    <2> HIDE DEF new
    <2>5. /\ inbox'[c] = new /\ \A d \in Clients : d # c => inbox'[d] = inbox[d]
          /\ inbox' \in [Clients -> Seq(AnswerRecords)]
      BY <2>2, <2>3, <2>4
    <2> QED
      BY <2>5 DEF new
  <1>7. LinkTypes'
    BY <1>1, <1>6 DEF LinkTypes
  <1>8. LinkOK(c)'
    <2>1. Len(<<answer'>>) = 1
      OBVIOUS
    <2>2. request'[c] = FALSE
      BY <1>1 DEF LinkTypes
    <2>3. inbox'[c] # << >> => ui[c] = "recv" /\ Len(inbox'[c]) = 1
      BY <1>2, <1>6, <2>1
    <2>4. ui[c] = "off" => inbox'[c] = << >>
      BY <1>6
    <2> QED
      BY <1>1, <1>2, <2>2, <2>3, <2>4 DEF LinkOK
  <1>9. \A d \in Clients : d # c => Untouched(d)
    BY <1>1, <1>6 DEF Untouched, LinkTypes
  <1>10. Fits'
    <2> SUFFICES ASSUME NEW d \in Clients, inbox'[d] # << >>
                 PROVE  AnswerFits(asked[d], inbox[d][1])'
      BY DEF Fits
    <2>1. CASE d = c
      <3>1. inbox'[c] = <<answer'>>
        BY <1>6, <2>1
      <3>2. asked'[d] = q /\ inbox'[d][1] = answer'
        BY <1>1, <1>3, <2>1, <3>1
      <3> QED
        BY <1>5, <3>2 DEF AnswerFits
    <2>2. CASE d # c
      BY <1>1, <1>5, <1>6, <2>2, FitsKept, InboxAsked DEF ChatInv
    <2> QED
      BY <2>1, <2>2
  <1>11. WindowsTold' /\ Counted'
    BY <1>1, <1>2, <1>3, <1>4, <1>6, AnswerCounted
  <1> QED
    BY <1>1, <1>5, <1>7, <1>8, <1>9, <1>10, <1>11, QueueKept, LinkKept DEF ChatInv

\* The oldest connection leaves the kernel's queue.
LEMMA AcceptKeeps ==
  ASSUME ChatInv, Accept
  PROVE  ChatInv'
  <1> DEFINE h == Head(backlog)
  <1>1. /\ LinkTypes /\ QueueOK /\ up /\ backlog # << >>
        /\ sock' = [sock EXCEPT ![h] = "open"] /\ backlog' = Tail(backlog)
        /\ UNCHANGED <<up, request, peer>>
        /\ UNCHANGED <<appVars, inbox, lost, ui, me, asked, windows>>
    BY DEF ChatInv, Accept, Service!Accept, client
  <1>2. /\ backlog \in Seq(Clients) /\ h \in Clients /\ backlog' \in Seq(Clients)
        /\ Len(backlog) \in Nat \ {0} /\ Len(backlog') = Len(backlog) - 1
        /\ DOMAIN backlog = 1 .. Len(backlog) /\ DOMAIN backlog' = 1 .. Len(backlog')
        /\ \A i \in 1 .. Len(backlog') : backlog'[i] = backlog[i + 1]
        /\ h = backlog[1]
    BY <1>1, HeadTailProperties, EmptySeq, LenProperties DEF LinkTypes
  <1> DEFINE n == Len(backlog)
  <1> HIDE DEF h
  <1>3. LinkTypes'
    BY <1>1, <1>2 DEF LinkTypes
  <1>4. \A d \in Clients : sock'[d] = IF d = h THEN "open" ELSE sock[d]
    BY <1>1, <1>2 DEF LinkTypes
  <1>5. sock[h] = "backlog"
    BY <1>1, <1>2 DEF QueueOK
  <1>6. ASSUME NEW d \in Clients PROVE LinkOK(d)'
    <2>1. LinkOK(d) /\ (sock'[d] = "closed" <=> sock[d] = "closed")
      BY <1>4, <1>5 DEF ChatInv
    <2> QED
      BY <1>1, <2>1 DEF LinkOK
  <1>7. QueueOK'
    <2>1. n \in Nat \ {0} /\ DOMAIN backlog = 1 .. n /\ DOMAIN backlog' = 1 .. n - 1
          /\ \A i \in 1 .. n - 1 : backlog'[i] = backlog[i + 1]
      BY <1>2
    <2> HIDE DEF n
    <2>2. \A i, j \in DOMAIN backlog' : backlog'[i] = backlog'[j] => i = j
      <3> SUFFICES ASSUME NEW i \in 1 .. n - 1, NEW j \in 1 .. n - 1, backlog'[i] = backlog'[j]
                   PROVE  i = j
        BY <2>1
      <3>1. i + 1 \in DOMAIN backlog /\ j + 1 \in DOMAIN backlog
        BY <2>1
      <3>2. backlog[i + 1] = backlog[j + 1]
        BY <2>1
      <3>3. i + 1 = j + 1
        BY <1>1, <3>1, <3>2 DEF QueueOK
      <3> QED
        BY <3>3
    <2>3. \A i \in DOMAIN backlog' : sock'[backlog'[i]] = "backlog"
      <3> SUFFICES ASSUME NEW i \in 1 .. n - 1 PROVE sock'[backlog'[i]] = "backlog"
        BY <2>1
      <3>1. i + 1 \in DOMAIN backlog /\ 1 \in DOMAIN backlog /\ i + 1 # 1
        BY <2>1
      <3>2. backlog'[i] = backlog[i + 1] /\ backlog[i + 1] # h /\ backlog[i + 1] \in Clients
        BY <1>1, <1>2, <2>1, <3>1, ElementOfSeq DEF QueueOK
      <3>3. sock[backlog[i + 1]] = "backlog"
        BY <1>1, <3>1 DEF QueueOK
      <3> QED
        BY <1>4, <3>2, <3>3
    <2> QED
      BY <1>1, <2>2, <2>3 DEF QueueOK
  <1>8. \A d \in Clients : Quiet(d)
    BY <1>1 DEF Quiet
  <1> QED
    BY <1>1, <1>3, <1>6, <1>7, <1>8, QuietStep DEF ChatInv

\* What a closing by the server leaves of the connections in S.
LEMMA ClosedTypes ==
  ASSUME LinkTypes, NEW S \in SUBSET Clients, Service!Close(S)
  PROVE  /\ sock' \in [Clients -> {"closed", "backlog", "open"}]
         /\ request' \in [Clients -> BOOLEAN]
         /\ peer' \in [Clients -> {"up", "fin", "rst"}]
         /\ \A d \in Clients :
              IF d \in S THEN sock'[d] = "closed" /\ ~request'[d] /\ peer'[d] = "up"
              ELSE sock'[d] = sock[d] /\ request'[d] = request[d] /\ peer'[d] = peer[d]
  BY DEF LinkTypes, Service!Close

\* The queue is untouched when only accepted connections are closed.
LEMMA QueueNotClosed ==
  ASSUME LinkTypes, QueueOK, NEW S \in SUBSET Clients, Service!Close(S), UNCHANGED <<up, backlog>>,
         up, \A d \in S : sock[d] = "open"
  PROVE  QueueOK'
  <1>1. \A d \in Clients : sock[d] = "backlog" => sock'[d] = "backlog"
    BY ClosedTypes
  <1>2. \A i \in DOMAIN backlog : backlog[i] \in Clients
    BY ElementOfSeq, LenProperties DEF LinkTypes
  <1> QED
    BY <1>1, <1>2 DEF QueueOK

\* The server drops the connection of a client that has ended.
LEMMA DropKeeps ==
  ASSUME ChatInv, NEW c \in Clients, Drop(c)
  PROVE  ChatInv'
  <1>1. /\ LinkTypes /\ QueueOK /\ LinkOK(c) /\ up
        /\ sock[c] = "open" /\ peer[c] # "up" /\ Service!Close({c})
        /\ UNCHANGED <<up, backlog>>
        /\ UNCHANGED <<appVars, inbox, lost, ui, me, asked, windows>>
    BY DEF ChatInv, Drop, Service!Gone, client
  <1>2. ui[c] = "off" /\ inbox[c] = << >> /\ lost[c] = "no"
    BY <1>1 DEF LinkOK
  <1>3. LinkTypes'
    BY <1>1, ClosedTypes DEF LinkTypes
  <1>4. QueueOK'
    BY <1>1, QueueNotClosed
  <1>5. LinkOK(c)'
    <2>1. sock'[c] = "closed" /\ ~request'[c] /\ peer'[c] = "up"
      BY <1>1, ClosedTypes
    <2> QED
      BY <1>1, <1>2, <2>1 DEF LinkOK
  <1>6. \A d \in Clients : d # c => Untouched(d)
    BY <1>1, ClosedTypes DEF Untouched
  <1>7. \A d \in Clients : Quiet(d)
    BY <1>1 DEF Quiet
  <1> QED
    BY <1>1, <1>3, <1>4, <1>5, <1>6, <1>7, LinkKept, QuietStep DEF ChatInv

\* Clients whose connection the server closed take note of it, one by one.
LEMMA ClosedKeeps ==
  ASSUME ChatInv, NEW S \in SUBSET Clients, Service!Close(S),
         NEW T \in SUBSET S, \A d \in S \ T : sock[d] = "closed",
         Lose(T), UNCHANGED <<appVars, inbox, ui, me, asked, windows>>,
         up' \in BOOLEAN, backlog' \in Seq(Clients), QueueOK'
  PROVE  ChatInv'
  <1>1. LinkTypes
    BY DEF ChatInv
  <1>2. \A d \in Clients :
          /\ d \in T /\ ui[d] # "off" => lost'[d] \in {"fin", "reset", "dead"}
          /\ d \notin T \/ ui[d] = "off" => lost'[d] = lost[d]
    BY DEF Lose
  <1>3. lost' \in [Clients -> {"no", "fin", "reset", "dead"}]
    BY <1>1 DEF Lose, LinkTypes
  <1>4. LinkTypes'
    BY <1>1, <1>3, ClosedTypes DEF LinkTypes
  <1>5. ASSUME NEW d \in Clients PROVE LinkOK(d)'
    <2>1. CASE d \in S
      <3>1. sock'[d] = "closed" /\ ~request'[d] /\ peer'[d] = "up"
        BY <1>1, <2>1, ClosedTypes
      <3>2. LinkOK(d)
        BY DEF ChatInv
      <3>3. ui[d] # "off" => lost'[d] # "no"
        BY <1>2, <2>1, <3>2 DEF LinkOK
      <3>4. ui[d] = "off" => lost'[d] = "no"
        BY <1>2, <3>2 DEF LinkOK
      <3> QED
        BY <3>1, <3>2, <3>3, <3>4 DEF LinkOK
    <2>2. CASE d \notin S
      BY <1>1, <1>2, <2>2, ClosedTypes, LinkKept DEF Untouched, ChatInv
    <2> QED
      BY <2>1, <2>2
  <1>6. \A d \in Clients : Quiet(d)
    BY DEF Quiet
  <1> QED
    BY <1>4, <1>5, <1>6, QuietStep DEF ChatInv

LEMMA ExpireKeeps ==
  ASSUME ChatInv, Expire
  PROVE  ChatInv'
  <1>1. PICK S \in SUBSET Clients : Service!Expire(S) /\ Close(S)
    BY DEF Expire
  <1>2. /\ LinkTypes /\ QueueOK /\ up /\ Service!Close(S) /\ UNCHANGED <<up, backlog>>
        /\ \A d \in S : sock[d] = "open"
        /\ Lose(S) /\ UNCHANGED <<appVars, inbox, ui, me, asked, windows>>
    BY <1>1 DEF ChatInv, Service!Expire, Service!Open, Close
  <1>3. QueueOK'
    BY <1>2, QueueNotClosed
  <1>4. up' \in BOOLEAN /\ backlog' \in Seq(Clients)
    BY <1>2 DEF LinkTypes
  <1> QED
    BY <1>2, <1>3, <1>4, ClosedKeeps

\* The server ends, with every connection it had.
LEMMA DownKeeps ==
  ASSUME ChatInv, Down
  PROVE  ChatInv'
  <1>1. PICK T \in SUBSET Clients : T = {d \in Clients : sock[d] # "closed"}
    OBVIOUS
  <1>2. /\ LinkTypes /\ Service!Close(Clients) /\ up' = FALSE /\ backlog' = << >>
        /\ Lose(T) /\ UNCHANGED <<appVars, inbox, ui, me, asked, windows>>
    BY <1>1 DEF ChatInv, Down, Service!Down, Close
  <1>3. QueueOK'
    BY <1>2, ClosedTypes DEF QueueOK
  <1>4. up' \in BOOLEAN /\ backlog' \in Seq(Clients)
    BY <1>2, EmptySeq
  <1> QED
    BY <1>1, <1>2, <1>3, <1>4, ClosedKeeps
-----------------------------------------------------------------------------
\* All is in order while no process runs and the server has just started.
LEMMA InitChatInv == ChatInit => ChatInv
  <1> SUFFICES ASSUME ChatInit PROVE ChatInv
    OBVIOUS
  <1>1. /\ up = TRUE /\ sock = [c \in Clients |-> "closed"] /\ backlog = << >>
        /\ request = [c \in Clients |-> FALSE] /\ peer = [c \in Clients |-> "up"]
        /\ inbox = [c \in Clients |-> << >>] /\ lost = [c \in Clients |-> "no"]
        /\ ui = [c \in Clients |-> "off"] /\ me = [c \in Clients |-> NULL]
        /\ asked = [c \in Clients |-> NULL] /\ windows = [p \in Places |-> 0]
    BY DEF ChatInit, Service!Init
  <1>2. AppInv
    BY InitAppInv DEF ChatInit
  <1>3. LinkTypes
    BY <1>1, EmptySeq DEF LinkTypes
  <1>4. QueueOK
    BY <1>1 DEF QueueOK
  <1>5. \A c \in Clients : LinkOK(c)
    BY <1>1 DEF LinkOK
  <1>6. Fits /\ WindowsTold
    BY <1>1 DEF Fits, WindowsTold
  <1>7. Counted
    <2> SUFFICES ASSUME NEW p \in Places
                 PROVE  windows[p] + Cardinality(Admitted(p[1])) <= admitted[p[1]]
      BY DEF Counted
    <2>1. Admitted(p[1]) = {}
      BY <1>1 DEF Admitted
    <2>2. Cardinality(Admitted(p[1])) = 0
      BY <2>1, FS_EmptySet
    <2>3. admitted[p[1]] \in Nat
      BY <1>2, AppTypeParts DEF Places
    <2> QED
      BY <1>1, <2>2, <2>3
  <1> QED
    BY <1>2, <1>3, <1>4, <1>5, <1>6, <1>7 DEF ChatInv

\* A stutter of the whole program.
LEMMA UnchangedKeeps ==
  ASSUME ChatInv, UNCHANGED chatVars
  PROVE  ChatInv'
  <1>1. /\ UNCHANGED <<up, sock, backlog, request, peer>>
        /\ UNCHANGED <<appVars, inbox, lost, ui, me, asked, windows>>
    BY DEF chatVars, service, client
  <1>2. LinkTypes' /\ QueueOK'
    BY <1>1, QueueKept DEF ChatInv, LinkTypes
  <1>3. \A d \in Clients : Untouched(d) /\ Quiet(d)
    BY <1>1 DEF Untouched, Quiet
  <1> QED
    BY <1>1, <1>2, <1>3, LinkKept, QuietStep DEF ChatInv

\* Every step of a client, of the kernel or of the server keeps the invariant.
LEMMA StepChatInv == ChatInv /\ [ChatNext]_chatVars => ChatInv'
  <1> SUFFICES ASSUME ChatInv, [ChatNext]_chatVars PROVE ChatInv'
    OBVIOUS
  <1>1. CASE UNCHANGED chatVars
    BY <1>1, UnchangedKeeps
  <1>2. CASE Accept \/ Expire \/ Down
    BY <1>2, AcceptKeeps, ExpireKeeps, DownKeeps
  <1>3. ASSUME NEW c \in Clients,
               \/ Start(c) \/ Quit(c) \/ SkipLogin(c) \/ Ask(c) \/ AskFails(c) \/ Killed(c)
               \/ Recive_From_Server(c) \/ Answer(c) \/ Drop(c)
        PROVE  ChatInv'
    BY <1>3, StartKeeps, QuitKeeps, SkipLoginKeeps, AskKeeps, AskFailsKeeps, KilledKeeps,
       ReciveKeeps, AnswerKeeps, DropKeeps
  <1> QED
    BY <1>1, <1>2, <1>3 DEF ChatNext

\* The invariant holds whatever processes and the server do.
THEOREM ChatKeepsInv == ChatSpec => []ChatInv
  BY InitChatInv, StepChatInv, PTL DEF ChatSpec
-----------------------------------------------------------------------------
\* The entry of a group is in its chain, and says what was told and counted.
LEMMA EntryOf ==
  ASSUME ChatInv, NEW g \in Groups
  PROVE  /\ \A ip : <<g, ip>> \in told =>
              \E e \in Range(GroupChain(g)) : e.m_groupName = g /\ e.m_ip_add_group = ip
         /\ admitted[g] \in 0 .. MaxPartic
         /\ admitted[g] > 0 =>
              \E e \in Range(GroupChain(g)) : e.m_groupName = g /\ e.m_numOfPartic = admitted[g]
  <1> DEFINE chain == m_groupNames[GroupBucket[g]]
  <1>1. chain \in Seq(GroupValues) /\ admitted[g] \in 0 .. MaxPartic
    BY AppTypeParts, BucketAssumption DEF ChatInv
  <1>2. chain # << >> => Head(chain) \in Range(chain)
    <2> SUFFICES ASSUME chain # << >> PROVE Head(chain) \in Range(chain)
      OBVIOUS
    <2>1. Len(chain) \in Nat \ {0} /\ DOMAIN chain = 1 .. Len(chain) /\ Head(chain) = chain[1]
      BY <1>1, EmptySeq, LenProperties
    <2>2. 1 \in DOMAIN chain
      BY <2>1
    <2> QED
      BY <2>1, <2>2 DEF Range
  <1>3. \A ip : <<g, ip>> \in told =>
          chain # << >> /\ Head(chain).m_groupName = g /\ Head(chain).m_ip_add_group = ip
    BY DEF ChatInv, AppInv, ToldStored
  <1>4. admitted[g] > 0 =>
          chain # << >> /\ Head(chain).m_groupName = g /\ Head(chain).m_numOfPartic = admitted[g]
    BY DEF ChatInv, AppInv, AdmittedCounted
  <1> QED
    BY <1>1, <1>2, <1>3, <1>4 DEF GroupChain

\* The processes, their connections and the kernel's queue keep their types,
\* and no group has more windows than it can have participants.
THEOREM ChatTypeCorrect == ChatSpec => []ChatTypeOK
  <1>1. ChatInv => ChatTypeOK
    <2> SUFFICES ASSUME ChatInv PROVE ChatTypeOK
      OBVIOUS
    <2>1. windows \in [Places -> Nat]
      BY DEF ChatInv, LinkTypes
    <2>2. ASSUME NEW p \in Places PROVE windows[p] \in 0 .. MaxPartic
      <3>1. p[1] \in Groups
        BY DEF Places
      <3>2. /\ windows[p] + Cardinality(Admitted(p[1])) <= admitted[p[1]]
            /\ windows[p] \in Nat /\ Cardinality(Admitted(p[1])) \in Nat
            /\ admitted[p[1]] \in 0 .. MaxPartic
        BY <2>1, <3>1, AdmittedFinite, EntryOf DEF ChatInv, Counted
      <3> QED
        BY <3>2, ParticAssumption
    <2>3. windows \in [Places -> 0 .. MaxPartic]
      BY <2>1, <2>2
    <2> QED
      BY <2>3 DEF ChatInv, AppInv, LinkTypes, ChatTypeOK, AnswerRecords
  <1> QED
    BY <1>1, ChatKeepsInv, PTL

\* A client holds one answer at most, to the question it asked last
\* (Recive_From_Server after Send_To_Server).
THEOREM OneAnswerToEach == ChatSpec => []AnswerToTheQuestion
  <1>1. ChatInv => AnswerToTheQuestion
    <2> SUFFICES ASSUME ChatInv, NEW c \in Clients, inbox[c] # << >>
                 PROVE  /\ ui[c] = "recv" /\ Len(inbox[c]) = 1
                        /\ <<asked[c].m_type, inbox[c][1].m_type>> \in
                             {<<"REGISTER_REQ", "REGISTER_ANS">>, <<"LOGIN_REQ", "LOGIN_ANS">>,
                              <<"CREATE_GROUP_CONVERSATION_REQ", "CREATE_GROUP_CONVERSATION_ANS">>,
                              <<"JOIN_CONVERSATION_REQ", "JOIN_CONVERSATION_ANS">>,
                              <<"LEAVE_CONVERSATION_REQ", "LEAVE_CONVERSATION_ANS">>}
      BY DEF AnswerToTheQuestion
    <2>1. AnswerFits(asked[c], inbox[c][1])
      BY DEF ChatInv, Fits
    <2> QED
      BY <2>1, InboxAsked DEF AnswerFits
  <1> QED
    BY <1>1, ChatKeepsInv, PTL

\* Every window that a client opened on an answer is on the address its
\* group's entry has (Create_New_Group, Join_To_Group).
THEOREM WindowsOnAddress == ChatSpec => []WindowOnGroupAddress
  <1>1. ChatInv => WindowOnGroupAddress
    <2> SUFFICES ASSUME ChatInv, NEW p \in Places, windows[p] > 0
                 PROVE  \E e \in Range(GroupChain(p[1])) :
                          e.m_groupName = p[1] /\ e.m_ip_add_group = p[2]
      BY DEF WindowOnGroupAddress
    <2>1. p \in told /\ p[1] \in Groups /\ p = <<p[1], p[2]>>
      BY DEF ChatInv, WindowsTold, Places
    <2> QED
      BY <2>1, EntryOf
  <1> QED
    BY <1>1, ChatKeepsInv, PTL

\* The participants the server counts cover the windows open and still to be
\* opened (m_numOfPartic).
THEOREM WindowsAreCounted == ChatSpec => []ParticipantsCoverWindows
  <1>1. ChatInv => ParticipantsCoverWindows
    <2> SUFFICES ASSUME ChatInv, NEW p \in Places,
                        windows[p] + Cardinality(Admitted(p[1])) > 0
                 PROVE  \E e \in Range(GroupChain(p[1])) :
                          /\ e.m_groupName = p[1]
                          /\ windows[p] + Cardinality(Admitted(p[1])) <= e.m_numOfPartic
      BY DEF ParticipantsCoverWindows
    <2>1. p[1] \in Groups
      BY DEF Places
    <2> DEFINE open == windows[p] + Cardinality(Admitted(p[1]))
    <2>2. open <= admitted[p[1]] /\ open > 0 /\ open \in Nat /\ admitted[p[1]] \in Nat
      BY <2>1, AdmittedFinite, EntryOf DEF ChatInv, Counted, LinkTypes
    <2> HIDE DEF open
    <2>3. admitted[p[1]] > 0
      BY <2>2
    <2>4. PICK e \in Range(GroupChain(p[1])) :
            e.m_groupName = p[1] /\ e.m_numOfPartic = admitted[p[1]]
      BY <2>1, <2>3, EntryOf
    <2>5. open <= e.m_numOfPartic
      BY <2>2, <2>4
    <2> QED
      BY <2>4, <2>5 DEF open
  <1> QED
    BY <1>1, ChatKeepsInv, PTL

\* A success that answers a registration or a creation was recorded
\* (IsUserNameUnique, Check_Group_Name_And_Insert).
THEOREM SuccessesRecorded == ChatSpec => []SuccessIsRecorded
  <1>1. ChatInv => SuccessIsRecorded
    <2> SUFFICES ASSUME ChatInv, NEW c \in Clients, inbox[c] # << >>
                 PROVE  LET body == asked[c].m_body IN
                        /\ Reports(c, "REGISTER_REQ", "CLIENT_SUCCESS")
                             => <<body.m_userName, body.m_password>> \in registered
                        /\ Reports(c, "CREATE_GROUP_CONVERSATION_REQ", "CLIENT_SUCCESS")
                             => \E e \in Range(GroupChain(body.m_groupName)) :
                                  e.m_groupName = body.m_groupName
      BY DEF SuccessIsRecorded
    <2> DEFINE body == asked[c].m_body
               code == AnswerRead(inbox[c][1])
    <2>1. AnswerFits(asked[c], inbox[c][1]) /\ asked[c] \in Asks /\ Code(c) = code
      BY InboxAsked DEF ChatInv, Fits, Code
    <2>2. ASSUME Reports(c, "REGISTER_REQ", "CLIENT_SUCCESS")
          PROVE  <<body.m_userName, body.m_password>> \in registered
      <3>1. asked[c].m_type = "REGISTER_REQ" /\ code = REGISTER_SUCCESS
        BY <2>1, <2>2 DEF Reports, Report, ReadAs, User_Register
      <3> QED
        BY <2>1, <3>1 DEF AnswerFits, REGISTER_SUCCESS, REGISTER_USER_NAME_ALLREADY_EXIST
    <2>3. ASSUME Reports(c, "CREATE_GROUP_CONVERSATION_REQ", "CLIENT_SUCCESS")
          PROVE  \E e \in Range(GroupChain(body.m_groupName)) : e.m_groupName = body.m_groupName
      <3>1. /\ asked[c].m_type = "CREATE_GROUP_CONVERSATION_REQ"
            /\ code # GROUP_NAME_ALREADY_EXIST
        BY <2>1, <2>3 DEF Reports, Report, ReadAs, Create_New_Group
      <3>2. <<body.m_groupName, inbox[c][1].m_groupIP>> \in told
        BY <2>1, <3>1 DEF AnswerFits
      <3>3. body.m_groupName \in Groups
        BY <3>2, AppTypeParts DEF ChatInv
      <3> QED
        BY <3>2, <3>3, EntryOf
    <2> QED
      BY <2>2, <2>3
  <1> QED
    BY <1>1, ChatKeepsInv, PTL

\* A name reported as taken has an entry in its bucket, whatever became of the
\* connection (User_Register, Create_New_Group).
THEOREM RefusalsCaused == ChatSpec => []RefusalsHaveCause
  <1>1. ChatInv => RefusalsHaveCause
    <2> SUFFICES ASSUME ChatInv, NEW c \in Clients
                 PROVE  LET body == asked[c].m_body IN
                        /\ Reports(c, "REGISTER_REQ", "CLIENT_FAIL")
                             => UserChain(body.m_userName) # << >>
                        /\ Reports(c, "CREATE_GROUP_CONVERSATION_REQ", "CLIENT_FAIL_GROUP_CREATE")
                             => GroupChain(body.m_groupName) # << >>
      BY DEF RefusalsHaveCause
    <2> DEFINE body == asked[c].m_body
               code == AnswerRead(inbox[c][1])
    <2>1. Code(c) # 0 => /\ AnswerFits(asked[c], inbox[c][1]) /\ Code(c) = code
      BY InboxAsked DEF ChatInv, Fits, Code
    <2>2. ASSUME Reports(c, "REGISTER_REQ", "CLIENT_FAIL")
          PROVE  UserChain(body.m_userName) # << >>
      <3>1. asked[c].m_type = "REGISTER_REQ" /\ Code(c) # REGISTER_SUCCESS
        BY <2>2 DEF Reports, Report, ReadAs, User_Register
      <3> QED
        BY <2>1, <3>1 DEF AnswerFits, REGISTER_SUCCESS
    <2>3. ASSUME Reports(c, "CREATE_GROUP_CONVERSATION_REQ", "CLIENT_FAIL_GROUP_CREATE")
          PROVE  GroupChain(body.m_groupName) # << >>
      <3>1. /\ asked[c].m_type = "CREATE_GROUP_CONVERSATION_REQ"
            /\ Code(c) = GROUP_NAME_ALREADY_EXIST
        BY <2>3 DEF Reports, Report, ReadAs, Create_New_Group
      <3> QED
        BY <2>1, <3>1 DEF AnswerFits, GROUP_NAME_ALREADY_EXIST, GROUP_SUCCESSFULLY_INSERT
    <2> QED
      BY <2>2, <2>3
  <1> QED
    BY <1>1, ChatKeepsInv, PTL
=============================================================================
