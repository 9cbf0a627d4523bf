------------------------------ MODULE DataBase ------------------------------
(***************************************************************************)
(* The server's registry of users and groups, ServerDB/DataBase.c, on top  *)
(* of the hash map and the address pool.                                   *)
(*                                                                         *)
(* A map entry does not own its key: HashMap_Insert keeps the pointer it   *)
(* is given, which is a field of the request in the server's one receive   *)
(* buffer.  While a request is handled, a stored key therefore reads what  *)
(* that request has at the key's offset (KeyText below), whoever inserted  *)
(* the entry.  Names matter only by identity and by the bucket they hash   *)
(* to.  Memory allocation is assumed to succeed.                           *)
(***************************************************************************)
EXTENDS IPPool, Integers, FiniteSets

CONSTANTS Users, Passwords, Groups,
          Buckets,       \* 0 .. m_allocSize - 1 of the two server maps
          UserBucket,    \* the bucket of a user name
          GroupBucket,   \* the bucket of a group name
          MaxPartic      \* bound on m_numOfPartic, which the code lets grow

ASSUME BucketAssumption ==
  /\ IsFiniteSet(Buckets) /\ Cardinality(Buckets) < SizeT
  /\ UserBucket \in [Users -> Buckets]
  /\ GroupBucket \in [Groups -> Buckets]

ASSUME NameAssumption == NULL \notin Users /\ NULL \notin Groups /\ NULL \notin IPAddrs

ASSUME ParticAssumption == MaxPartic \in Nat \ {0}

VARIABLES m_userNames,    \* bucket -> chain of user entries
          m_groupNames,   \* bucket -> chain of group entries
          m_addIPPool,    \* the pool of multicast addresses
          dbRes           \* the last call's DB_Err and the address it gave

dbVars == <<m_userNames, m_groupNames, m_addIPPool, dbRes>>

(***************************************************************************)
(* Requests, as they lie in the receive buffer.                            *)
(***************************************************************************)
UserMsgs  == [m_userName : Users, m_password : Passwords]
GroupMsgs == [m_groupName : Groups, m_userName : Users]

\* The text a stored key shows while msg is in the buffer.  The keys of
\* m_userNames point at offset 18 and those of m_groupNames at offset 1.  A
\* group request has its own user name at offset 19: the text at offset 18
\* starts with the byte before it and is no user's name.
UserKeyText(msg) ==
  IF "m_password" \in DOMAIN msg THEN msg.m_userName ELSE NULL
GroupKeyText(msg) == msg.m_groupName

(***************************************************************************)
(* HashMap_Find and HashMap_Insert of GenericHash.c on one chain.  All the *)
(* keys of a chain read the same text, so a search that finds anything     *)
(* finds the entry at the head.                                            *)
(***************************************************************************)
\* Defect: the search compares nothing and misses every entry.
DefectFindMisses(chain, keyText, name) == FALSE

Found(chain, keyText, name) == chain # << >> /\ keyText = name

HashMap_Insert(chain, keyText, name, value) ==
  IF Found(chain, keyText, name) THEN chain ELSE <<value>> \o chain

UserChain(u)  == m_userNames[UserBucket[u]]
GroupChain(g) == m_groupNames[GroupBucket[g]]

FindUser(msg)  == Found(UserChain(msg.m_userName), UserKeyText(msg), msg.m_userName)
FindGroup(msg) == Found(GroupChain(msg.m_groupName), GroupKeyText(msg), msg.m_groupName)

FoundUser(msg)  == Head(UserChain(msg.m_userName))
FoundGroup(msg) == Head(GroupChain(msg.m_groupName))

Return(err, ip) == dbRes' = [err |-> err, ipAddr |-> ip]

(***************************************************************************)
(* Users.                                                                  *)
(***************************************************************************)
CreateMainDataBase ==
  /\ m_userNames = [b \in Buckets |-> << >>]
  /\ m_groupNames = [b \in Buckets |-> << >>]
  /\ m_addIPPool = CreateIP_Multecaste
  /\ dbRes = [err |-> "DB_SUCCESS", ipAddr |-> NULL]

\* With status CONNECT the value is allocated and dropped.
InsertUserToList(msg, status) ==
  m_userNames' =
    IF status # "DISCONNECT" THEN m_userNames
    ELSE [m_userNames EXCEPT ![UserBucket[msg.m_userName]] =
            HashMap_Insert(@, UserKeyText(msg), msg.m_userName,
              [m_status |-> status, m_psw |-> msg.m_password, m_myGroups |-> {}])]

\* Defect: the details are stored before the name is looked up.
DefectStoreBeforeFind(msg) ==
  /\ m_userNames' = [m_userNames EXCEPT ![UserBucket[msg.m_userName]] =
       <<[m_status |-> "DISCONNECT", m_psw |-> msg.m_password, m_myGroups |-> {}]>>]
  /\ Return(IF FindUser(msg) THEN "ALREADY_EXIST" ELSE "UNIQE", NULL)
  /\ UNCHANGED <<m_groupNames, m_addIPPool>>

IsUserNameUnique(msg) ==
  /\ \/ /\ ~FindUser(msg)
        /\ InsertUserToList(msg, "DISCONNECT")
        /\ Return("UNIQE", NULL)
     \/ /\ FindUser(msg)
        /\ UNCHANGED m_userNames
        /\ Return("ALREADY_EXIST", NULL)
  /\ UNCHANGED <<m_groupNames, m_addIPPool>>

LoginOutcome(msg) ==
  IF ~FindUser(msg) THEN "DB_WORNG_USER_NAME"
  ELSE IF FoundUser(msg).m_status = "CONNECT" THEN "DB_ALREADY_CONNECTED"
  ELSE IF FoundUser(msg).m_psw # msg.m_password THEN "DB_WORNG_PSW"
  ELSE "DB_CONNECT_SUCCESFULLY"

CheckClientStatusAndConnect(msg) ==
  /\ IF LoginOutcome(msg) = "DB_CONNECT_SUCCESFULLY"
     THEN InsertUserToList(msg, "CONNECT")
     ELSE UNCHANGED m_userNames
  /\ Return(LoginOutcome(msg), NULL)
  /\ UNCHANGED <<m_groupNames, m_addIPPool>>

(***************************************************************************)
(* Groups.                                                                 *)
(***************************************************************************)
Update_Group_Details_For_User(msg) ==
  m_userNames' =
    IF ~FindUser(msg) THEN m_userNames
    ELSE [m_userNames EXCEPT ![UserBucket[msg.m_userName]][1].m_myGroups =
            @ \cup {msg.m_groupName}]

\* The address is taken whatever GetIPAddress answers.
NewGroup(msg) ==
  [m_numOfPartic |-> 1, m_groupName |-> msg.m_groupName,
   m_ip_add_group |-> GetIPAddress(m_addIPPool).ipAddr]

\* Defect: the address is taken before the name is looked up.
DefectTakeAddressFirst(msg) ==
  /\ m_addIPPool' = GetIPAddress(m_addIPPool).pool
  /\ \/ /\ FindGroup(msg)
        /\ Return("DB_GROUP_NAME_ALREADY_EXIST", NULL)
        /\ UNCHANGED <<m_userNames, m_groupNames>>
     \/ /\ ~FindGroup(msg)
        /\ m_groupNames' = [m_groupNames EXCEPT ![GroupBucket[msg.m_groupName]] =
             HashMap_Insert(@, GroupKeyText(msg), msg.m_groupName, NewGroup(msg))]
        /\ UNCHANGED m_userNames
        /\ Return("DB_GROUP_SUCCESSFULLY_INSERT", NewGroup(msg).m_ip_add_group)

Check_Group_Name_And_Insert(msg) ==
  \/ /\ FindGroup(msg)
     /\ Return("DB_GROUP_NAME_ALREADY_EXIST", NULL)
     /\ UNCHANGED <<m_userNames, m_groupNames, m_addIPPool>>
  \/ /\ ~FindGroup(msg)
     /\ m_addIPPool' = GetIPAddress(m_addIPPool).pool
     /\ m_groupNames' = [m_groupNames EXCEPT ![GroupBucket[msg.m_groupName]] =
          HashMap_Insert(@, GroupKeyText(msg), msg.m_groupName, NewGroup(msg))]
     /\ Update_Group_Details_For_User(msg)
     /\ Return("DB_GROUP_SUCCESSFULLY_INSERT", NewGroup(msg).m_ip_add_group)

\* Defect: nobody is counted.
DefectCountsNobody(msg, n) == UNCHANGED m_groupNames

AddPartic(msg, n) ==
  m_groupNames' =
    [m_groupNames EXCEPT ![GroupBucket[msg.m_groupName]][1].m_numOfPartic = @ + n]

\* Defect: whoever asks is counted, also under a name that is not the group's.
DefectJoinByBucket(msg) ==
  /\ FindGroup(msg)
  /\ FoundGroup(msg).m_numOfPartic < MaxPartic
  /\ AddPartic(msg, 1)
  /\ Return(IF FoundGroup(msg).m_groupName = msg.m_groupName
            THEN "DB_GROUP_JOIN_SUCCESSFULLY" ELSE "DB_GROUP_SUCCESSFULLY_INSERT",
            FoundGroup(msg).m_ip_add_group)
  /\ UNCHANGED <<m_userNames, m_addIPPool>>

\* A name that finds another group's entry falls through to the last return.
Try_to_Join_To_Group(msg) ==
  /\ \/ /\ ~FindGroup(msg)
        /\ Return("DB_GROUP_NAME_NOT_EXIST", NULL)
        /\ UNCHANGED m_groupNames
     \/ /\ FindGroup(msg)
        /\ FoundGroup(msg).m_groupName = msg.m_groupName
        /\ FoundGroup(msg).m_numOfPartic < MaxPartic
        /\ AddPartic(msg, 1)
        /\ Return("DB_GROUP_JOIN_SUCCESSFULLY", FoundGroup(msg).m_ip_add_group)
     \/ /\ FindGroup(msg)
        /\ FoundGroup(msg).m_groupName # msg.m_groupName
        /\ Return("DB_GROUP_SUCCESSFULLY_INSERT", NULL)
        /\ UNCHANGED m_groupNames
  /\ UNCHANGED <<m_userNames, m_addIPPool>>

\* The user's own group map must hold the name; the participants are counted
\* down only if the group found is the one named.
UserIsInGroup(msg) == FindUser(msg) /\ msg.m_groupName \in FoundUser(msg).m_myGroups
NamedGroupFound(msg) ==
  FindGroup(msg) /\ FoundGroup(msg).m_groupName = msg.m_groupName

Try_to_Leave_To_Group(msg) ==
  /\ IF ~UserIsInGroup(msg)
     THEN /\ Return("DB_GROUP_NAME_NOT_EXIST", NULL)
          /\ UNCHANGED <<m_userNames, m_groupNames>>
     ELSE /\ m_userNames' =
               [m_userNames EXCEPT ![UserBucket[msg.m_userName]][1].m_myGroups =
                  @ \ {msg.m_groupName}]
          /\ IF NamedGroupFound(msg)
             THEN AddPartic(msg, -1)
             ELSE UNCHANGED m_groupNames
          /\ Return("DB_GROUP_REMOVE_SUCCESSFULLY",
               IF NamedGroupFound(msg) THEN FoundGroup(msg).m_ip_add_group ELSE NULL)
  /\ UNCHANGED m_addIPPool

DBNext ==
  \/ \E msg \in UserMsgs : IsUserNameUnique(msg) \/ CheckClientStatusAndConnect(msg)
  \/ \E msg \in GroupMsgs :
       \/ Check_Group_Name_And_Insert(msg)
       \/ Try_to_Join_To_Group(msg)
       \/ Try_to_Leave_To_Group(msg)

DBSpec == CreateMainDataBase /\ [][DBNext]_dbVars
-----------------------------------------------------------------------------
UserValues  == [m_status : {"CONNECT", "DISCONNECT"}, m_psw : Passwords,
                m_myGroups : SUBSET Groups]
GroupValues == [m_numOfPartic : 0 .. MaxPartic, m_groupName : Groups,
                m_ip_add_group : IPAddrs]

DB_Err == {"DB_SUCCESS", "UNIQE", "ALREADY_EXIST", "DB_WORNG_USER_NAME",
           "DB_ALREADY_CONNECTED", "DB_WORNG_PSW", "DB_CONNECT_SUCCESFULLY",
           "DB_GROUP_NAME_ALREADY_EXIST", "DB_GROUP_SUCCESSFULLY_INSERT",
           "DB_GROUP_NAME_NOT_EXIST", "DB_GROUP_JOIN_SUCCESSFULLY",
           "DB_GROUP_REMOVE_SUCCESSFULLY"}

\* Every map entry, the pool and the return value keep their types; a group
\* entry always carries one of the pool's addresses.
DBTypeOK ==
  /\ m_userNames \in [Buckets -> Seq(UserValues)]
  /\ m_groupNames \in [Buckets -> Seq(GroupValues)]
  /\ m_addIPPool \in PoolType
  /\ dbRes \in [err : DB_Err, ipAddr : IPAddrs \cup {NULL}]

OccupiedBuckets == {b \in Buckets : m_groupNames[b] # << >>}

\* No bucket ever holds two entries: whatever a bucket's owner is called, a
\* stored key reads like the name that is looked up (GenericHash.c:257-258).
OneEntryPerBucket ==
  \A b \in Buckets : Len(m_userNames[b]) <= 1 /\ Len(m_groupNames[b]) <= 1

\* Two groups never share a multicast address while no more groups exist
\* than the pool had addresses (Check_Group_Name_And_Insert, GetIPAddress).
GroupAddressesDistinct ==
  Cardinality(OccupiedBuckets) <= Capacity =>
    \A b, c \in Buckets : \A i \in DOMAIN m_groupNames[b], j \in DOMAIN m_groupNames[c] :
      m_groupNames[b][i].m_ip_add_group = m_groupNames[c][j].m_ip_add_group
        => b = c /\ i = j

\* The pool is short of exactly one address per group: a refused creation
\* takes none and none is lost.  The count wraps once the pool is exhausted.
PoolAccountsForGroups ==
  m_addIPPool.m_poolSize =
    (Capacity + SizeT - Cardinality(OccupiedBuckets)) % SizeT
=============================================================================
