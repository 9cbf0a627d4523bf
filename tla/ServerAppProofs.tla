---------------------------- MODULE ServerAppProofs ----------------------------
(***************************************************************************)
(* Proofs about the registry of users and groups and about the application *)
(* function in front of it, for every set of names, every hash of them     *)
(* into buckets and every pool.                                            *)
(***************************************************************************)
EXTENDS ServerApp, RoundArithmetic, FiniteSetTheorems, SequenceTheorems

-----------------------------------------------------------------------------
(***************************************************************************)
(* The data base.                                                          *)
(*                                                                         *)
(* While a request is handled every stored key of its kind reads as the    *)
(* name looked up, so a chain that is searched and misses is empty: hence  *)
(* one entry per bucket.  Addresses leave the pool in order, one for each  *)
(* bucket that becomes occupied, so the groups of n occupied buckets hold  *)
(* n of the first n addresses until the pool is exhausted.                 *)
(***************************************************************************)

\* The sizes as plain numbers.
LEMMA PoolSizes ==
  /\ SizeT \in Nat \ {0} /\ Capacity \in Nat \ {0}
  /\ 2 <= Capacity /\ Capacity < SizeT
  BY SizeTAssumption, CapacityAssumption DEF ValidSize

\* The addresses of the pool are pairwise different (InsertAllIPAddrToList).
LEMMA AddressesDiffer ==
  ASSUME NEW i \in Nat, NEW j \in Nat, IPAddr(i) = IPAddr(j)
  PROVE  i = j
  <1>1. i \div 254 = j \div 254 /\ 1 + (i % 254) = 1 + (j % 254)
    BY DEF IPAddr
  <1>2. i = 254 * (i \div 254) + (i % 254) /\ j = 254 * (j \div 254) + (j % 254)
    OBVIOUS
  <1>3. i % 254 \in Nat /\ j % 254 \in Nat
    OBVIOUS
  <1> QED
    BY <1>1, <1>2, <1>3

\* In a user's request the stored user keys read as its user name, in a
\* group's request they read as no name (the pointers kept by HashMap_Insert).
LEMMA UserKeyReads ==
  /\ \A msg \in UserMsgs : UserKeyText(msg) = msg.m_userName
  /\ \A msg \in GroupMsgs : UserKeyText(msg) = NULL /\ ~FindUser(msg)
  <1>1. ASSUME NEW msg \in UserMsgs PROVE "m_password" \in DOMAIN msg
    BY DEF UserMsgs
  <1>2. ASSUME NEW msg \in GroupMsgs PROVE "m_password" \notin DOMAIN msg
    BY DEF GroupMsgs
  <1>3. ASSUME NEW msg \in GroupMsgs PROVE msg.m_userName # NULL
    BY NameAssumption DEF GroupMsgs
  <1> QED
    BY <1>1, <1>2, <1>3 DEF UserKeyText, FindUser, Found

\* A lookup that misses has searched an empty chain.
LEMMA MissedIsEmpty ==
  /\ \A msg \in UserMsgs : ~FindUser(msg) => UserChain(msg.m_userName) = << >>
  /\ \A msg \in GroupMsgs : ~FindGroup(msg) <=> GroupChain(msg.m_groupName) = << >>
  BY UserKeyReads DEF FindUser, FindGroup, Found, GroupKeyText

\* The bucket of a request's name is one of the map's.
LEMMA BucketOf ==
  /\ \A msg \in UserMsgs : UserBucket[msg.m_userName] \in Buckets
  /\ \A msg \in GroupMsgs : GroupBucket[msg.m_groupName] \in Buckets
  BY BucketAssumption DEF UserMsgs, GroupMsgs
-----------------------------------------------------------------------------
(***************************************************************************)
(* What the five calls do to the three parts of the state.                 *)
(***************************************************************************)
NewUser(msg) == [m_status |-> "DISCONNECT", m_psw |-> msg.m_password, m_myGroups |-> {}]

UserAdded(msg) ==
  /\ UserChain(msg.m_userName) = << >>
  /\ m_userNames' = [m_userNames EXCEPT ![UserBucket[msg.m_userName]] = <<NewUser(msg)>>]

GroupAdded(msg) ==
  /\ GroupChain(msg.m_groupName) = << >>
  /\ m_groupNames' = [m_groupNames EXCEPT ![GroupBucket[msg.m_groupName]] = <<NewGroup(msg)>>]
  /\ m_addIPPool' = GetIPAddress(m_addIPPool).pool

ParticAdded(msg) ==
  /\ GroupChain(msg.m_groupName) # << >>
  /\ FoundGroup(msg).m_numOfPartic < MaxPartic
  /\ AddPartic(msg, 1)

\* IsUserNameUnique stores the user if and only if it answers that the name
\* is new.
LEMMA UniqueIsAdded ==
  ASSUME NEW msg \in UserMsgs, IsUserNameUnique(msg)
  PROVE  IF dbRes'.err = "UNIQE" THEN UserAdded(msg) ELSE UNCHANGED m_userNames
  <1>1. CASE FindUser(msg)
    BY <1>1 DEF IsUserNameUnique, Return
  <1>2. CASE ~FindUser(msg)
    <2>1. UserChain(msg.m_userName) = << >>
      BY <1>2, MissedIsEmpty
    <2>2. m_userNames' = [m_userNames EXCEPT ![UserBucket[msg.m_userName]] =
            HashMap_Insert(@, UserKeyText(msg), msg.m_userName, NewUser(msg))]
      BY <1>2 DEF IsUserNameUnique, InsertUserToList, NewUser
    <2>3. HashMap_Insert(<< >>, UserKeyText(msg), msg.m_userName, NewUser(msg))
            = <<NewUser(msg)>>
      BY DEF HashMap_Insert, Found
    <2>4. UserAdded(msg)
      BY <2>1, <2>2, <2>3 DEF UserAdded, UserChain
    <2>5. dbRes'.err = "UNIQE"
      BY <1>2 DEF IsUserNameUnique, Return
    <2> QED
      BY <2>4, <2>5
  <1> QED
    BY <1>1, <1>2

\* IsUserNameUnique and CheckClientStatusAndConnect leave the users as they
\* are or fill an empty bucket; a login stores nothing.
LEMMA UserRequestEffect ==
  ASSUME NEW msg \in UserMsgs,
         IsUserNameUnique(msg) \/ CheckClientStatusAndConnect(msg)
  PROVE  /\ UNCHANGED <<m_groupNames, m_addIPPool>>
         /\ UserAdded(msg) \/ UNCHANGED m_userNames
         /\ dbRes' \in [err : DB_Err, ipAddr : {NULL}]
  <1>1. CASE IsUserNameUnique(msg)
    <2>1. UserAdded(msg) \/ UNCHANGED m_userNames
      BY <1>1, UniqueIsAdded
    <2>2. /\ UNCHANGED <<m_groupNames, m_addIPPool>>
          /\ dbRes' \in [err : DB_Err, ipAddr : {NULL}]
      BY <1>1 DEF IsUserNameUnique, Return, DB_Err
    <2> QED
      BY <2>1, <2>2
  <1>2. CASE CheckClientStatusAndConnect(msg)
    <2>1. UNCHANGED m_userNames
      BY <1>2 DEF CheckClientStatusAndConnect, InsertUserToList
    <2>2. LoginOutcome(msg) \in DB_Err
      BY DEF LoginOutcome, DB_Err
    <2> QED
      BY <1>2, <2>1, <2>2 DEF CheckClientStatusAndConnect, Return
  <1> QED
    BY <1>1, <1>2

\* Check_Group_Name_And_Insert refuses and changes nothing, or fills an empty
\* bucket with a group that has the next address of the pool.
LEMMA CreateEffect ==
  ASSUME NEW msg \in GroupMsgs, Check_Group_Name_And_Insert(msg)
  PROVE  /\ UNCHANGED m_userNames
         /\ \/ /\ UNCHANGED <<m_groupNames, m_addIPPool>>
               /\ dbRes' = [err |-> "DB_GROUP_NAME_ALREADY_EXIST", ipAddr |-> NULL]
            \/ /\ GroupAdded(msg)
               /\ dbRes' = [err |-> "DB_GROUP_SUCCESSFULLY_INSERT",
                            ipAddr |-> NewGroup(msg).m_ip_add_group]
  <1>1. CASE FindGroup(msg)
    BY <1>1 DEF Check_Group_Name_And_Insert, Return
  <1>2. CASE ~FindGroup(msg)
    <2>1. GroupChain(msg.m_groupName) = << >>
      BY <1>2, MissedIsEmpty
    <2>2. m_groupNames' = [m_groupNames EXCEPT ![GroupBucket[msg.m_groupName]] =
            HashMap_Insert(@, GroupKeyText(msg), msg.m_groupName, NewGroup(msg))]
      BY <1>2 DEF Check_Group_Name_And_Insert
    <2>3. HashMap_Insert(<< >>, GroupKeyText(msg), msg.m_groupName, NewGroup(msg))
            = <<NewGroup(msg)>>
      BY DEF HashMap_Insert, Found
    <2>4. GroupAdded(msg)
      BY <1>2, <2>1, <2>2, <2>3 DEF GroupAdded, GroupChain, Check_Group_Name_And_Insert
    <2>5. UNCHANGED m_userNames
      BY <1>2, UserKeyReads DEF Check_Group_Name_And_Insert, Update_Group_Details_For_User
    <2> QED
      BY <1>2, <2>4, <2>5 DEF Check_Group_Name_And_Insert, Return
  <1> QED
    BY <1>1, <1>2

\* Try_to_Join_To_Group counts a participant of a group that exists or
\* changes nothing.
LEMMA JoinEffect ==
  ASSUME NEW msg \in GroupMsgs, Try_to_Join_To_Group(msg)
  PROVE  /\ UNCHANGED <<m_userNames, m_addIPPool>>
         /\ \/ /\ UNCHANGED m_groupNames
               /\ dbRes' \in [err : DB_Err, ipAddr : {NULL}]
               /\ dbRes'.err # "DB_GROUP_JOIN_SUCCESSFULLY"
            \/ /\ ParticAdded(msg)
               /\ FoundGroup(msg).m_groupName = msg.m_groupName
               /\ dbRes' = [err |-> "DB_GROUP_JOIN_SUCCESSFULLY",
                            ipAddr |-> FoundGroup(msg).m_ip_add_group]
  BY MissedIsEmpty DEF Try_to_Join_To_Group, ParticAdded, Return, DB_Err

\* Try_to_Leave_To_Group finds no user and changes nothing.
LEMMA LeaveEffect ==
  ASSUME NEW msg \in GroupMsgs, Try_to_Leave_To_Group(msg)
  PROVE  /\ UNCHANGED <<m_userNames, m_groupNames, m_addIPPool>>
         /\ dbRes' = [err |-> "DB_GROUP_NAME_NOT_EXIST", ipAddr |-> NULL]
  BY UserKeyReads DEF Try_to_Leave_To_Group, UserIsInGroup, Return

\* The slot that GetIPAddress reads.
NextAddress == m_addIPPool.m_queue_addr.m_queueArray[m_addIPPool.m_queue_addr.m_head]

\* GetIPAddress never fails: it hands out what lies at the head and counts
\* down, whether the pool has an address left or not.
LEMMA AddressTaken ==
  ASSUME m_addIPPool \in PoolType
  PROVE  /\ GetIPAddress(m_addIPPool).ipAddr = NextAddress
         /\ NextAddress \in IPAddrs
         /\ GetIPAddress(m_addIPPool).pool =
              [m_queue_addr |->
                 [m_queueArray |-> m_addIPPool.m_queue_addr.m_queueArray,
                  m_size |-> Capacity,
                  m_head |-> (m_addIPPool.m_queue_addr.m_head + 1) % Capacity,
                  m_tail |-> 0,
                  m_nItems |-> (m_addIPPool.m_queue_addr.m_nItems + SizeT - 1) % SizeT],
               m_poolSize |-> (m_addIPPool.m_poolSize + SizeT - 1) % SizeT]
         /\ GetIPAddress(m_addIPPool).pool \in PoolType
  <1> DEFINE q == m_addIPPool.m_queue_addr
             n == m_addIPPool.m_poolSize
  <1>1. /\ q.m_queueArray \in [0 .. Capacity - 1 -> IPAddrs]
        /\ q.m_head \in 0 .. Capacity - 1 /\ q.m_nItems \in 0 .. SizeT - 1
        /\ q.m_size = Capacity /\ q.m_tail = 0 /\ n \in 0 .. SizeT - 1
    BY DEF PoolType
  <1>2. q = [m_queueArray |-> q.m_queueArray, m_size |-> Capacity, m_head |-> q.m_head,
             m_tail |-> 0, m_nItems |-> q.m_nItems]
    BY DEF PoolType
  <1>3. QueueRemove(q) =
          [err |-> "QERR_OK", item |-> q.m_queueArray[q.m_head],
           queue |-> [m_queueArray |-> q.m_queueArray, m_size |-> Capacity,
                      m_head |-> (q.m_head + 1) % Capacity, m_tail |-> 0,
                      m_nItems |-> (q.m_nItems + SizeT - 1) % SizeT]]
    BY <1>1, <1>2, PoolSizes DEF QueueRemove
  <1>4. (q.m_head + 1) % Capacity \in 0 .. Capacity - 1
    BY <1>1, PoolSizes
  <1>5. (q.m_nItems + SizeT - 1) % SizeT \in 0 .. SizeT - 1
    BY <1>1, PoolSizes
  <1>6. (n + SizeT - 1) % SizeT \in 0 .. SizeT - 1
    BY <1>1, PoolSizes
  <1>7. /\ GetIPAddress(m_addIPPool).ipAddr = QueueRemove(q).item
        /\ GetIPAddress(m_addIPPool).pool = [m_queue_addr |-> QueueRemove(q).queue,
                                              m_poolSize |-> (n + SizeT - 1) % SizeT]
    BY <1>3 DEF GetIPAddress
  <1>8. NextAddress \in IPAddrs
    BY <1>1 DEF NextAddress
  <1>9. [m_queue_addr |-> [m_queueArray |-> q.m_queueArray, m_size |-> Capacity,
                           m_head |-> (q.m_head + 1) % Capacity, m_tail |-> 0,
                           m_nItems |-> (q.m_nItems + SizeT - 1) % SizeT],
         m_poolSize |-> (n + SizeT - 1) % SizeT] \in PoolType
    BY <1>1, <1>4, <1>5, <1>6 DEF PoolType
  <1> QED
    BY <1>3, <1>7, <1>8, <1>9 DEF NextAddress

\* Counting a participant keeps the maps' shape, names and addresses.
LEMMA ParticAddedKeeps ==
  ASSUME m_groupNames \in [Buckets -> Seq(GroupValues)],
         NEW msg \in GroupMsgs, ParticAdded(msg)
  PROVE  /\ m_groupNames' \in [Buckets -> Seq(GroupValues)]
         /\ \A b \in Buckets :
              /\ Len(m_groupNames'[b]) = Len(m_groupNames[b])
              /\ DOMAIN m_groupNames'[b] = DOMAIN m_groupNames[b]
              /\ m_groupNames'[b] = << >> <=> m_groupNames[b] = << >>
              /\ \A i \in DOMAIN m_groupNames[b] :
                   /\ m_groupNames'[b][i].m_groupName = m_groupNames[b][i].m_groupName
                   /\ m_groupNames'[b][i].m_ip_add_group = m_groupNames[b][i].m_ip_add_group
  <1> DEFINE a == GroupBucket[msg.m_groupName]
             c == m_groupNames[a]
             v == c[1]
             w == [m_numOfPartic |-> v.m_numOfPartic + 1, m_groupName |-> v.m_groupName,
                   m_ip_add_group |-> v.m_ip_add_group]
             d == [c EXCEPT ![1] = w]
  <1>1. a \in Buckets /\ c \in Seq(GroupValues) /\ c # << >>
    BY BucketOf DEF ParticAdded, GroupChain
  <1>2. 1 \in 1 .. Len(c) /\ v \in GroupValues
    BY <1>1, EmptySeq, ElementOfSeq
  <1>3. v.m_numOfPartic \in 0 .. MaxPartic /\ v.m_numOfPartic < MaxPartic
    BY <1>1, <1>2 DEF ParticAdded, FoundGroup, GroupChain, GroupValues
  <1>4. w \in GroupValues /\ w = [v EXCEPT !.m_numOfPartic = @ + 1]
    BY <1>2, <1>3, ParticAssumption DEF GroupValues
  <1>5. m_groupNames' = [m_groupNames EXCEPT ![a] = d]
    BY <1>1, <1>2, <1>4 DEF ParticAdded, AddPartic
  <1>6. /\ d \in Seq(GroupValues) /\ Len(d) = Len(c)
        /\ \A j \in 1 .. Len(c) : d[j] = IF j = 1 THEN w ELSE c[j]
    <2> HIDE DEF w, c
    <2>1. c \in Seq(GroupValues) /\ 1 \in 1 .. Len(c) /\ w \in GroupValues
      BY <1>1, <1>2, <1>4
    <2>2. /\ [c EXCEPT ![1] = w] \in Seq(GroupValues)
          /\ Len([c EXCEPT ![1] = w]) = Len(c)
          /\ \A j \in 1 .. Len(c) : [c EXCEPT ![1] = w][j] = IF j = 1 THEN w ELSE c[j]
      BY <2>1, ExceptSeq
    <2> QED
      BY <2>2
  <1> HIDE DEF w, d
  <1>7. DOMAIN c = 1 .. Len(c) /\ DOMAIN d = 1 .. Len(d) /\ Len(c) > 0
    <2> HIDE DEF c
    <2>1. c \in Seq(GroupValues) /\ d \in Seq(GroupValues) /\ c # << >>
      BY <1>1, <1>6
    <2>2. DOMAIN c = 1 .. Len(c) /\ DOMAIN d = 1 .. Len(d) /\ Len(c) \in Nat
      BY <2>1, LenProperties
    <2>3. Len(c) # 0
      BY <2>1, EmptySeq
    <2> QED
      BY <2>2, <2>3
  <1>8. m_groupNames'[a] = d /\ \A b \in Buckets : b # a => m_groupNames'[b] = m_groupNames[b]
    BY <1>1, <1>5
  <1>9. d # << >>
    <2>1. Len(d) > 0
      BY <1>6, <1>7
    <2> HIDE DEF c
    <2>2. Len(<< >>) = 0
      OBVIOUS
    <2> QED
      BY <2>1, <2>2
  <1>10. m_groupNames' \in [Buckets -> Seq(GroupValues)]
    BY <1>1, <1>5, <1>6
  <1>11. \A i \in DOMAIN c : /\ d[i].m_groupName = c[i].m_groupName
                             /\ d[i].m_ip_add_group = c[i].m_ip_add_group
    BY <1>6, <1>7 DEF w
  <1> HIDE DEF d, c, a
  <1>12. ASSUME NEW b \in Buckets
        PROVE  /\ Len(m_groupNames'[b]) = Len(m_groupNames[b])
               /\ DOMAIN m_groupNames'[b] = DOMAIN m_groupNames[b]
               /\ m_groupNames'[b] = << >> <=> m_groupNames[b] = << >>
               /\ \A i \in DOMAIN m_groupNames[b] :
                    /\ m_groupNames'[b][i].m_groupName = m_groupNames[b][i].m_groupName
                    /\ m_groupNames'[b][i].m_ip_add_group = m_groupNames[b][i].m_ip_add_group
    <2>1. CASE b = a
      BY <1>1, <1>6, <1>7, <1>8, <1>9, <1>11, <2>1 DEF c
    <2>2. CASE b # a
      BY <1>8, <2>2
    <2> QED
      BY <2>1, <2>2
  <1> QED
    BY <1>10, <1>12
-----------------------------------------------------------------------------
(***************************************************************************)
(* The inductive invariant.                                                *)
(***************************************************************************)
GroupCount == Cardinality(OccupiedBuckets)

\* The pool's slots are as CreateIP_Multecaste left them and, while some are
\* left, the head has passed one for each group.
PoolInOrder ==
  /\ m_addIPPool.m_queue_addr.m_queueArray = [i \in 0 .. Capacity - 1 |-> IPAddr(i)]
  /\ GroupCount < Capacity => m_addIPPool.m_queue_addr.m_head = GroupCount

\* The groups hold addresses that the head has passed.
AddressesPassed ==
  GroupCount <= Capacity =>
    \A b \in Buckets : \A i \in DOMAIN m_groupNames[b] :
      \E j \in 0 .. GroupCount - 1 : m_groupNames[b][i].m_ip_add_group = IPAddr(j)

DBInv ==
  /\ DBTypeOK
  /\ OneEntryPerBucket
  /\ GroupAddressesDistinct
  /\ PoolAccountsForGroups
  /\ PoolInOrder
  /\ AddressesPassed

\* There are fewer groups than values of a size_t.
LEMMA GroupCountBound ==
  /\ IsFiniteSet(OccupiedBuckets)
  /\ GroupCount \in 0 .. SizeT - 1
  <1>1. OccupiedBuckets \subseteq Buckets
    BY DEF OccupiedBuckets
  <1>2. /\ IsFiniteSet(OccupiedBuckets)
        /\ Cardinality(OccupiedBuckets) <= Cardinality(Buckets)
    BY <1>1, BucketAssumption, FS_Subset
  <1>3. Cardinality(OccupiedBuckets) \in Nat /\ Cardinality(Buckets) \in Nat
    BY <1>2, BucketAssumption, FS_CardinalityType
  <1> QED
    BY <1>2, <1>3, BucketAssumption, PoolSizes DEF GroupCount

\* CreateMainDataBase: empty maps and a full pool.
LEMMA CreateDBInv == CreateMainDataBase => DBInv
  <1> SUFFICES ASSUME CreateMainDataBase PROVE DBInv
    OBVIOUS
  <1> DEFINE q == m_addIPPool.m_queue_addr
  <1>1. m_addIPPool = [m_queue_addr |->
           [m_queueArray |-> [i \in 0 .. Capacity - 1 |-> IPAddr(i)],
            m_size |-> Capacity, m_head |-> 0, m_tail |-> 0, m_nItems |-> Capacity],
           m_poolSize |-> Capacity]
    BY DEF CreateMainDataBase, CreateIP_Multecaste, InsertAllIPAddrToList, QueueCreate
  <1>2. [i \in 0 .. Capacity - 1 |-> IPAddr(i)] \in [0 .. Capacity - 1 -> IPAddrs]
    BY DEF IPAddrs
  <1>3. m_addIPPool \in PoolType
    BY <1>1, <1>2, PoolSizes DEF PoolType
  <1>4. /\ m_userNames = [b \in Buckets |-> << >>] /\ m_groupNames = [b \in Buckets |-> << >>]
        /\ dbRes = [err |-> "DB_SUCCESS", ipAddr |-> NULL]
    BY DEF CreateMainDataBase
  <1>5. DBTypeOK
    BY <1>3, <1>4, EmptySeq DEF DBTypeOK, DB_Err
  <1>6. OneEntryPerBucket
    BY <1>4, EmptySeq DEF OneEntryPerBucket
  <1>7. OccupiedBuckets = {}
    BY <1>4 DEF OccupiedBuckets
  <1>8. GroupCount = 0
    BY <1>7, FS_EmptySet DEF GroupCount
  <1>9. \A b \in Buckets : DOMAIN m_groupNames[b] = {}
    BY <1>4
  <1>10. GroupAddressesDistinct /\ AddressesPassed
    BY <1>9 DEF GroupAddressesDistinct, AddressesPassed
  <1>11. PoolAccountsForGroups
    <2>1. (Capacity + SizeT - 0) % SizeT = Capacity
      BY PoolSizes
    <2> QED
      BY <1>1, <1>8, <2>1 DEF PoolAccountsForGroups, GroupCount
  <1>12. PoolInOrder
    BY <1>1, <1>8 DEF PoolInOrder
  <1> QED
    BY <1>5, <1>6, <1>10, <1>11, <1>12 DEF DBInv

\* A step that adds no group keeps the invariant if it keeps the pool, the
\* maps' shape and the groups' names and addresses.
LEMMA NoGroupAdded ==
  ASSUME DBInv,
         UNCHANGED m_addIPPool,
         m_userNames' \in [Buckets -> Seq(UserValues)],
         \A b \in Buckets : Len(m_userNames'[b]) <= 1,
         m_groupNames' \in [Buckets -> Seq(GroupValues)],
         \A b \in Buckets :
           /\ Len(m_groupNames'[b]) = Len(m_groupNames[b])
           /\ DOMAIN m_groupNames'[b] = DOMAIN m_groupNames[b]
           /\ m_groupNames'[b] = << >> <=> m_groupNames[b] = << >>
           /\ \A i \in DOMAIN m_groupNames[b] :
                m_groupNames'[b][i].m_ip_add_group = m_groupNames[b][i].m_ip_add_group,
         dbRes' \in [err : DB_Err, ipAddr : IPAddrs \cup {NULL}]
  PROVE  DBInv'
  <1>1. DBTypeOK'
    BY DEF DBInv, DBTypeOK, PoolType
  <1>2. OneEntryPerBucket'
    BY DEF DBInv, OneEntryPerBucket
  <1>3. OccupiedBuckets' = OccupiedBuckets
    BY DEF OccupiedBuckets
  <1>4. GroupCount' = GroupCount /\ Cardinality(OccupiedBuckets)' = Cardinality(OccupiedBuckets)
    BY <1>3 DEF GroupCount
  <1>5. GroupAddressesDistinct'
    <2> SUFFICES ASSUME Cardinality(OccupiedBuckets) <= Capacity,
                        NEW b \in Buckets, NEW c \in Buckets,
                        NEW i \in DOMAIN m_groupNames'[b], NEW j \in DOMAIN m_groupNames'[c],
                        m_groupNames'[b][i].m_ip_add_group = m_groupNames'[c][j].m_ip_add_group
                 PROVE  b = c /\ i = j
      BY <1>4 DEF GroupAddressesDistinct
    <2>1. /\ i \in DOMAIN m_groupNames[b] /\ j \in DOMAIN m_groupNames[c]
          /\ m_groupNames[b][i].m_ip_add_group = m_groupNames[c][j].m_ip_add_group
      OBVIOUS
    <2> QED
      BY <2>1 DEF DBInv, GroupAddressesDistinct
  <1>6. PoolAccountsForGroups' /\ PoolInOrder'
    BY <1>4 DEF DBInv, PoolAccountsForGroups, PoolInOrder
  <1>7. AddressesPassed'
    <2> SUFFICES ASSUME GroupCount <= Capacity,
                        NEW b \in Buckets, NEW i \in DOMAIN m_groupNames'[b]
                 PROVE  \E j \in 0 .. GroupCount - 1 :
                          m_groupNames'[b][i].m_ip_add_group = IPAddr(j)
      BY <1>4 DEF AddressesPassed
    <2>1. /\ i \in DOMAIN m_groupNames[b]
          /\ m_groupNames'[b][i].m_ip_add_group = m_groupNames[b][i].m_ip_add_group
      OBVIOUS
    <2> QED
      BY <2>1 DEF DBInv, AddressesPassed
  <1> QED
    BY <1>1, <1>2, <1>5, <1>6, <1>7 DEF DBInv

\* A new group takes the address at the head, which no group holds, and its
\* bucket is one more.
LEMMA OneGroupAdded ==
  ASSUME DBInv, NEW msg \in GroupMsgs, GroupAdded(msg), UNCHANGED m_userNames,
         dbRes' = [err |-> "DB_GROUP_SUCCESSFULLY_INSERT",
                   ipAddr |-> NewGroup(msg).m_ip_add_group]
  PROVE  DBInv'
  <1> DEFINE a == GroupBucket[msg.m_groupName]
             v == NewGroup(msg)
             w == <<v>>
             n == GroupCount
  <1>1. /\ m_userNames \in [Buckets -> Seq(UserValues)]
        /\ m_groupNames \in [Buckets -> Seq(GroupValues)]
        /\ m_addIPPool \in PoolType
        /\ OneEntryPerBucket /\ GroupAddressesDistinct /\ PoolAccountsForGroups
        /\ PoolInOrder /\ AddressesPassed
    BY DEF DBInv, DBTypeOK
  <1>2. /\ v.m_ip_add_group = NextAddress /\ NextAddress \in IPAddrs
        /\ v \in GroupValues
    BY <1>1, AddressTaken, ParticAssumption DEF NewGroup, GroupValues, GroupMsgs
  <1>3. /\ a \in Buckets /\ m_groupNames[a] = << >>
        /\ m_groupNames' = [m_groupNames EXCEPT ![a] = w]
    BY BucketOf DEF GroupAdded, GroupChain
  <1>4. /\ w \in Seq(GroupValues) /\ Len(w) = 1 /\ DOMAIN w = {1}
        /\ w[1] = v /\ w # << >>
    BY <1>2
  <1> HIDE DEF a, v, w
  <1>5. /\ m_groupNames'[a] = w
        /\ \A b \in Buckets : b # a => m_groupNames'[b] = m_groupNames[b]
    BY <1>1, <1>3
  <1>6. DBTypeOK'
    <2>1. m_addIPPool' \in PoolType
      BY <1>1, AddressTaken DEF GroupAdded
    <2>2. m_groupNames' \in [Buckets -> Seq(GroupValues)]
      BY <1>1, <1>3, <1>4
    <2>3. dbRes' \in [err : DB_Err, ipAddr : IPAddrs \cup {NULL}]
      BY <1>2 DEF DB_Err, v
    <2> QED
      BY <1>1, <2>1, <2>2, <2>3 DEF DBTypeOK, PoolType
  <1>7. OneEntryPerBucket'
    <2> SUFFICES ASSUME NEW b \in Buckets
                 PROVE  Len(m_userNames'[b]) <= 1 /\ Len(m_groupNames'[b]) <= 1
      BY DEF OneEntryPerBucket
    <2>1. Len(m_userNames[b]) <= 1 /\ Len(m_groupNames[b]) <= 1
      BY <1>1 DEF OneEntryPerBucket
    <2>2. m_groupNames'[b] = w \/ m_groupNames'[b] = m_groupNames[b]
      BY <1>5
    <2>3. Len(w) <= 1
      BY <1>4
    <2>4. Len(m_groupNames'[b]) <= 1
      BY <2>1, <2>2, <2>3, Zenon
    <2> QED
      BY <2>1, <2>4
  <1>8. n \in 0 .. SizeT - 1 /\ GroupCount' = n + 1
    <2>1. OccupiedBuckets' = OccupiedBuckets \cup {a} /\ a \notin OccupiedBuckets
      BY <1>3, <1>4, <1>5 DEF OccupiedBuckets
    <2>2. Cardinality(OccupiedBuckets \cup {a}) = Cardinality(OccupiedBuckets) + 1
      BY <2>1, GroupCountBound, FS_AddElement
    <2> QED
      BY <2>1, <2>2, GroupCountBound DEF GroupCount
  <1> HIDE DEF n
  <1>9. /\ m_addIPPool'.m_queue_addr.m_queueArray = m_addIPPool.m_queue_addr.m_queueArray
        /\ m_addIPPool'.m_queue_addr.m_head = (m_addIPPool.m_queue_addr.m_head + 1) % Capacity
        /\ m_addIPPool'.m_poolSize = (m_addIPPool.m_poolSize + SizeT - 1) % SizeT
    BY <1>1, AddressTaken DEF GroupAdded
  <1>10. PoolAccountsForGroups'
    <2>1. m_addIPPool.m_poolSize = (Capacity + SizeT - n) % SizeT
      BY <1>1 DEF PoolAccountsForGroups, n, GroupCount
    <2>2. (((Capacity + SizeT - n) % SizeT) + SizeT - 1) % SizeT
            = (Capacity + SizeT - (n + 1)) % SizeT
      BY <1>8, PoolSizes, CountDown
    <2> QED
      BY <1>8, <1>9, <2>1, <2>2 DEF PoolAccountsForGroups, GroupCount
  <1>11. PoolInOrder'
    <2>1. ASSUME n + 1 < Capacity PROVE m_addIPPool'.m_queue_addr.m_head = n + 1
      <3>1. m_addIPPool.m_queue_addr.m_head = n
        BY <1>1, <1>8, <2>1, PoolSizes DEF PoolInOrder, n
      <3>2. (n + 1) % Capacity = n + 1
        BY <1>8, <2>1, PoolSizes
      <3> QED
        BY <1>9, <3>1, <3>2
    <2> QED
      BY <1>1, <1>8, <1>9, <2>1 DEF PoolInOrder
  <1>12. n + 1 <= Capacity => v.m_ip_add_group = IPAddr(n)
    BY <1>1, <1>2, <1>8, PoolSizes DEF PoolInOrder, NextAddress, n
  <1>13. ASSUME n + 1 <= Capacity, NEW b \in Buckets, NEW i \in DOMAIN m_groupNames[b]
         PROVE  \E j \in 0 .. n - 1 : m_groupNames[b][i].m_ip_add_group = IPAddr(j)
    BY <1>1, <1>8, <1>13, PoolSizes DEF AddressesPassed, n
  <1>14. AddressesPassed'
    <2> SUFFICES ASSUME n + 1 <= Capacity,
                        NEW b \in Buckets, NEW i \in DOMAIN m_groupNames'[b]
                 PROVE  \E j \in 0 .. n : m_groupNames'[b][i].m_ip_add_group = IPAddr(j)
      BY <1>8 DEF AddressesPassed
    <2>1. CASE b = a
      BY <1>4, <1>5, <1>8, <1>12, <2>1
    <2>2. CASE b # a
      BY <1>5, <1>8, <1>13, <2>2
    <2> QED
      BY <2>1, <2>2
  <1>15. GroupAddressesDistinct'
    <2> SUFFICES ASSUME n + 1 <= Capacity,
                        NEW b \in Buckets, NEW c \in Buckets,
                        NEW i \in DOMAIN m_groupNames'[b], NEW j \in DOMAIN m_groupNames'[c],
                        m_groupNames'[b][i].m_ip_add_group = m_groupNames'[c][j].m_ip_add_group
                 PROVE  b = c /\ i = j
      BY <1>8 DEF GroupAddressesDistinct, GroupCount
    <2>1. ASSUME NEW d \in Buckets, d # a, NEW k \in DOMAIN m_groupNames'[d]
          PROVE  m_groupNames'[d][k].m_ip_add_group # v.m_ip_add_group
      <3>1. PICK l \in 0 .. n - 1 : m_groupNames[d][k].m_ip_add_group = IPAddr(l)
        BY <1>5, <1>13, <2>1
      <3>2. IPAddr(l) # IPAddr(n)
        BY <1>8, AddressesDiffer
      <3> QED
        BY <1>5, <1>12, <2>1, <3>1, <3>2
    <2>2. CASE b = a /\ c = a
      BY <1>4, <1>5, <2>2
    <2>3. CASE b = a /\ c # a
      BY <1>4, <1>5, <2>1, <2>3
    <2>4. CASE b # a /\ c = a
      BY <1>4, <1>5, <2>1, <2>4
    <2>5. CASE b # a /\ c # a
      <3>1. Cardinality(OccupiedBuckets) <= Capacity
        BY <1>8, PoolSizes DEF n, GroupCount
      <3> QED
        BY <1>1, <1>5, <2>5, <3>1 DEF GroupAddressesDistinct
    <2> QED
      BY <2>2, <2>3, <2>4, <2>5
  <1> QED
    BY <1>6, <1>7, <1>10, <1>11, <1>14, <1>15 DEF DBInv

\* A registration fills an empty bucket; a login stores nothing.
LEMMA UserRequestDBInv ==
  ASSUME DBInv, NEW msg \in UserMsgs,
         IsUserNameUnique(msg) \/ CheckClientStatusAndConnect(msg)
  PROVE  DBInv'
  <1> DEFINE a == UserBucket[msg.m_userName]
             w == <<NewUser(msg)>>
  <1>1. /\ UNCHANGED <<m_groupNames, m_addIPPool>>
        /\ UserAdded(msg) \/ UNCHANGED m_userNames
        /\ dbRes' \in [err : DB_Err, ipAddr : IPAddrs \cup {NULL}]
    BY UserRequestEffect
  <1>2. /\ m_userNames \in [Buckets -> Seq(UserValues)]
        /\ m_groupNames \in [Buckets -> Seq(GroupValues)]
        /\ \A b \in Buckets : Len(m_userNames[b]) <= 1
    BY DEF DBInv, DBTypeOK, OneEntryPerBucket
  <1>3. /\ w \in Seq(UserValues) /\ Len(w) <= 1 /\ a \in Buckets
    BY BucketOf DEF NewUser, UserValues, UserMsgs
  <1> HIDE DEF a, w
  <1>4. UserAdded(msg) => m_userNames' = [m_userNames EXCEPT ![a] = w]
    BY DEF UserAdded, a, w
  <1>5. m_userNames' \in [Buckets -> Seq(UserValues)]
    BY <1>1, <1>2, <1>3, <1>4
  <1>6. ASSUME NEW b \in Buckets PROVE Len(m_userNames'[b]) <= 1
    <2>1. m_userNames'[b] = w \/ m_userNames'[b] = m_userNames[b]
      BY <1>1, <1>2, <1>3, <1>4
    <2> QED
      BY <1>2, <1>3, <2>1, Zenon
  <1> QED
    BY <1>1, <1>2, <1>5, <1>6, NoGroupAdded

\* Check_Group_Name_And_Insert keeps the invariant, refused or not.
LEMMA CreateGroupDBInv ==
  ASSUME DBInv, NEW msg \in GroupMsgs, Check_Group_Name_And_Insert(msg)
  PROVE  DBInv'
  <1>1. CASE GroupAdded(msg)
    <2>1. dbRes' = [err |-> "DB_GROUP_SUCCESSFULLY_INSERT",
                    ipAddr |-> NewGroup(msg).m_ip_add_group]
          \/ UNCHANGED m_groupNames
      BY CreateEffect
    <2>2. ~UNCHANGED m_groupNames
      <3>1. /\ GroupBucket[msg.m_groupName] \in Buckets
            /\ m_groupNames[GroupBucket[msg.m_groupName]] = << >>
            /\ m_groupNames \in [Buckets -> Seq(GroupValues)]
        BY <1>1, BucketOf DEF GroupAdded, GroupChain, DBInv, DBTypeOK
      <3>2. m_groupNames'[GroupBucket[msg.m_groupName]] = <<NewGroup(msg)>>
        BY <1>1, <3>1 DEF GroupAdded
      <3>3. <<NewGroup(msg)>> # << >>
        OBVIOUS
      <3> QED
        BY <3>1, <3>2, <3>3
    <2> QED
      BY <1>1, <2>1, <2>2, CreateEffect, OneGroupAdded
  <1>2. CASE ~GroupAdded(msg)
    <2>1. /\ UNCHANGED <<m_userNames, m_groupNames, m_addIPPool>>
          /\ dbRes' \in [err : DB_Err, ipAddr : IPAddrs \cup {NULL}]
      BY <1>2, CreateEffect DEF DB_Err
    <2> QED
      BY <2>1, NoGroupAdded DEF DBInv, DBTypeOK, OneEntryPerBucket
  <1> QED
    BY <1>1, <1>2

\* Try_to_Join_To_Group keeps the invariant: it only counts.
LEMMA JoinGroupDBInv ==
  ASSUME DBInv, NEW msg \in GroupMsgs, Try_to_Join_To_Group(msg)
  PROVE  DBInv'
  <1>1. /\ m_userNames \in [Buckets -> Seq(UserValues)]
        /\ m_groupNames \in [Buckets -> Seq(GroupValues)]
        /\ \A b \in Buckets : Len(m_userNames[b]) <= 1
    BY DEF DBInv, DBTypeOK, OneEntryPerBucket
  <1>2. CASE ParticAdded(msg)
    <2>1. dbRes' \in [err : DB_Err, ipAddr : IPAddrs \cup {NULL}]
      <3>1. GroupBucket[msg.m_groupName] \in Buckets
        BY BucketOf
      <3>2. GroupChain(msg.m_groupName) \in Seq(GroupValues) /\ GroupChain(msg.m_groupName) # << >>
        BY <1>1, <1>2, <3>1 DEF ParticAdded, GroupChain
      <3>3. FoundGroup(msg) \in GroupValues
        BY <3>2, HeadTailProperties DEF FoundGroup
      <3>4. FoundGroup(msg).m_ip_add_group \in IPAddrs
        BY <3>3 DEF GroupValues
      <3> QED
        BY <3>4, JoinEffect DEF DB_Err
    <2> QED
      BY <1>1, <1>2, <2>1, JoinEffect, ParticAddedKeeps, NoGroupAdded
  <1>3. CASE ~ParticAdded(msg)
    BY <1>1, <1>3, JoinEffect, NoGroupAdded
  <1> QED
    BY <1>2, <1>3

\* Try_to_Leave_To_Group keeps the invariant: it finds nobody to take out.
LEMMA LeaveGroupDBInv ==
  ASSUME DBInv, NEW msg \in GroupMsgs, Try_to_Leave_To_Group(msg)
  PROVE  DBInv'
  <1>1. /\ m_userNames \in [Buckets -> Seq(UserValues)]
        /\ m_groupNames \in [Buckets -> Seq(GroupValues)]
        /\ \A b \in Buckets : Len(m_userNames[b]) <= 1
    BY DEF DBInv, DBTypeOK, OneEntryPerBucket
  <1>2. /\ UNCHANGED <<m_userNames, m_groupNames, m_addIPPool>>
        /\ dbRes' \in [err : DB_Err, ipAddr : IPAddrs \cup {NULL}]
    BY LeaveEffect DEF DB_Err
  <1> QED
    BY <1>1, <1>2, NoGroupAdded

\* Every call on the data base keeps the invariant.
LEMMA StepDBInv == DBInv /\ [DBNext]_dbVars => DBInv'
  <1>1. ASSUME DBInv, DBNext PROVE DBInv'
    <2>1. ASSUME NEW msg \in UserMsgs,
                 IsUserNameUnique(msg) \/ CheckClientStatusAndConnect(msg)
          PROVE  DBInv'
      BY <1>1, <2>1, UserRequestDBInv
    <2>2. ASSUME NEW msg \in GroupMsgs,
                 \/ Check_Group_Name_And_Insert(msg)
                 \/ Try_to_Join_To_Group(msg)
                 \/ Try_to_Leave_To_Group(msg)
          PROVE  DBInv'
      BY <1>1, <2>2, CreateGroupDBInv, JoinGroupDBInv, LeaveGroupDBInv
    <2> QED
      BY <1>1, <2>1, <2>2 DEF DBNext
  <1>2. ASSUME DBInv, UNCHANGED dbVars PROVE DBInv'
    <2>1. /\ UNCHANGED <<m_userNames, m_groupNames, m_addIPPool, dbRes>>
          /\ dbRes \in [err : DB_Err, ipAddr : IPAddrs \cup {NULL}]
          /\ m_userNames \in [Buckets -> Seq(UserValues)]
          /\ m_groupNames \in [Buckets -> Seq(GroupValues)]
          /\ \A b \in Buckets : Len(m_userNames[b]) <= 1
      BY <1>2 DEF dbVars, DBInv, DBTypeOK, OneEntryPerBucket
    <2> QED
      BY <1>2, <2>1, NoGroupAdded
  <1> QED
    BY <1>1, <1>2

\* The maps, the pool and the result of DataBase.c keep their types, no bucket
\* gets a second entry, no two groups share an address while the pool had one
\* for each, and the pool is short of one address per group.
THEOREM DataBaseInvariant ==
  DBSpec => [](/\ DBTypeOK /\ OneEntryPerBucket
               /\ GroupAddressesDistinct /\ PoolAccountsForGroups)
  <1>1. DBInv => /\ DBTypeOK /\ OneEntryPerBucket
                 /\ GroupAddressesDistinct /\ PoolAccountsForGroups
    BY DEF DBInv
  <1> QED
    BY <1>1, CreateDBInv, StepDBInv, PTL DEF DBSpec

-----------------------------------------------------------------------------
(***************************************************************************)
(* The application: what clients were answered stays true of the data      *)
(* base.  Each request is one call on the data base, so DataBaseInvariant  *)
(* holds of the maps; History relates the answers given so far to them.    *)
(***************************************************************************)

\* One request makes one call on the data base
\* (GetFromClientAndSendToServer).
LEMMA RequestIsDBCall ==
  [GetFromClientAndSendToServer]_appVars => [DBNext]_dbVars
  BY DEF GetFromClientAndSendToServer, appVars, dbVars, DBNext,
         Register, Login, Create, Join, Leave

\* What was answered REGISTER_SUCCESS is in the data base.
RegisteredStored ==
  \A r \in registered :
    LET chain == m_userNames[UserBucket[r[1]]] IN
    /\ chain # << >>
    /\ Head(chain).m_status = "DISCONNECT"
    /\ Head(chain).m_psw = r[2]

\* What clients were told of a group is what its entry says.
ToldStored ==
  \A t \in told :
    LET chain == m_groupNames[GroupBucket[t[1]]] IN
    /\ chain # << >>
    /\ Head(chain).m_groupName = t[1]
    /\ Head(chain).m_ip_add_group = t[2]

\* A group's entry counts its admissions; a name without an entry has none.
AdmittedCounted ==
  \A g \in Groups :
    LET chain == m_groupNames[GroupBucket[g]] IN
    admitted[g] = IF chain # << >> /\ Head(chain).m_groupName = g
                  THEN Head(chain).m_numOfPartic ELSE 0

\* A group's entry lies in the bucket of its name.
GroupsInOwnBucket ==
  \A b \in Buckets :
    m_groupNames[b] # << >> => GroupBucket[Head(m_groupNames[b]).m_groupName] = b

AppInv ==
  /\ DBInv
  /\ TypeOK
  /\ RegisteredStored
  /\ ToldStored
  /\ AdmittedCounted
  /\ GroupsInOwnBucket

\* The part of TypeOK that only this module's variables make.
LEMMA AppTypeParts ==
  ASSUME AppInv
  PROVE  /\ m_userNames \in [Buckets -> Seq(UserValues)]
         /\ m_groupNames \in [Buckets -> Seq(GroupValues)]
         /\ m_addIPPool \in PoolType
         /\ registered \subseteq Users \X Passwords
         /\ told \subseteq Groups \X IPAddrs
         /\ admitted \in [Groups -> 0 .. MaxPartic]
  BY DEF AppInv, TypeOK, DBTypeOK

\* The server starts with nothing answered.
LEMMA InitAppInv == Init => AppInv
  <1> SUFFICES ASSUME Init PROVE AppInv
    OBVIOUS
  <1>1. DBInv
    BY CreateDBInv DEF Init
  <1>2. TypeOK
    BY <1>1, ParticAssumption DEF Init, TypeOK, DBInv
  <1>3. \A g \in Groups : m_groupNames[GroupBucket[g]] = << >>
    BY BucketAssumption DEF Init, CreateMainDataBase
  <1>4. RegisteredStored /\ ToldStored /\ AdmittedCounted /\ GroupsInOwnBucket
    BY <1>3 DEF Init, CreateMainDataBase, RegisteredStored, ToldStored,
                AdmittedCounted, GroupsInOwnBucket
  <1> QED
    BY <1>1, <1>2, <1>4 DEF AppInv

\* Packing keeps an answer's type and address.
LEMMA ReplyFields ==
  ASSUME NEW type, NEW code, NEW ip, Reply(type, code, ip)
  PROVE  answer'.m_type = type /\ answer'.m_groupIP = ip
  BY DEF Reply, PackAnswer

\* No bucket that holds a registered user is emptied or changed hands, since
\* only an empty bucket is filled.
LEMMA RegisterAppInv ==
  ASSUME AppInv, NEW msg \in UserMsgs, Register(msg)
  PROVE  AppInv'
  <1> DEFINE a == UserBucket[msg.m_userName]
             r0 == <<msg.m_userName, msg.m_password>>
  <1>1. /\ IsUserNameUnique(msg) /\ told' = told /\ admitted' = admitted
        /\ registered' = IF dbRes'.err = "UNIQE" THEN registered \cup {r0} ELSE registered
        /\ m_buffer_rcv' = [m_type |-> "REGISTER_REQ", m_body |-> msg]
        /\ answer'.m_type = "REGISTER_ANS" /\ answer'.m_groupIP = NULL
    BY ReplyFields DEF Register, Request
  <1>2. DBInv'
    BY <1>1, UserRequestDBInv DEF AppInv
  <1>3. UNCHANGED <<m_groupNames, m_addIPPool>>
    BY <1>1, UserRequestEffect
  <1>4. IF dbRes'.err = "UNIQE" THEN UserAdded(msg) ELSE UNCHANGED m_userNames
    BY <1>1, UniqueIsAdded
  <1>5. TypeOK'
    <2>1. r0 \in Users \X Passwords
      BY DEF UserMsgs
    <2>2. registered' \subseteq Users \X Passwords
      BY <1>1, <2>1, AppTypeParts
    <2> QED
      BY <1>1, <1>2, <2>2, AppTypeParts DEF TypeOK, DBInv, UserReqs, AnswerTypes
  <1>6. ToldStored' /\ AdmittedCounted' /\ GroupsInOwnBucket'
    BY <1>1, <1>3 DEF AppInv, ToldStored, AdmittedCounted, GroupsInOwnBucket
  <1>7. RegisteredStored'
    <2>1. CASE dbRes'.err # "UNIQE"
      BY <1>1, <1>4, <2>1 DEF AppInv, RegisteredStored
    <2>2. CASE dbRes'.err = "UNIQE"
      <3>1. /\ a \in Buckets /\ m_userNames[a] = << >>
            /\ m_userNames' = [m_userNames EXCEPT ![a] = <<NewUser(msg)>>]
        BY <1>4, <2>2, BucketOf DEF UserAdded, UserChain
      <3>2. \A b \in Buckets : m_userNames'[b] = IF b = a THEN <<NewUser(msg)>> ELSE m_userNames[b]
        BY <3>1, AppTypeParts
      <3>3. ASSUME NEW r \in registered
            PROVE  m_userNames'[UserBucket[r[1]]] = m_userNames[UserBucket[r[1]]]
        <4>1. UserBucket[r[1]] \in Buckets
          BY AppTypeParts, BucketAssumption
        <4>2. m_userNames[UserBucket[r[1]]] # << >>
          BY DEF AppInv, RegisteredStored
        <4> QED
          BY <3>1, <3>2, <4>1, <4>2
      <3>4. /\ m_userNames'[UserBucket[r0[1]]] # << >>
            /\ Head(m_userNames'[UserBucket[r0[1]]]) = NewUser(msg)
        BY <3>1, <3>2
      <3> QED
        BY <1>1, <2>2, <3>3, <3>4 DEF AppInv, RegisteredStored, NewUser
    <2> QED
      BY <2>1, <2>2
  <1> QED
    BY <1>2, <1>5, <1>6, <1>7 DEF AppInv

\* A login only reads.
LEMMA LoginAppInv ==
  ASSUME AppInv, NEW msg \in UserMsgs, Login(msg)
  PROVE  AppInv'
  <1>1. /\ CheckClientStatusAndConnect(msg)
        /\ told' = told /\ admitted' = admitted /\ registered' = registered
        /\ m_buffer_rcv' = [m_type |-> "LOGIN_REQ", m_body |-> msg]
        /\ answer'.m_type = "LOGIN_ANS" /\ answer'.m_groupIP = NULL
    BY ReplyFields DEF Login, Request, history
  <1>2. DBInv'
    BY <1>1, UserRequestDBInv DEF AppInv
  <1>3. UNCHANGED <<m_userNames, m_groupNames, m_addIPPool>>
    BY <1>1 DEF CheckClientStatusAndConnect, InsertUserToList
  <1>4. TypeOK'
    BY <1>1, <1>2, AppTypeParts DEF TypeOK, DBInv, UserReqs, AnswerTypes
  <1>5. ToldStored' /\ AdmittedCounted' /\ RegisteredStored' /\ GroupsInOwnBucket'
    BY <1>1, <1>3 DEF AppInv, ToldStored, AdmittedCounted, RegisteredStored, GroupsInOwnBucket
  <1> QED
    BY <1>2, <1>4, <1>5 DEF AppInv

\* A group request that neither stores, tells nor counts.
LEMMA RefusedAppInv ==
  ASSUME AppInv, DBInv',
         UNCHANGED <<m_userNames, m_groupNames, registered, told, admitted>>,
         answer'.m_type \in AnswerTypes, answer'.m_groupIP = NULL,
         m_buffer_rcv'.m_type \in GroupReqs
  PROVE  AppInv'
  <1>1. TypeOK'
    BY AppTypeParts DEF TypeOK, DBInv
  <1>2. ToldStored' /\ AdmittedCounted' /\ RegisteredStored' /\ GroupsInOwnBucket'
    BY DEF AppInv, ToldStored, AdmittedCounted, RegisteredStored, GroupsInOwnBucket
  <1> QED
    BY <1>1, <1>2 DEF AppInv

\* A group is created in an empty bucket, so nothing told of another group is
\* touched, and its creator is its first admission.
LEMMA CreateAppInv ==
  ASSUME AppInv, NEW msg \in GroupMsgs, Create(msg)
  PROVE  AppInv'
  <1> DEFINE g0 == msg.m_groupName
             a == GroupBucket[g0]
             v == NewGroup(msg)
             w == <<v>>
  <1>1. /\ Check_Group_Name_And_Insert(msg) /\ registered' = registered
        /\ m_buffer_rcv'.m_type = "CREATE_GROUP_CONVERSATION_REQ"
        /\ answer'.m_type = "CREATE_GROUP_CONVERSATION_ANS"
        /\ answer'.m_groupIP = dbRes'.ipAddr
        /\ Tell(msg) /\ Count(msg, "DB_GROUP_SUCCESSFULLY_INSERT", 1)
    BY ReplyFields DEF Create, Request
  <1>2. DBInv' /\ UNCHANGED m_userNames
    BY <1>1, CreateGroupDBInv, CreateEffect DEF AppInv
  <1>3. CASE /\ UNCHANGED <<m_groupNames, m_addIPPool>>
             /\ dbRes' = [err |-> "DB_GROUP_NAME_ALREADY_EXIST", ipAddr |-> NULL]
    <2>1. told' = told /\ admitted' = admitted
      BY <1>1, <1>3 DEF Tell, Count
    <2> QED
      BY <1>1, <1>2, <1>3, <2>1, RefusedAppInv DEF AnswerTypes, GroupReqs
  <1>4. CASE /\ GroupAdded(msg)
             /\ dbRes' = [err |-> "DB_GROUP_SUCCESSFULLY_INSERT", ipAddr |-> v.m_ip_add_group]
    <2>1. /\ g0 \in Groups /\ a \in Buckets /\ m_groupNames[a] = << >>
          /\ m_groupNames' = [m_groupNames EXCEPT ![a] = w]
      BY <1>4, BucketOf DEF GroupAdded, GroupChain, GroupMsgs
    <2>2. /\ v.m_ip_add_group \in IPAddrs
          /\ v.m_numOfPartic = 1 /\ v.m_groupName = g0
      BY AddressTaken, AppTypeParts DEF NewGroup
    <2>3. w # << >> /\ Head(w) = v
      OBVIOUS
    <2> HIDE DEF v, w
    <2>4. \A b \in Buckets : m_groupNames'[b] = IF b = a THEN w ELSE m_groupNames[b]
      BY <2>1, AppTypeParts
    <2>5. admitted' = [admitted EXCEPT ![g0] = @ + 1] /\ admitted[g0] = 0
      BY <1>1, <1>4, <2>1 DEF Count, AppInv, AdmittedCounted
    <2>6. admitted' \in [Groups -> 0 .. MaxPartic] /\ admitted'[g0] = 1
      BY <2>1, <2>5, AppTypeParts, ParticAssumption
    <2>7. told' \subseteq told \cup {<<g0, v.m_ip_add_group>>}
      BY <1>1, <1>4 DEF Tell
    <2>8. TypeOK'
      <3>1. told' \subseteq Groups \X IPAddrs
        BY <2>1, <2>2, <2>7, AppTypeParts
      <3>2. answer'.m_groupIP \in IPAddrs
        BY <1>1, <1>4, <2>2
      <3> QED
        BY <1>1, <1>2, <2>6, <3>1, <3>2, AppTypeParts DEF TypeOK, DBInv, GroupReqs, AnswerTypes
    <2>9. \A g \in Groups : GroupBucket[g] \in Buckets
      BY BucketAssumption
    <2>10. ToldStored'
      <3>1. ASSUME NEW t \in told
            PROVE  m_groupNames'[GroupBucket[t[1]]] = m_groupNames[GroupBucket[t[1]]]
        <4>1. GroupBucket[t[1]] \in Buckets
          BY <2>9, AppTypeParts
        <4>2. m_groupNames[GroupBucket[t[1]]] # << >>
          BY DEF AppInv, ToldStored
        <4> QED
          BY <2>1, <2>4, <4>1, <4>2
      <3>2. m_groupNames'[GroupBucket[g0]] = w
        BY <2>1, <2>4
      <3> QED
        BY <2>2, <2>3, <2>7, <3>1, <3>2 DEF AppInv, ToldStored
    <2>11. AdmittedCounted'
      <3> SUFFICES ASSUME NEW g \in Groups
                   PROVE  LET chain == m_groupNames'[GroupBucket[g]] IN
                          admitted'[g] = IF chain # << >> /\ Head(chain).m_groupName = g
                                         THEN Head(chain).m_numOfPartic ELSE 0
        BY DEF AdmittedCounted
      <3>1. CASE g = g0
        BY <2>1, <2>2, <2>3, <2>4, <2>6, <3>1
      <3>2. CASE g # g0 /\ GroupBucket[g] = a
        <4>1. admitted'[g] = admitted[g]
          BY <2>1, <2>5, <3>2, AppTypeParts
        <4>2. admitted[g] = 0
          BY <2>1, <3>2 DEF AppInv, AdmittedCounted
        <4> QED
          BY <2>1, <2>2, <2>3, <2>4, <3>2, <4>1, <4>2
      <3>3. CASE g # g0 /\ GroupBucket[g] # a
        <4>1. admitted'[g] = admitted[g]
          BY <2>1, <2>5, <3>3, AppTypeParts
        <4>2. m_groupNames'[GroupBucket[g]] = m_groupNames[GroupBucket[g]]
          BY <2>4, <2>9, <3>3
        <4> QED
          BY <4>1, <4>2 DEF AppInv, AdmittedCounted
      <3> QED
        BY <3>1, <3>2, <3>3
    <2>12. RegisteredStored'
      BY <1>1, <1>2 DEF AppInv, RegisteredStored
    <2>13. GroupsInOwnBucket'
      BY <2>1, <2>2, <2>3, <2>4 DEF AppInv, GroupsInOwnBucket
    <2> QED
      BY <1>2, <2>8, <2>10, <2>11, <2>12, <2>13 DEF AppInv
  <1> QED
    BY <1>1, <1>3, <1>4, CreateEffect

\* A join is answered with the address of the entry of its own name, and
\* counts one participant of it.
LEMMA JoinAppInv ==
  ASSUME AppInv, NEW msg \in GroupMsgs, Join(msg)
  PROVE  AppInv'
  <1> DEFINE g0 == msg.m_groupName
             a == GroupBucket[g0]
             c == m_groupNames[a]
             ip == FoundGroup(msg).m_ip_add_group
  <1>1. /\ Try_to_Join_To_Group(msg) /\ registered' = registered
        /\ m_buffer_rcv'.m_type = "JOIN_CONVERSATION_REQ"
        /\ answer'.m_type = "JOIN_CONVERSATION_ANS"
        /\ answer'.m_groupIP = dbRes'.ipAddr
        /\ Tell(msg) /\ Count(msg, "DB_GROUP_JOIN_SUCCESSFULLY", 1)
    BY ReplyFields DEF Join, Request
  <1>2. DBInv' /\ UNCHANGED m_userNames
    BY <1>1, JoinGroupDBInv, JoinEffect DEF AppInv
  <1>3. CASE /\ UNCHANGED m_groupNames
             /\ dbRes' \in [err : DB_Err, ipAddr : {NULL}]
             /\ dbRes'.err # "DB_GROUP_JOIN_SUCCESSFULLY"
    <2>1. told' = told /\ admitted' = admitted /\ dbRes'.ipAddr = NULL
      BY <1>1, <1>3 DEF Tell, Count
    <2> QED
      BY <1>1, <1>2, <1>3, <2>1, RefusedAppInv DEF AnswerTypes, GroupReqs
  <1>4. CASE /\ ParticAdded(msg)
             /\ FoundGroup(msg).m_groupName = g0
             /\ dbRes' = [err |-> "DB_GROUP_JOIN_SUCCESSFULLY", ipAddr |-> ip]
    <2>1. /\ g0 \in Groups /\ a \in Buckets /\ c \in Seq(GroupValues) /\ c # << >>
      BY <1>4, BucketOf, AppTypeParts DEF ParticAdded, GroupChain, GroupMsgs
    <2>2. /\ 1 \in DOMAIN c /\ c[1] = Head(c) /\ c[1] \in GroupValues
          /\ FoundGroup(msg) = c[1]
      <3>1. 1 \in 1 .. Len(c) /\ DOMAIN c = 1 .. Len(c)
        BY <2>1, EmptySeq, LenProperties
      <3> QED
        BY <2>1, <3>1, ElementOfSeq DEF FoundGroup, GroupChain
    <2>3. /\ c[1].m_groupName = g0 /\ ip = c[1].m_ip_add_group
          /\ ip \in IPAddrs /\ c[1].m_numOfPartic \in 0 .. MaxPartic
          /\ c[1].m_numOfPartic < MaxPartic
      BY <1>4, <2>2 DEF ParticAdded, GroupValues
    <2>4. m_groupNames' = [m_groupNames EXCEPT ![a][1].m_numOfPartic = @ + 1]
      BY <1>4 DEF ParticAdded, AddPartic
    <2>5. \A b \in Buckets : b # a => m_groupNames'[b] = m_groupNames[b]
      BY <2>4, AppTypeParts
    <2>6. LET d == m_groupNames'[a] IN
          /\ d # << >> /\ Head(d).m_groupName = g0 /\ Head(d).m_ip_add_group = ip
          /\ Head(d).m_numOfPartic = c[1].m_numOfPartic + 1
      <3>1. m_groupNames'[a] = [c EXCEPT ![1] = [c[1] EXCEPT !.m_numOfPartic = @ + 1]]
        BY <2>1, <2>4, AppTypeParts
      <3>2. /\ m_groupNames'[a] \in Seq(GroupValues) /\ m_groupNames'[a] # << >>
            /\ m_groupNames'[a][1].m_groupName = g0
            /\ m_groupNames'[a][1].m_ip_add_group = ip
        BY <1>4, <2>1, <2>2, <2>3, ParticAddedKeeps, AppTypeParts
      <3>3. m_groupNames'[a][1].m_numOfPartic = c[1].m_numOfPartic + 1
        BY <2>2, <3>1 DEF GroupValues
      <3>4. Head(m_groupNames'[a]) = m_groupNames'[a][1]
        BY <3>2
      <3> QED
        BY <3>2, <3>3, <3>4
    <2>7. admitted' = [admitted EXCEPT ![g0] = @ + 1] /\ admitted[g0] = c[1].m_numOfPartic
      BY <1>1, <1>4, <2>1, <2>2, <2>3 DEF Count, AppInv, AdmittedCounted
    <2>8. admitted' \in [Groups -> 0 .. MaxPartic] /\ admitted'[g0] = c[1].m_numOfPartic + 1
      BY <2>1, <2>3, <2>7, AppTypeParts, ParticAssumption
    <2>9. told' \subseteq told \cup {<<g0, ip>>}
      BY <1>1, <1>4 DEF Tell
    <2> HIDE DEF g0, c, ip
    <2>10. TypeOK'
      <3>1. told' \subseteq Groups \X IPAddrs
        BY <2>1, <2>3, <2>9, AppTypeParts
      <3>2. answer'.m_groupIP \in IPAddrs
        BY <1>1, <1>4, <2>3
      <3> QED
        BY <1>1, <1>2, <2>8, <3>1, <3>2, AppTypeParts DEF TypeOK, DBInv, GroupReqs, AnswerTypes
    <2>11. \A g \in Groups : GroupBucket[g] \in Buckets
      BY BucketAssumption
    <2>12. ToldStored'
      <3> SUFFICES ASSUME NEW t \in told'
                   PROVE  LET chain == m_groupNames'[GroupBucket[t[1]]] IN
                          /\ chain # << >>
                          /\ Head(chain).m_groupName = t[1]
                          /\ Head(chain).m_ip_add_group = t[2]
        BY DEF ToldStored
      <3>1. CASE t = <<g0, ip>>
        BY <2>6, <3>1
      <3>2. CASE t \in told
        <4>1. /\ GroupBucket[t[1]] \in Buckets
              /\ m_groupNames[GroupBucket[t[1]]] # << >>
              /\ Head(m_groupNames[GroupBucket[t[1]]]).m_groupName = t[1]
              /\ Head(m_groupNames[GroupBucket[t[1]]]).m_ip_add_group = t[2]
          BY <2>11, <3>2, AppTypeParts DEF AppInv, ToldStored
        <4>2. CASE GroupBucket[t[1]] = a
          BY <2>2, <2>3, <2>6, <4>1, <4>2 DEF c
        <4>3. CASE GroupBucket[t[1]] # a
          BY <2>5, <4>1, <4>3
        <4> QED
          BY <4>2, <4>3
      <3> QED
        BY <2>9, <3>1, <3>2
    <2>13. AdmittedCounted'
      <3> SUFFICES ASSUME NEW g \in Groups
                   PROVE  LET chain == m_groupNames'[GroupBucket[g]] IN
                          admitted'[g] = IF chain # << >> /\ Head(chain).m_groupName = g
                                         THEN Head(chain).m_numOfPartic ELSE 0
        BY DEF AdmittedCounted
      <3>1. CASE g = g0
        BY <2>6, <2>8, <3>1
      <3>2. CASE g # g0
        <4>1. admitted'[g] = admitted[g]
          BY <2>1, <2>7, <3>2, AppTypeParts
        <4>2. CASE GroupBucket[g] = a
          <5>1. admitted[g] = 0
            BY <2>2, <2>3, <3>2, <4>2 DEF AppInv, AdmittedCounted, c
          <5> QED
            BY <2>6, <3>2, <4>1, <4>2, <5>1
        <4>3. CASE GroupBucket[g] # a
          <5>1. m_groupNames'[GroupBucket[g]] = m_groupNames[GroupBucket[g]]
            BY <2>5, <2>11, <4>3
          <5> QED
            BY <4>1, <5>1 DEF AppInv, AdmittedCounted
        <4> QED
          BY <4>2, <4>3
      <3> QED
        BY <3>1, <3>2
    <2>14. RegisteredStored'
      BY <1>1, <1>2 DEF AppInv, RegisteredStored
    <2>15. GroupsInOwnBucket'
      BY <2>1, <2>5, <2>6 DEF AppInv, GroupsInOwnBucket
    <2> QED
      BY <1>2, <2>10, <2>12, <2>13, <2>14, <2>15 DEF AppInv
  <1> QED
    BY <1>1, <1>3, <1>4, JoinEffect

\* A departure finds no user, so nothing is stored, told or counted.
LEMMA LeaveAppInv ==
  ASSUME AppInv, NEW msg \in GroupMsgs, Leave(msg)
  PROVE  AppInv'
  <1>1. /\ Try_to_Leave_To_Group(msg) /\ registered' = registered /\ told' = told
        /\ m_buffer_rcv'.m_type = "LEAVE_CONVERSATION_REQ"
        /\ answer'.m_type = "LEAVE_CONVERSATION_ANS"
        /\ answer'.m_groupIP = dbRes'.ipAddr
        /\ Count(msg, "DB_GROUP_REMOVE_SUCCESSFULLY", -1)
    BY ReplyFields DEF Leave, Request
  <1>2. /\ UNCHANGED <<m_userNames, m_groupNames>>
        /\ dbRes' = [err |-> "DB_GROUP_NAME_NOT_EXIST", ipAddr |-> NULL]
    BY <1>1, LeaveEffect
  <1>3. DBInv' /\ admitted' = admitted
    BY <1>1, <1>2, LeaveGroupDBInv DEF AppInv, Count
  <1> QED
    BY <1>1, <1>2, <1>3, RefusedAppInv DEF AnswerTypes, GroupReqs

\* A stutter: the loop is between two requests.
LEMMA UnchangedAppInv ==
  ASSUME AppInv, UNCHANGED appVars
  PROVE  AppInv'
  <1>1. UNCHANGED <<m_userNames, m_groupNames, m_addIPPool, dbRes, m_buffer_rcv,
                    answer, registered, told, admitted>>
    BY DEF appVars
  <1>2. DBInv'
    BY <1>1, StepDBInv DEF AppInv, dbVars
  <1>3. TypeOK'
    BY <1>1, <1>2, AppTypeParts DEF AppInv, TypeOK, DBInv
  <1>4. ToldStored' /\ AdmittedCounted' /\ RegisteredStored' /\ GroupsInOwnBucket'
    BY <1>1 DEF AppInv, ToldStored, AdmittedCounted, RegisteredStored, GroupsInOwnBucket
  <1> QED
    BY <1>2, <1>3, <1>4 DEF AppInv

\* Every case of the switch in GetFromClientAndSendToServer keeps the invariant.
LEMMA StepAppInv == AppInv /\ [GetFromClientAndSendToServer]_appVars => AppInv'
  BY RegisterAppInv, LoginAppInv, CreateAppInv, JoinAppInv, LeaveAppInv, UnchangedAppInv
     DEF GetFromClientAndSendToServer

\* The invariant holds from CreateMainDataBase on, after every request.
LEMMA AlwaysAppInv == Spec => []AppInv
  BY InitAppInv, StepAppInv, PTL DEF Spec
-----------------------------------------------------------------------------
\* The buffer, the answers and the data base keep their types
\* (GetFromClientAndSendToServer and all it calls).
THEOREM TypeCorrect == Spec => []TypeOK
  BY AlwaysAppInv, PTL DEF AppInv

\* Whatever clients request, no bucket of the two maps holds a second entry,
\* groups have different addresses as long as the pool had one for each, and
\* the pool accounts for them (HashMap_Insert, Check_Group_Name_And_Insert,
\* GetIPAddress).
THEOREM MapsAndPool ==
  Spec => [](OneEntryPerBucket /\ GroupAddressesDistinct /\ PoolAccountsForGroups)
  <1>1. AppInv => OneEntryPerBucket /\ GroupAddressesDistinct /\ PoolAccountsForGroups
    BY DEF AppInv, DBInv
  <1> QED
    BY <1>1, AlwaysAppInv, PTL

\* No bucket of the server's two maps ever holds a second entry, since a key
\* that is stored reads like the name that is looked up (HashMap_Insert).
THEOREM BucketsHoldOne == Spec => []OneEntryPerBucket
  BY MapsAndPool, PTL

\* The pool is short of one address for each group, however far its count has
\* wrapped (GetIPAddress, Check_Group_Name_And_Insert).
THEOREM PoolAccounts == Spec => []PoolAccountsForGroups
  BY MapsAndPool, PTL

\* A login reads what IsUserNameUnique stored: a name and password answered
\* REGISTER_SUCCESS stay known, under that name and with that password.
THEOREM RegistrationLasts == Spec => []RegisteredIsKnown
  <1>1. AppInv => RegisteredIsKnown
    <2> SUFFICES ASSUME AppInv, NEW r \in registered
                 PROVE  LoginOutcome([m_userName |-> r[1], m_password |-> r[2]])
                          \notin {"DB_WORNG_USER_NAME", "DB_WORNG_PSW"}
      BY DEF RegisteredIsKnown
    <2> DEFINE msg == [m_userName |-> r[1], m_password |-> r[2]]
    <2>1. msg \in UserMsgs /\ msg.m_userName = r[1] /\ msg.m_password = r[2]
      BY AppTypeParts DEF UserMsgs
    <2> HIDE DEF msg
    <2>2. /\ UserChain(msg.m_userName) # << >>
          /\ Head(UserChain(msg.m_userName)).m_status = "DISCONNECT"
          /\ Head(UserChain(msg.m_userName)).m_psw = msg.m_password
      BY <2>1 DEF AppInv, RegisteredStored, UserChain
    <2>3. FindUser(msg)
      BY <2>1, <2>2, UserKeyReads DEF FindUser, Found
    <2>4. LoginOutcome(msg) = "DB_CONNECT_SUCCESFULLY"
      BY <2>2, <2>3 DEF LoginOutcome, FoundUser
    <2> QED
      BY <2>4 DEF msg
  <1> QED
    BY <1>1, AlwaysAppInv, PTL

\* IsUserNameUnique answers UNIQE once for a name.
THEOREM RegisteredOnce == Spec => NoSecondRegistration
  <1>1. ASSUME AppInv, GetFromClientAndSendToServer,
               m_buffer_rcv'.m_type = "REGISTER_REQ", dbRes'.err = "UNIQE",
               NEW r \in registered
        PROVE  r[1] # m_buffer_rcv'.m_body.m_userName
    <2>1. PICK msg \in UserMsgs : Register(msg)
      BY <1>1 DEF GetFromClientAndSendToServer, Login, Create, Join, Leave, Request
    <2>2. UserAdded(msg) /\ m_buffer_rcv'.m_body = msg
      BY <1>1, <2>1, UniqueIsAdded DEF Register, Request
    <2>3. m_userNames[UserBucket[r[1]]] # << >>
      BY <1>1 DEF AppInv, RegisteredStored
    <2> QED
      BY <2>2, <2>3 DEF UserAdded, UserChain
  <1>2. AppInv /\ [GetFromClientAndSendToServer]_appVars
          => [ (m_buffer_rcv'.m_type = "REGISTER_REQ" /\ dbRes'.err = "UNIQE")
                 => \A r \in registered : r[1] # m_buffer_rcv'.m_body.m_userName ]_appVars
    BY <1>1
  <1> QED
    BY <1>2, AlwaysAppInv, PTL DEF Spec, NoSecondRegistration

\* Everybody told an address of a group by Check_Group_Name_And_Insert or
\* Try_to_Join_To_Group was told the same one.
THEOREM OneAddressPerGroup == Spec => []MembersShareAddress
  <1>1. AppInv => MembersShareAddress
    BY DEF AppInv, ToldStored, MembersShareAddress
  <1> QED
    BY <1>1, AlwaysAppInv, PTL

\* Clients told of different groups never share an address while the pool had
\* one for each group: an address told is the address of the group's entry,
\* and two groups with entries are in two buckets.
THEOREM GroupsApart == Spec => []GroupsKeptApart
  <1>1. AppInv => GroupsKeptApart
    <2> SUFFICES ASSUME AppInv, Cardinality(OccupiedBuckets) <= Capacity,
                        NEW s \in told, NEW t \in told, s[2] = t[2]
                 PROVE  s[1] = t[1]
      BY DEF GroupsKeptApart
    <2> DEFINE b == GroupBucket[s[1]]
               c == GroupBucket[t[1]]
    <2>1. b \in Buckets /\ c \in Buckets
      BY AppTypeParts, BucketAssumption
    <2>2. /\ m_groupNames[b] # << >> /\ Head(m_groupNames[b]).m_groupName = s[1]
          /\ Head(m_groupNames[b]).m_ip_add_group = s[2]
          /\ m_groupNames[c] # << >> /\ Head(m_groupNames[c]).m_groupName = t[1]
          /\ Head(m_groupNames[c]).m_ip_add_group = t[2]
      BY DEF AppInv, ToldStored
    <2>3. ASSUME NEW d \in Buckets, m_groupNames[d] # << >>
          PROVE  1 \in DOMAIN m_groupNames[d] /\ m_groupNames[d][1] = Head(m_groupNames[d])
      <3>1. m_groupNames[d] \in Seq(GroupValues)
        BY AppTypeParts
      <3>2. 1 \in 1 .. Len(m_groupNames[d]) /\ DOMAIN m_groupNames[d] = 1 .. Len(m_groupNames[d])
        BY <2>3, <3>1, EmptySeq, LenProperties
      <3> QED
        BY <2>3, <3>1, <3>2
    <2> HIDE DEF b, c
    <2>4. b = c
      BY <2>1, <2>2, <2>3 DEF AppInv, DBInv, GroupAddressesDistinct
    <2> QED
      BY <2>2, <2>4
  <1> QED
    BY <1>1, AlwaysAppInv, PTL

\* The participants of a group are the admissions answered under its name
\* (m_numOfPartic in Check_Group_Name_And_Insert and Try_to_Join_To_Group).
THEOREM ParticipantsAreAdmissions == Spec => []ParticipantsAdmitted
  <1>1. AppInv => ParticipantsAdmitted
    <2> SUFFICES ASSUME AppInv, NEW b \in Buckets, NEW i \in DOMAIN m_groupNames[b]
                 PROVE  m_groupNames[b][i].m_numOfPartic
                          = admitted[m_groupNames[b][i].m_groupName]
      BY DEF ParticipantsAdmitted
    <2>1. /\ m_groupNames[b] \in Seq(GroupValues)
          /\ i \in 1 .. Len(m_groupNames[b]) /\ Len(m_groupNames[b]) \in Nat
      BY AppTypeParts, LenProperties
    <2>2. i = 1 /\ m_groupNames[b] # << >>
      BY <2>1, EmptySeq DEF AppInv, DBInv, OneEntryPerBucket
    <2> DEFINE v == m_groupNames[b][1]
    <2>3. Head(m_groupNames[b]) = v /\ v \in GroupValues
      BY <2>1, <2>2, ElementOfSeq
    <2>4. v.m_groupName \in Groups /\ GroupBucket[v.m_groupName] = b
      BY <2>2, <2>3 DEF AppInv, GroupsInOwnBucket, GroupValues
    <2>5. admitted[v.m_groupName] = v.m_numOfPartic
      BY <2>2, <2>3, <2>4 DEF AppInv, AdmittedCounted
    <2> QED
      BY <2>2, <2>5
  <1> QED
    BY <1>1, AlwaysAppInv, PTL
=============================================================================
