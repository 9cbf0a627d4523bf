-------------------------- MODULE GenericQueueProofs --------------------------
(***************************************************************************)
(* Proofs about the circular queue, for every size, item set and width of  *)
(* size_t.  The emptiness test reads the count and the two indices, so its *)
(* answer is right only as long as the tail follows the head: TypeOK and   *)
(* TailFollowsHead are inductive together and neither is alone.            *)
(***************************************************************************)
EXTENDS GenericQueue, RoundArithmetic, SequenceTheorems, TLAPS

\* The sizes QueueCreate accepts, as plain numbers.
LEMMA SizeFacts ==
  /\ Size \in Nat /\ SizeT \in Nat
  /\ 2 <= Size /\ Size < SizeT
  BY SizeAssumption, SizeTAssumption DEF ValidSize

\* What the two indices and the count are, field by field.
IInv == TypeOK /\ TailFollowsHead

\* QueueCreate leaves an empty queue with both indices at slot 0.
LEMMA InitIInv == Init => IInv
  <1>1. 0 % Size = 0
    BY SizeFacts, OneTurn
  <1> QED
    BY <1>1, SizeFacts DEF Init, IInv, TypeOK, TailFollowsHead, QueueType, QueueCreate

\* An accepted insertion moves the tail one slot on and counts one item more;
\* a refused one changes nothing.
LEMMA InsertIInv ==
  ASSUME IInv, NEW x \in Items, Insert(x)
  PROVE  IInv'
  <1> DEFINE full == queue.m_nItems = Size
  <1>1. /\ queue \in QueueType /\ x # NULL /\ queue.m_size = Size
        /\ queue.m_tail = (queue.m_head + queue.m_nItems) % Size
    BY ItemsAssumption DEF IInv, TypeOK, QueueType, TailFollowsHead
  <1>2. live' = live /\ freed' = freed
    BY DEF Insert
  <1>3. CASE full
    <2>1. QueueInsert(queue, x) = Failed(queue, "QERR_OVERFLOW")
      BY <1>1, <1>3 DEF QueueInsert
    <2>2. queue' = queue /\ reply' = [err |-> "QERR_OVERFLOW", item |-> NULL]
      BY <2>1 DEF Insert, Failed
    <2> QED
      BY <1>2, <2>2 DEF IInv, TypeOK, TailFollowsHead
  <1>4. CASE ~full
    <2>1. queue.m_nItems + 1 \in 0 .. SizeT - 1 /\ queue.m_nItems + 1 <= Size
      BY <1>1, <1>4, SizeFacts DEF QueueType
    <2>2. (queue.m_nItems + 1) % SizeT = queue.m_nItems + 1
      BY <2>1, SizeFacts, OneTurn
    <2>3. /\ queue' = [m_queueArray |-> [queue.m_queueArray EXCEPT ![queue.m_tail] = x],
                       m_size |-> Size, m_head |-> queue.m_head,
                       m_tail |-> (queue.m_tail + 1) % Size,
                       m_nItems |-> queue.m_nItems + 1]
          /\ reply' = [err |-> "QERR_OK", item |-> NULL]
      BY <1>1, <1>4, <2>2 DEF Insert, QueueInsert, QueueType
    <2>4. /\ queue.m_tail \in 0 .. Size - 1
          /\ (queue.m_tail + 1) % Size \in 0 .. Size - 1
          /\ [queue.m_queueArray EXCEPT ![queue.m_tail] = x]
               \in [0 .. Size - 1 -> Items \cup {NULL}]
      <3>1. queue.m_tail \in 0 .. Size - 1 /\ Size \in Nat \ {0}
        BY <1>1, SizeFacts DEF QueueType
      <3>2. (queue.m_tail + 1) % Size \in 0 .. Size - 1
        BY <3>1
      <3> QED
        BY <1>1, <3>1, <3>2 DEF QueueType
    <2>5. queue' \in QueueType
      BY <1>1, <2>1, <2>3, <2>4, SizeFacts DEF QueueType
    <2>6. (queue.m_tail + 1) % Size = (queue.m_head + (queue.m_nItems + 1)) % Size
      <3>1. queue.m_head \in 0 .. Size - 1 /\ queue.m_nItems \in 0 .. Size - 1
        BY <1>1, <1>4, SizeFacts DEF QueueType
      <3>2. (((queue.m_head + queue.m_nItems) % Size) + 1) % Size
              = (queue.m_head + (queue.m_nItems + 1)) % Size
        <4>1. Size \in Nat \ {0}
          BY SizeFacts
        <4> QED
          BY <3>1, <4>1, TailAfterInsert
      <3> QED
        BY <1>1, <3>2
    <2>7. TailFollowsHead'
      BY <1>1, <2>3, <2>6, SizeFacts DEF TailFollowsHead, QueueType
    <2> QED
      BY <1>2, <2>3, <2>5, <2>7 DEF IInv, TypeOK
  <1> QED
    BY <1>3, <1>4

\* The emptiness test is the count's: the two indices agree with it.
LEMMA EmptyIsNoItems ==
  ASSUME IInv
  PROVE  QueueIsEmpty(queue) <=> queue.m_nItems = 0
  <1>1. /\ queue.m_head \in 0 .. Size - 1 /\ Size \in Nat \ {0}
        /\ queue.m_tail = (queue.m_head + queue.m_nItems) % Size
    BY SizeFacts DEF IInv, TypeOK, QueueType, TailFollowsHead
  <1>2. (queue.m_head + 0) % Size = queue.m_head
    BY <1>1
  <1> QED
    BY <1>1, <1>2 DEF QueueIsEmpty

\* A removal from a queue with items moves the head one slot on, and the count
\* it takes down is not zero.
LEMMA RemoveIInv ==
  ASSUME IInv, Remove
  PROVE  IInv'
  <1>1. /\ queue \in QueueType /\ queue.m_size = Size /\ Size \in Nat \ {0}
        /\ queue.m_tail = (queue.m_head + queue.m_nItems) % Size
    BY SizeFacts DEF IInv, TypeOK, QueueType, TailFollowsHead
  <1>2. queue.m_head \in 0 .. Size - 1 /\ queue.m_nItems \in 1 .. Size
    BY <1>1, EmptyIsNoItems DEF Remove, QueueType
  <1>3. (queue.m_nItems + SizeT - 1) % SizeT = queue.m_nItems - 1
    BY <1>2, SizeFacts
  <1>4. /\ queue' = [m_queueArray |-> queue.m_queueArray, m_size |-> Size,
                     m_head |-> (queue.m_head + 1) % Size,
                     m_tail |-> queue.m_tail,
                     m_nItems |-> queue.m_nItems - 1]
        /\ reply' = [err |-> "QERR_OK", item |-> queue.m_queueArray[queue.m_head]]
        /\ live' = live /\ freed' = freed
    BY <1>1, <1>3 DEF Remove, QueueRemove, QueueType
  <1>5. (queue.m_head + 1) % Size \in 0 .. Size - 1
    BY <1>1, <1>2
  <1>6. queue' \in QueueType
    <2>1. /\ queue.m_queueArray \in [0 .. Size - 1 -> Items \cup {NULL}]
          /\ queue.m_tail \in 0 .. Size - 1
          /\ queue.m_nItems - 1 \in 0 .. Size
      BY <1>1, <1>2 DEF QueueType
    <2> QED
      BY <1>4, <1>5, <2>1 DEF QueueType
  <1>7. reply' \in [err : {"QERR_OK", "QERR_OVERFLOW"}, item : Items \cup {NULL}]
    BY <1>1, <1>2, <1>4 DEF QueueType
  <1>8. TailFollowsHead'
    BY <1>1, <1>2, <1>4, TailAfterRemove DEF TailFollowsHead
  <1> QED
    BY <1>4, <1>6, <1>7, <1>8 DEF IInv, TypeOK

\* QueueDestroy leaves the struct as it was: only the memory is given back.
LEMMA DestroyIInv ==
  ASSUME IInv, Destroy
  PROVE  IInv'
  <1>1. queue' = queue /\ reply' = reply /\ live' = FALSE
    BY DEF Destroy
  <1>2. freed' \subseteq Items \cup {NULL}
    <2>1. /\ queue.m_queueArray \in [0 .. Size - 1 -> Items \cup {NULL}]
          /\ SlotsDestroyed(queue) \subseteq 0 .. Size - 1
      BY DEF IInv, TypeOK, QueueType, SlotsDestroyed
    <2>2. \A i \in SlotsDestroyed(queue) : queue.m_queueArray[i] \in Items \cup {NULL}
      BY <2>1
    <2> QED
      BY <2>2 DEF Destroy
  <1> QED
    BY <1>1, <1>2 DEF IInv, TypeOK, TailFollowsHead

\* The fields keep their ranges and the tail stays m_nItems slots past the
\* head (QueueInsert, QueueRemove and QueueIsEmpty of GenericQueue.c), however
\* often the indices have wrapped.
THEOREM QueueInvariant == Spec => [](TypeOK /\ TailFollowsHead)
  <1>1. Init => IInv
    BY InitIInv
  <1>2. IInv /\ [Next]_vars => IInv'
    <2>1. ASSUME IInv, Next PROVE IInv'
      BY <2>1, InsertIInv, RemoveIInv, DestroyIInv DEF Next
    <2>2. ASSUME IInv, UNCHANGED vars PROVE IInv'
      BY <2>2 DEF IInv, TypeOK, TailFollowsHead, vars
    <2> QED
      BY <2>1, <2>2
  <1>3. IInv => TypeOK /\ TailFollowsHead
    BY DEF IInv
  <1> QED
    BY <1>1, <1>2, <1>3, PTL DEF Spec

\* The fields keep their types, and the size_t count never wraps
\* (GenericQueue.c:95, 116), whatever the size.
THEOREM TypeCorrect == Spec => []TypeOK
  BY QueueInvariant, PTL
-----------------------------------------------------------------------------
(***************************************************************************)
(* The queue implements BoundedFifo with Contents for its contents.        *)
(***************************************************************************)
\* The items between m_head and m_tail form a sequence of m_nItems items.
LEMMA ContentsType ==
  ASSUME IInv
  PROVE  /\ Contents \in Seq(Items \cup {NULL})
         /\ Len(Contents) = queue.m_nItems
  <1>1. /\ queue \in QueueType /\ queue.m_size = Size /\ Size \in Nat \ {0}
        /\ queue.m_nItems \in Nat /\ queue.m_head \in 0 .. Size - 1
    BY SizeFacts DEF IInv, TypeOK, QueueType
  <1>2. ASSUME NEW i \in 1 .. queue.m_nItems
        PROVE  queue.m_queueArray[(queue.m_head + i - 1) % queue.m_size]
                 \in Items \cup {NULL}
    <2>1. queue.m_head + i - 1 \in Nat
      BY <1>1
    <2>2. (queue.m_head + i - 1) % Size \in 0 .. Size - 1
      BY <1>1, <2>1
    <2> QED
      BY <1>1, <2>2 DEF QueueType
  <1>3. /\ Contents \in [1 .. queue.m_nItems -> Items \cup {NULL}]
        /\ DOMAIN Contents = 1 .. queue.m_nItems
    BY <1>2 DEF Contents
  <1>4. Contents \in Seq(Items \cup {NULL})
    BY <1>1, <1>3, SeqDef
  <1> QED
    BY <1>1, <1>3, <1>4, LenProperties

\* Append, slot by slot: what QueueInsert's result is compared with.
LEMMA AppendAsFunction ==
  ASSUME NEW S, NEW s \in Seq(S), NEW e \in S
  PROVE  Append(s, e)
           = [i \in 1 .. Len(s) + 1 |-> IF i = Len(s) + 1 THEN e ELSE s[i]]
  <1> DEFINE a == Append(s, e)
             n == Len(s)
             f == [i \in 1 .. n + 1 |-> IF i = n + 1 THEN e ELSE s[i]]
  <1>1. n \in Nat
    BY LenProperties
  <1>2. /\ a \in Seq(S) /\ Len(a) = n + 1
        /\ \A i \in 1 .. n : a[i] = s[i]
        /\ a[n + 1] = e
    BY AppendProperties
  <1>3. a \in [1 .. n + 1 -> S]
    BY <1>2, LenProperties
  <1> HIDE DEF a, n
  <1>4. \A i \in 1 .. n + 1 : a[i] = f[i]
    BY <1>1, <1>2
  <1>5. a = f
    BY <1>3, <1>4
  <1> QED
    BY <1>5 DEF a, n

\* Tail, slot by slot: what QueueRemove's result is compared with.
LEMMA TailAsFunction ==
  ASSUME NEW S, NEW s \in Seq(S), s # << >>
  PROVE  Tail(s) = [i \in 1 .. Len(s) - 1 |-> s[i + 1]]
  BY HeadTailProperties, LenProperties, EmptySeq

\* An accepted insertion appends: no item inside is overwritten.
LEMMA InsertSimulates ==
  ASSUME IInv, NEW x \in Items, Insert(x)
  PROVE  Fifo!Put(x) \/ Fifo!Refuse
  <1>1. /\ queue \in QueueType /\ x # NULL /\ queue.m_size = Size
        /\ Size \in Nat \ {0}
        /\ queue.m_tail = (queue.m_head + queue.m_nItems) % Size
    BY ItemsAssumption, SizeFacts DEF IInv, TypeOK, QueueType, TailFollowsHead
  <1>2. CASE queue.m_nItems = Size
    <2>1. queue' = queue /\ reply' = [err |-> "QERR_OVERFLOW", item |-> NULL]
      BY <1>1, <1>2 DEF Insert, QueueInsert, Failed
    <2> QED
      BY <1>2, <2>1, ContentsType DEF Fifo!Refuse, Contents
  <1>3. CASE queue.m_nItems # Size
    <2> DEFINE h == queue.m_head
               k == queue.m_nItems
    <2>1. h \in 0 .. Size - 1 /\ k \in 0 .. Size - 1
      BY <1>1, <1>3, SizeFacts DEF QueueType
    <2>2. (k + 1) % SizeT = k + 1
      BY <2>1, SizeFacts
    <2>3. /\ queue'.m_queueArray = [queue.m_queueArray EXCEPT ![queue.m_tail] = x]
          /\ queue'.m_size = Size /\ queue'.m_head = h /\ queue'.m_nItems = k + 1
          /\ reply' = [err |-> "QERR_OK", item |-> NULL]
      BY <1>1, <1>3, <2>2 DEF Insert, QueueInsert, QueueType
    <2>4. queue.m_tail \in 0 .. Size - 1
      BY <1>1 DEF IInv, TypeOK, QueueType
    <2>5. ASSUME NEW i \in 1 .. k
          PROVE  queue'.m_queueArray[(h + i - 1) % Size]
                   = queue.m_queueArray[(h + i - 1) % Size]
      <3>1. (h + i - 1) % Size # queue.m_tail
        BY <1>1, <2>1, TailSlotIsFree
      <3>2. (h + i - 1) % Size \in 0 .. Size - 1
        BY <1>1, <2>1
      <3> QED
        BY <1>1, <2>3, <3>1, <3>2 DEF QueueType
    <2>6. queue'.m_queueArray[(h + (k + 1) - 1) % Size] = x
      <3>1. h + (k + 1) - 1 = h + k
        BY <2>1
      <3> QED
        BY <1>1, <2>3, <2>4, <3>1 DEF QueueType
    <2>7. Contents' = Append(Contents, x)
      <3>1. Contents' = [i \in 1 .. k + 1 |-> queue'.m_queueArray[(h + i - 1) % Size]]
        BY <2>3 DEF Contents
      <3>2. Append(Contents, x) = [i \in 1 .. k + 1 |-> IF i = k + 1 THEN x ELSE Contents[i]]
        BY <2>1, ContentsType, AppendAsFunction
      <3>3. ASSUME NEW i \in 1 .. k + 1
            PROVE  queue'.m_queueArray[(h + i - 1) % Size]
                     = IF i = k + 1 THEN x ELSE Contents[i]
        <4>1. CASE i = k + 1
          BY <2>6, <4>1
        <4>2. CASE i # k + 1
          <5>1. i \in 1 .. k
            BY <2>1, <4>2
          <5>2. Contents[i] = queue.m_queueArray[(h + i - 1) % Size]
            BY <1>1, <2>1, <5>1 DEF Contents
          <5>3. queue'.m_queueArray[(h + i - 1) % Size]
                  = queue.m_queueArray[(h + i - 1) % Size]
            BY <2>5, <5>1
          <5>4. queue'.m_queueArray[(h + i - 1) % Size] = Contents[i]
            BY <5>2, <5>3
          <5> QED
            BY <4>2, <5>4
        <4> QED
          BY <4>1, <4>2
      <3> QED
        BY <3>1, <3>2, <3>3
    <2>8. Len(Contents) < Size
      BY <1>1, <2>1, ContentsType
    <2>9. reply' = [err |-> "QERR_OK", item |-> NULL]
      BY <2>3
    <2> QED
      BY <2>7, <2>8, <2>9 DEF Fifo!Put
  <1> QED
    BY <1>2, <1>3

\* A removal hands out the oldest item: the slot at the head is Contents[1],
\* and the slots after it are those of the other items.
LEMMA RemoveSimulates ==
  ASSUME IInv, Remove
  PROVE  Fifo!Take
  <1> DEFINE h == queue.m_head
             k == queue.m_nItems
  <1>1. /\ queue \in QueueType /\ queue.m_size = Size /\ Size \in Nat \ {0}
        /\ h \in 0 .. Size - 1 /\ k \in 1 .. Size
    BY SizeFacts, EmptyIsNoItems DEF IInv, TypeOK, QueueType, Remove
  <1>2. (k + SizeT - 1) % SizeT = k - 1
    BY <1>1, SizeFacts
  <1>3. /\ queue'.m_queueArray = queue.m_queueArray
        /\ queue'.m_size = Size
        /\ queue'.m_head = (h + 1) % Size
        /\ queue'.m_nItems = k - 1
    BY <1>1, <1>2 DEF Remove, QueueRemove, QueueType
  <1>4. reply' = [err |-> "QERR_OK", item |-> queue.m_queueArray[h]]
    BY <1>1 DEF Remove, QueueRemove
  <1>5. Contents \in Seq(Items \cup {NULL}) /\ Len(Contents) = k /\ Contents # << >>
    BY <1>1, ContentsType
  <1>6. Head(Contents) = queue.m_queueArray[h]
    <2>1. (h + 1 - 1) % Size = h
      BY <1>1
    <2>2. Contents[1] = queue.m_queueArray[(h + 1 - 1) % Size]
      BY <1>1 DEF Contents
    <2> QED
      BY <1>5, <2>1, <2>2
  <1>7. Contents' = Tail(Contents)
    <2>1. Contents' = [i \in 1 .. k - 1 |-> queue.m_queueArray[(((h + 1) % Size) + i - 1) % Size]]
      BY <1>3 DEF Contents
    <2>2. Tail(Contents) = [i \in 1 .. k - 1 |-> Contents[i + 1]]
      BY <1>1, <1>5, TailAsFunction
    <2>3. ASSUME NEW i \in 1 .. k - 1
          PROVE  queue.m_queueArray[(((h + 1) % Size) + i - 1) % Size] = Contents[i + 1]
      <3>1. i \in 1 .. Size /\ i + 1 \in 1 .. k
        BY <1>1
      <3>2. (h + i) % Size = (((h + 1) % Size) + (i - 1)) % Size
        BY <1>1, <3>1, TailAfterRemove
      <3>3. (h + 1) % Size \in Nat
        BY <1>1
      <3>4. ((h + 1) % Size) + (i - 1) = ((h + 1) % Size) + i - 1 /\ h + (i + 1) - 1 = h + i
        BY <1>1, <3>3
      <3>5. Contents[i + 1] = queue.m_queueArray[(h + (i + 1) - 1) % Size]
        BY <1>1, <3>1 DEF Contents
      <3> QED
        BY <3>2, <3>4, <3>5
    <2> QED
      BY <2>1, <2>2, <2>3
  <1> QED
    BY <1>4, <1>5, <1>6, <1>7 DEF Fifo!Take

\* The queue of GenericQueue.c is a bounded first-in first-out queue, for every
\* size: nothing is lost, repeated or overtaken when the indices wrap.
THEOREM QueueIsFifo == Spec => ImplementsFifo
  <1>1. Init => Fifo!Init
    <2> SUFFICES ASSUME Init PROVE Fifo!Init
      OBVIOUS
    <2>1. Contents \in Seq(Items \cup {NULL}) /\ Len(Contents) = 0
      BY InitIInv, ContentsType DEF Init, QueueCreate
    <2> QED
      BY <2>1 DEF Init, Fifo!Init
  <1>2. IInv /\ [Next]_vars => [Fifo!Next]_(Fifo!vars)
    <2>1. ASSUME IInv, NEW x \in Items, Insert(x) PROVE Fifo!Next
      BY <2>1, InsertSimulates DEF Fifo!Next
    <2>2. ASSUME IInv, Remove PROVE Fifo!Next
      BY <2>2, RemoveSimulates DEF Fifo!Next
    <2>3. ASSUME Destroy \/ UNCHANGED vars PROVE UNCHANGED Fifo!vars
      BY <2>3 DEF Destroy, vars, Fifo!vars, Contents
    <2> QED
      BY <2>1, <2>2, <2>3 DEF Next
  <1>3. Spec => []IInv
    BY QueueInvariant, PTL DEF IInv
  <1> QED
    BY <1>1, <1>2, <1>3, PTL DEF Spec, ImplementsFifo, Fifo!Spec
=============================================================================
