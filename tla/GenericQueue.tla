---------------------------- MODULE GenericQueue ----------------------------
(***************************************************************************)
(* One queue of GenericQueue/GenericQueue.c and its caller.  The caller is *)
(* what the header leaves open: any sequence of insertions, emptiness      *)
(* tests, removals and at the end a destruction.  Spec is a caller that    *)
(* removes only from a queue that QueueIsEmpty does not report empty.      *)
(***************************************************************************)
EXTENDS GenericQueueOps, Sequences

CONSTANTS Size,    \* the argument of QueueCreate
          Items    \* the items a caller inserts

ASSUME SizeAssumption == ValidSize(Size)
ASSUME ItemsAssumption == NULL \notin Items

VARIABLES queue,   \* the struct Queue
          live,    \* FALSE once QueueDestroy has cleared the queue
          reply,   \* what the last call returned: error code and item
          freed    \* the items QueueDestroy passed to free()

vars == <<queue, live, reply, freed>>

\* The items inside, oldest first.
Contents == [i \in 1 .. queue.m_nItems |->
               queue.m_queueArray[(queue.m_head + i - 1) % queue.m_size]]

Init ==
  /\ queue = QueueCreate(Size)
  /\ live = TRUE
  /\ reply = [err |-> "QERR_OK", item |-> NULL]
  /\ freed = {}

Insert(x) ==
  LET r == QueueInsert(queue, x) IN
  /\ live
  /\ queue' = r.queue
  /\ reply' = [err |-> r.err, item |-> r.item]
  /\ UNCHANGED <<live, freed>>

Remove ==
  LET r == QueueRemove(queue) IN
  /\ live
  /\ ~QueueIsEmpty(queue)
  /\ queue' = r.queue
  /\ reply' = [err |-> r.err, item |-> r.item]
  /\ UNCHANGED <<live, freed>>

Destroy ==
  /\ live
  /\ live' = FALSE
  /\ freed' = {queue.m_queueArray[i] : i \in SlotsDestroyed(queue)}
  /\ UNCHANGED <<queue, reply>>

Next == (\E x \in Items : Insert(x)) \/ Remove \/ Destroy

Spec == Init /\ [][Next]_vars
-----------------------------------------------------------------------------
QueueType ==
  [m_queueArray : [0 .. Size - 1 -> Items \cup {NULL}],
   m_size : {Size}, m_head : 0 .. Size - 1, m_tail : 0 .. Size - 1,
   m_nItems : 0 .. Size]

\* Every field keeps its type, and the count never wraps or passes the size.
TypeOK ==
  /\ queue \in QueueType
  /\ live \in BOOLEAN
  /\ reply \in [err : {"QERR_OK", "QERR_OVERFLOW"}, item : Items \cup {NULL}]
  /\ freed \subseteq Items \cup {NULL}

\* The tail is m_nItems slots past the head, round the array.
TailFollowsHead ==
  queue.m_tail = (queue.m_head + queue.m_nItems) % Size

\* The array, head, tail and count together are a first-in first-out queue:
\* insertions append or are refused when full, removals return the oldest
\* item, and no item is lost, repeated or overtaken when the indices wrap.
Fifo == INSTANCE BoundedFifo WITH
  Capacity <- Size, NoItem <- NULL, contents <- Contents, reply <- reply

ImplementsFifo == Fifo!Spec
=============================================================================
