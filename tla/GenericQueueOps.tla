-------------------------- MODULE GenericQueueOps --------------------------
(***************************************************************************)
(* The circular queue of GenericQueue/GenericQueue.c as operators on a     *)
(* queue record.  The fields are those of struct Queue; a size_t counter   *)
(* is a number modulo SizeT.  A call returns a record of its error code,   *)
(* the item it hands out and the queue it leaves behind.                   *)
(***************************************************************************)
EXTENDS Naturals

CONSTANTS SizeT,   \* number of values of a size_t: 2^64 in the build
          NULL     \* the null pointer, what calloc leaves in a slot

ASSUME SizeTAssumption == SizeT \in Nat \ {0}

\* Sizes QueueCreate accepts: 0 and 1 return NULL.
ValidSize(size) == size \in 2 .. SizeT - 1

\* m_head, m_tail and m_nItems are not assigned by the code: they are what
\* the fresh heap block holds, which is zero at the server's start.
QueueCreate(size) ==
  [m_queueArray |-> [i \in 0 .. size - 1 |-> NULL],
   m_size |-> size, m_head |-> 0, m_tail |-> 0, m_nItems |-> 0]

Failed(q, code) == [err |-> code, item |-> NULL, queue |-> q]

\* Defect: the overflow test one too late, a full queue takes one more item.
DefectInsertPastFull(q, x) ==
  [err   |-> IF q.m_nItems > q.m_size THEN "QERR_OVERFLOW" ELSE "QERR_OK",
   item  |-> NULL,
   queue |-> [q EXCEPT !.m_queueArray[q.m_tail] = x,
                       !.m_tail = (q.m_tail + 1) % q.m_size,
                       !.m_nItems = (q.m_nItems + 1) % SizeT]]

QueueInsert(q, x) ==
  IF x = NULL THEN Failed(q, "QERR_NOT_INITIALIZED")
  ELSE IF q.m_nItems = q.m_size THEN Failed(q, "QERR_OVERFLOW")
  ELSE [err   |-> "QERR_OK",
        item  |-> NULL,
        queue |-> [q EXCEPT !.m_queueArray[q.m_tail] = x,
                            !.m_tail = (q.m_tail + 1) % q.m_size,
                            !.m_nItems = (q.m_nItems + 1) % SizeT]]

\* Defect: the removal hands out the item but leaves m_head where it is.
DefectRemoveKeepsHead(q) ==
  [err   |-> "QERR_OK",
   item  |-> q.m_queueArray[q.m_head],
   queue |-> [q EXCEPT !.m_nItems = (q.m_nItems + SizeT - 1) % SizeT]]

\* Defect: the newest item is handed out instead of the oldest.
DefectRemoveNewest(q) ==
  LET newest == (q.m_tail + q.m_size - 1) % q.m_size IN
  [err   |-> "QERR_OK",
   item  |-> q.m_queueArray[newest],
   queue |-> [q EXCEPT !.m_tail = newest,
                       !.m_nItems = (q.m_nItems + SizeT - 1) % SizeT]]

\* The underflow test reads m_size, the capacity, and not m_nItems: on an
\* empty queue the call returns QERR_OK, hands out the stale slot at m_head
\* and wraps the count round to SizeT - 1.
QueueRemove(q) ==
  IF q.m_size = 0 THEN Failed(q, "QERR_UNDERFLOW")
  ELSE [err   |-> "QERR_OK",
        item  |-> q.m_queueArray[q.m_head],
        queue |-> [q EXCEPT !.m_head = (q.m_head + 1) % q.m_size,
                            !.m_nItems = (q.m_nItems + SizeT - 1) % SizeT]]

QueueIsEmpty(q) == q.m_nItems = 0 /\ q.m_head = q.m_tail

\* The slots QueueDestroy frees: 0 .. m_nItems - 1, wherever m_head is.
SlotsDestroyed(q) == {i \in DOMAIN q.m_queueArray : i < q.m_nItems}
=============================================================================
