------------------------------- MODULE IPPool -------------------------------
(***************************************************************************)
(* The pool of multicast addresses of PoolAddr/PoolMultyCastAdd.c, as      *)
(* operators on a struct IP_Pool_Addr.  An address "229.1.a.b" is the pair *)
(* <<a, b>>.  The program only takes addresses out: nothing in it calls    *)
(* ReturnIPAddress.                                                        *)
(***************************************************************************)
EXTENDS GenericQueueOps, Sequences

CONSTANT Capacity   \* CAPACITY, 50 in the build

ASSUME CapacityAssumption == ValidSize(Capacity)

\* The addresses counted by addr0 and addr1: the low byte runs from 1 to 254.
IPAddr(i) == <<i \div 254, 1 + (i % 254)>>
IPAddrs == {IPAddr(i) : i \in 0 .. Capacity - 1}

\* Capacity insertions into the empty queue: slot i holds the i-th address
\* and the tail is back at slot 0.
InsertAllIPAddrToList(queue) ==
  [queue EXCEPT !.m_queueArray = [i \in 0 .. Capacity - 1 |-> IPAddr(i)],
                !.m_nItems = Capacity]

CreateIP_Multecaste ==
  [m_queue_addr |-> InsertAllIPAddrToList(QueueCreate(Capacity)),
   m_poolSize   |-> Capacity]

\* Defect: the address is read from the slot but not taken out.
DefectGetKeepsAddress(pool) ==
  [err    |-> "ADDR_SUCCESS",
   ipAddr |-> pool.m_queue_addr.m_queueArray[pool.m_queue_addr.m_head],
   pool   |-> [pool EXCEPT !.m_poolSize = (@ + SizeT - 1) % SizeT]]

\* Defect: a pool counted out refuses and hands out no address.
DefectGetRefuses(pool) ==
  LET r == QueueRemove(pool.m_queue_addr) IN
  IF pool.m_poolSize = 0
  THEN [err |-> "ADDR_INSERT_FAIL", ipAddr |-> NULL, pool |-> pool]
  ELSE [err    |-> "ADDR_SUCCESS",
        ipAddr |-> r.item,
        pool   |-> [m_queue_addr |-> r.queue,
                    m_poolSize   |-> (pool.m_poolSize + SizeT - 1) % SizeT]]

\* An exhausted pool does not refuse: QueueRemove succeeds on it, and
\* m_poolSize wraps like the queue's own count.
GetIPAddress(pool) ==
  LET r == QueueRemove(pool.m_queue_addr) IN
  IF r.err # "QERR_OK"
  THEN [err |-> "ADDR_INSERT_FAIL", ipAddr |-> NULL, pool |-> pool]
  ELSE [err    |-> "ADDR_SUCCESS",
        ipAddr |-> r.item,
        pool   |-> [m_queue_addr |-> r.queue,
                    m_poolSize   |-> (pool.m_poolSize + SizeT - 1) % SizeT]]

PoolType ==
  [m_queue_addr : [m_queueArray : [0 .. Capacity - 1 -> IPAddrs], m_size : {Capacity},
                   m_head : 0 .. Capacity - 1, m_tail : {0}, m_nItems : 0 .. SizeT - 1],
   m_poolSize : 0 .. SizeT - 1]
=============================================================================
