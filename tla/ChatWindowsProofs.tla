------------------------- MODULE ChatWindowsProofs -------------------------
(***************************************************************************)
(* Proofs about the windows of the conversations, for every number of      *)
(* clients, groups, windows and restarts of the server.                    *)
(*                                                                         *)
(* The argument.  One run of the server gives each group an address once   *)
(* and never another, however many groups there are; a window is started   *)
(* with the address its group had in the run that answered, and a later    *)
(* run changes nothing of that.  While one opening goes on at a time and   *)
(* windows start in time, the only window that can still write a file is   *)
(* the one whose file is read next, and it was started last.               *)
(***************************************************************************)
EXTENDS ChatWindows, SequenceTheorems, TLAPS

Created == {g \in Groups : m_groupNames[g] # NULL}

\* A window of the present run has its group's address.
AddressOfGroup ==
  \A p \in Pids : windows[p].epoch = epoch => windows[p].addr = m_groupNames[windows[p].group]

\* Whatever run they are of, two windows of one run and one group share the
\* address.
GroupSharesAddress ==
  \A p, q \in Pids :
    windows[p].epoch = windows[q].epoch /\ windows[p].group = windows[q].group
    => windows[p].addr = windows[q].addr

\* Of an opening that goes on the listener's window has been started.
OpeningHasWindow ==
  \A c \in Clients : pc[c] # "menu" =>
    \E p \in Pids : /\ windows[p].group = opening[c].group
                    /\ windows[p].addr = opening[c].addr
                    /\ windows[p].epoch = opening[c].epoch

WindowInv ==
  /\ TypeOK
  /\ AddressOfGroup
  /\ GroupSharesAddress
  /\ OpeningHasWindow

Latest == Len(windows)

\* Window p is client c's, of the group it opens, and runs the program `kind`.
WindowOf(p, c, kind) ==
  /\ windows[p].client = c
  /\ windows[p].group = opening[c].group
  /\ windows[p].kind = kind

\* Client c has started the latest window, and what that one writes is read next.
Awaits(c, kind) ==
  /\ Latest \in Pids /\ WindowOf(Latest, c, kind)
  /\ windows[Latest].at = "running" => file[kind] = Latest

OneOpening ==
  /\ \A c, d \in Clients : pc[c] # "menu" /\ pc[d] # "menu" => c = d
  /\ \A p \in Pids : windows[p].at # "running" =>
       p = Latest /\ \E c \in Clients : pc[c] # "menu"
  /\ \A c \in Clients : pc[c] = "readListen" => Awaits(c, "listen")
  /\ \A c \in Clients : pc[c] = "readSender" =>
       /\ Awaits(c, "sender")
       /\ listenPID[c] = Latest - 1 /\ listenPID[c] \in Pids
       /\ WindowOf(listenPID[c], c, "listen")

TablesRight ==
  \A c \in Clients : \A e \in m_pidHash[c] :
    /\ e.m_sender \in Pids /\ e.m_listen \in Pids
    /\ windows[e.m_sender].kind = "listen" /\ windows[e.m_listen].kind = "sender"
    /\ windows[e.m_sender].client = c /\ windows[e.m_sender].group = e.group
    /\ windows[e.m_listen].client = c /\ windows[e.m_listen].group = e.group

InTurn == ~late /\ ~overlap => OneOpening /\ TablesRight
-----------------------------------------------------------------------------
(***************************************************************************)
(* What the steps do to the pool and to the windows.                       *)
(***************************************************************************)
\* The sizes as plain numbers.
LEMMA Sizes ==
  /\ SizeT \in Nat \ {0} /\ Capacity \in Nat \ {0}
  /\ 2 <= Capacity /\ Capacity < SizeT
  BY SizeTAssumption, CapacityAssumption DEF ValidSize

\* A full pool (CreateIP_Multecaste).
LEMMA FullPool == CreateIP_Multecaste \in PoolType
  <1> DEFINE full == [i \in 0 .. Capacity - 1 |-> IPAddr(i)]
             none == [i \in 0 .. Capacity - 1 |-> NULL]
  <1>1. full \in [0 .. Capacity - 1 -> IPAddrs]
    BY DEF IPAddrs
  <1>2. InsertAllIPAddrToList(QueueCreate(Capacity)) =
          [[m_queueArray |-> none, m_size |-> Capacity,
            m_head |-> 0, m_tail |-> 0, m_nItems |-> 0]
             EXCEPT !.m_queueArray = full, !.m_nItems = Capacity]
    BY DEF InsertAllIPAddrToList, QueueCreate
  <1> HIDE DEF full, none
  <1>3. InsertAllIPAddrToList(QueueCreate(Capacity)) =
          [m_queueArray |-> full, m_size |-> Capacity,
           m_head |-> 0, m_tail |-> 0, m_nItems |-> Capacity]
    BY <1>2
  <1> QED
    BY <1>1, <1>3, Sizes DEF PoolType, CreateIP_Multecaste

\* GetIPAddress hands out one of the addresses, also when all have been taken.
LEMMA AddressTaken ==
  ASSUME NEW pool \in PoolType
  PROVE  GetIPAddress(pool).ipAddr \in IPAddrs /\ GetIPAddress(pool).pool \in PoolType
  <1> DEFINE q == pool.m_queue_addr
             left == [m_queueArray |-> q.m_queueArray, m_size |-> Capacity,
                      m_head |-> (q.m_head + 1) % Capacity, m_tail |-> 0,
                      m_nItems |-> (q.m_nItems + SizeT - 1) % SizeT]
             count == (pool.m_poolSize + SizeT - 1) % SizeT
  <1>1. /\ q.m_queueArray \in [0 .. Capacity - 1 -> IPAddrs]
        /\ q.m_head \in 0 .. Capacity - 1 /\ q.m_nItems \in 0 .. SizeT - 1
        /\ q.m_size = Capacity /\ q.m_tail = 0 /\ pool.m_poolSize \in 0 .. SizeT - 1
        /\ q = [m_queueArray |-> q.m_queueArray, m_size |-> Capacity, m_head |-> q.m_head,
                m_tail |-> 0, m_nItems |-> q.m_nItems]
    BY DEF PoolType
  <1>2. QueueRemove(q) =
          [err |-> "QERR_OK", item |-> q.m_queueArray[q.m_head], queue |-> left]
    BY <1>1, Sizes DEF QueueRemove
  <1>3. /\ GetIPAddress(pool).ipAddr = q.m_queueArray[q.m_head]
        /\ GetIPAddress(pool).pool = [m_queue_addr |-> left, m_poolSize |-> count]
    BY <1>2 DEF GetIPAddress
  <1>4. (q.m_head + 1) % Capacity \in 0 .. Capacity - 1
    BY <1>1, Sizes
  <1>5. (q.m_nItems + SizeT - 1) % SizeT \in 0 .. SizeT - 1
    BY <1>1, Sizes
  <1>6. count \in 0 .. SizeT - 1
    BY <1>1, Sizes
  <1>7. [m_queue_addr |-> left, m_poolSize |-> count] \in PoolType
    BY <1>1, <1>4, <1>5, <1>6 DEF PoolType
  <1>8. q.m_queueArray[q.m_head] \in IPAddrs
    BY <1>1
  <1> QED
    BY <1>3, <1>7, <1>8

\* A group that is created gets an address, and the others keep theirs.
LEMMA GroupTakesAddress ==
  ASSUME m_groupNames \in [Groups -> IPAddrs \cup {NULL}], m_addIPPool \in PoolType,
         NEW g \in Groups, m_groupNames[g] = NULL, TakeAddress(g)
  PROVE  /\ m_groupNames' \in [Groups -> IPAddrs \cup {NULL}] /\ m_addIPPool' \in PoolType
         /\ m_groupNames'[g] \in IPAddrs
         /\ \A h \in Created : m_groupNames'[h] = m_groupNames[h]
  BY AddressTaken DEF TakeAddress, Created

\* A window that is started gets the next number.
LEMMA Appended ==
  ASSUME windows \in Seq(Windows), epoch' = epoch, NEW c \in Clients,
         NEW kind \in Kinds, NEW o \in Openings, NewWindow(c, kind, o)
  PROVE  /\ Latest \in Nat /\ Latest' = Latest + 1
         /\ Pids' = Pids \cup {Latest + 1} /\ Latest + 1 \notin Pids
         /\ (windows \in Seq(Windows))'
         /\ \A p \in Pids : windows'[p] = windows[p]
         /\ windows'[Latest + 1].kind = kind /\ windows'[Latest + 1].client = c
         /\ windows'[Latest + 1].group = o.group /\ windows'[Latest + 1].addr = o.addr
         /\ windows'[Latest + 1].epoch = o.epoch /\ windows'[Latest + 1].at = "starting"
  <1> DEFINE w == [kind |-> kind, client |-> c, group |-> o.group, addr |-> o.addr,
                   epoch |-> o.epoch, at |-> "starting"]
  <1>1. windows' = Append(windows, w)
    BY DEF NewWindow
  <1>2. /\ w \in Windows /\ w.kind = kind /\ w.client = c /\ w.group = o.group
        /\ w.addr = o.addr /\ w.epoch = o.epoch /\ w.at = "starting"
    BY DEF Openings, Windows
  <1> HIDE DEF w
  <1>3. /\ windows' \in Seq(Windows) /\ Len(windows') = Len(windows) + 1
        /\ \A p \in 1 .. Len(windows) : windows'[p] = windows[p]
        /\ windows'[Len(windows) + 1] = w
    BY <1>1, <1>2, AppendProperties
  <1>4. Len(windows) \in Nat
    BY LenProperties
  <1>5. Pids' = Pids \cup {Latest + 1} /\ Latest + 1 \notin Pids
    BY <1>3, <1>4 DEF Pids, Latest
  <1>6. Windows' = Windows
    BY DEF Windows
  <1> QED
    BY <1>2, <1>3, <1>4, <1>5, <1>6 DEF Latest, Pids
-----------------------------------------------------------------------------
(***************************************************************************)
(* The types.                                                              *)
(***************************************************************************)
\* More windows and runs of the server make the types wider.
LEMMA TypesGrow ==
  ASSUME Pids \subseteq Pids', 0 .. epoch \subseteq 0 .. epoch'
  PROVE  /\ Ids \subseteq Ids' /\ Entries \subseteq Entries'
         /\ Openings \subseteq Openings' /\ Windows \subseteq Windows'
         /\ Seq(Windows) \subseteq Seq(Windows')
  <1>1. Ids \subseteq Ids'
    BY DEF Ids
  <1>2. Entries \subseteq Entries'
    BY <1>1 DEF Entries
  <1>3. Openings \subseteq Openings'
    BY DEF Openings
  <1>4. Windows \subseteq Windows'
    BY DEF Windows
  <1> QED
    BY <1>1, <1>2, <1>3, <1>4

\* What the steps assume of the state.
LEMMA TypesFacts ==
  ASSUME TypeOK
  PROVE  /\ windows \in Seq(Windows) /\ Latest \in Nat
         /\ \A p \in Pids : windows[p] \in Windows
         /\ \A c \in Clients : pc[c] # "menu" => opening[c] \in Openings
         /\ \A c \in Clients : pc[c] = "readSender" => listenPID[c] \in Ids
         /\ \A k \in Kinds : Scanned(k) # Absent => Scanned(k) \in Ids
  <1>1. windows \in Seq(Windows)
    BY DEF TypeOK
  <1>2. \A p \in Pids : windows[p] \in Windows
    BY <1>1, ElementOfSeq DEF Pids
  <1>3. \A c \in Clients : pc[c] # "menu" => opening[c] \in Openings
    BY DEF TypeOK
  <1>4. \A c \in Clients : pc[c] = "readSender" => listenPID[c] \in Ids
    BY DEF TypeOK
  <1>5. \A k \in Kinds : Scanned(k) # Absent => Scanned(k) \in Ids
    BY DEF TypeOK, Scanned, Ids
  <1> QED
    BY <1>1, <1>2, <1>3, <1>4, <1>5, LenProperties DEF Latest

\* A window is started by client c, whose opening is o.
LEMMA NewWindowTypes ==
  ASSUME TypeOK, NEW c \in Clients, NEW kind \in Kinds, NEW o \in Openings,
         NewWindow(c, kind, o), epoch' = epoch, file' = file
  PROVE  /\ (windows \in Seq(Windows))' /\ Pids \subseteq Pids'
         /\ Ids \subseteq Ids' /\ Entries \subseteq Entries' /\ Openings' = Openings
         /\ (file \in [Kinds -> Pids \cup {Absent, Empty, Old}])'
         /\ (m_pidHash' = m_pidHash => m_pidHash' \in [Clients -> SUBSET Entries'])
  <1>1. windows \in Seq(Windows)
    BY TypesFacts
  <1>2. (windows \in Seq(Windows))' /\ Pids \subseteq Pids'
    BY <1>1, Appended
  <1>3. 0 .. epoch \subseteq 0 .. epoch' /\ Openings' = Openings
    BY DEF Openings
  <1>4. Ids \subseteq Ids' /\ Entries \subseteq Entries'
    BY <1>2, <1>3, TypesGrow
  <1>5. (file \in [Kinds -> Pids \cup {Absent, Empty, Old}])'
    BY <1>2 DEF TypeOK
  <1>6. m_pidHash \in [Clients -> SUBSET Entries]
    BY DEF TypeOK
  <1> QED
    BY <1>2, <1>3, <1>4, <1>5, <1>6

\* A window for listening is started, and the client waits for its file.
LEMMA OpenKeepsTypes ==
  ASSUME TypeOK, NEW c \in Clients, NEW g \in Groups, NEW addr \in IPAddrs,
         NEW key \in {"heap", "stack"}, OpenChatWindow(c, g, addr, key),
         m_groupNames' \in [Groups -> IPAddrs \cup {NULL}], m_addIPPool' \in PoolType,
         pc[c] = "menu"
  PROVE  TypeOK'
  <1> DEFINE o == [group |-> g, addr |-> addr, key |-> key, epoch |-> epoch]
  <1>1. epoch' = epoch /\ epoch \in 0 .. MaxRestarts /\ o \in Openings
    <2>1. epoch \in 0 .. MaxRestarts /\ epoch' = epoch
      BY DEF TypeOK, OpenChatWindow
    <2>2. epoch \in 0 .. epoch
      BY <2>1, WindowAssumption
    <2> QED
      BY <2>1, <2>2 DEF Openings
  <1>2. /\ opening' = [opening EXCEPT ![c] = o] /\ pc' = [pc EXCEPT ![c] = "readListen"]
        /\ NewWindow(c, "listen", o) /\ file' = file
        /\ overlap' = (overlap \/ \E d \in Clients : pc[d] # "menu")
        /\ UNCHANGED <<listenPID, m_pidHash, file, late>>
    BY DEF OpenChatWindow
  <1> HIDE DEF o
  <1>3. /\ (windows \in Seq(Windows))' /\ Ids \subseteq Ids' /\ Openings' = Openings
        /\ (file \in [Kinds -> Pids \cup {Absent, Empty, Old}])'
        /\ m_pidHash' \in [Clients -> SUBSET Entries']
    BY <1>1, <1>2, NewWindowTypes DEF Kinds
  <1>4. /\ pc' \in [Clients -> {"menu", "readListen", "readSender"}]
        /\ opening' \in [Clients -> Openings \cup {NULL}]
        /\ listenPID' \in [Clients -> Ids' \cup {Absent}]
        /\ late' \in BOOLEAN /\ overlap' \in BOOLEAN
    BY <1>1, <1>2, <1>3 DEF TypeOK
  <1>5. ASSUME NEW d \in Clients
        PROVE  /\ pc'[d] # "menu" => opening'[d] \in Openings
               /\ pc'[d] = "readSender" => listenPID'[d] \in Ids'
    BY <1>1, <1>2, <1>3 DEF TypeOK
  <1> QED
    BY <1>1, <1>3, <1>4, <1>5 DEF TypeOK

\* The call returns.
LEMMA ReturnKeepsTypes ==
  ASSUME TypeOK, NEW c \in Clients, NEW pids \in SUBSET Entries, BackToMenu(c, pids),
         UNCHANGED <<server, windows, file, overlap>>, late' \in BOOLEAN
  PROVE  TypeOK'
  <1>1. /\ pc' = [pc EXCEPT ![c] = "menu"]
        /\ opening' = [opening EXCEPT ![c] = NULL]
        /\ listenPID' = [listenPID EXCEPT ![c] = Absent]
        /\ m_pidHash' = [m_pidHash EXCEPT ![c] =
                           IF opening[c].epoch = epoch THEN pids ELSE {}]
    BY DEF BackToMenu
  <1>2. /\ Ids' = Ids /\ Entries' = Entries /\ Openings' = Openings /\ Windows' = Windows
        /\ Pids' = Pids
    BY DEF Ids, Entries, Openings, Windows, Pids, server
  <1>3. /\ pc' \in [Clients -> {"menu", "readListen", "readSender"}]
        /\ opening' \in [Clients -> Openings \cup {NULL}]
        /\ listenPID' \in [Clients -> Ids \cup {Absent}]
    BY <1>1 DEF TypeOK
  <1>4. m_pidHash' \in [Clients -> SUBSET Entries]
    BY <1>1 DEF TypeOK
  <1>5. ASSUME NEW d \in Clients
        PROVE  /\ pc'[d] # "menu" => opening'[d] \in Openings
               /\ pc'[d] = "readSender" => listenPID'[d] \in Ids
    BY <1>1 DEF TypeOK
  <1> QED
    BY <1>2, <1>3, <1>4, <1>5 DEF TypeOK, server

\* fscanf of the listener's file.
LEMMA ReadListenKeepsTypes ==
  ASSUME TypeOK, NEW c \in Clients, ReadListen(c)
  PROVE  TypeOK'
  <1>1. /\ UNCHANGED <<server, file, overlap>> /\ pc[c] = "readListen"
        /\ late' \in BOOLEAN
    BY DEF ReadListen, Reads, TypeOK
  <1>2. CASE BackToMenu(c, m_pidHash[c]) /\ UNCHANGED windows
    <2>1. m_pidHash[c] \in SUBSET Entries
      BY DEF TypeOK
    <2> QED
      BY <1>1, <1>2, <2>1, ReturnKeepsTypes
  <1>3. CASE /\ Scanned("listen") # Absent
             /\ listenPID' = [listenPID EXCEPT ![c] = Scanned("listen")]
             /\ NewWindow(c, "sender", opening[c])
             /\ pc' = [pc EXCEPT ![c] = "readSender"]
             /\ UNCHANGED <<opening, m_pidHash>>
    <2>1. opening[c] \in Openings /\ Scanned("listen") \in Ids
      BY <1>1, <1>3, TypesFacts DEF Kinds
    <2>2. /\ (windows \in Seq(Windows))' /\ Ids \subseteq Ids' /\ Openings' = Openings
          /\ (file \in [Kinds -> Pids \cup {Absent, Empty, Old}])'
          /\ m_pidHash' \in [Clients -> SUBSET Entries']
      <3>1. epoch' = epoch /\ file' = file
        BY <1>1 DEF server
      <3> QED
        BY <1>3, <2>1, <3>1, NewWindowTypes DEF Kinds
    <2>3. /\ pc' \in [Clients -> {"menu", "readListen", "readSender"}]
          /\ opening' \in [Clients -> Openings \cup {NULL}]
          /\ listenPID' \in [Clients -> Ids' \cup {Absent}]
      BY <1>3, <2>1, <2>2 DEF TypeOK
    <2>4. ASSUME NEW d \in Clients
          PROVE  /\ pc'[d] # "menu" => opening'[d] \in Openings
                 /\ pc'[d] = "readSender" => listenPID'[d] \in Ids'
      BY <1>1, <1>3, <2>1, <2>2 DEF TypeOK
    <2> QED
      BY <1>1, <2>2, <2>3, <2>4 DEF TypeOK, server
  <1> QED
    BY <1>2, <1>3 DEF ReadListen

\* fscanf of the sender's file, and the entry in the table.
LEMMA ReadSenderKeepsTypes ==
  ASSUME TypeOK, NEW c \in Clients, ReadSender(c)
  PROVE  TypeOK'
  <1>1. /\ UNCHANGED <<server, file, overlap, windows>> /\ pc[c] = "readSender"
        /\ late' \in BOOLEAN
    BY DEF ReadSender, Reads, TypeOK
  <1>2. m_pidHash[c] \in SUBSET Entries
    BY DEF TypeOK
  <1>3. CASE BackToMenu(c, m_pidHash[c])
    BY <1>1, <1>2, <1>3, ReturnKeepsTypes
  <1>4. CASE /\ Scanned("sender") # Absent
             /\ BackToMenu(c, m_pidHash[c] \cup
                  {[group |-> opening[c].group, key |-> opening[c].key,
                    m_sender |-> listenPID[c], m_listen |-> Scanned("sender")]})
    <2>1. opening[c] \in Openings /\ listenPID[c] \in Ids /\ Scanned("sender") \in Ids
      BY <1>1, <1>4, TypesFacts DEF Kinds
    <2>2. [group |-> opening[c].group, key |-> opening[c].key,
           m_sender |-> listenPID[c], m_listen |-> Scanned("sender")] \in Entries
      BY <2>1 DEF Entries, Openings
    <2> QED
      BY <1>1, <1>2, <1>4, <2>2, ReturnKeepsTypes
  <1> QED
    BY <1>3, <1>4 DEF ReadSender, InsertPID

\* A window's program starts, opens its file and writes it.
LEMMA WriterKeepsTypes ==
  ASSUME TypeOK, NEW p \in Pids, NEW before, NEW after \in {"opened", "running"},
         Becomes(p, before, after), NEW i \in Pids \cup {Empty},
         file' = [file EXCEPT ![windows[p].kind] = i]
  PROVE  TypeOK'
  <1>1. /\ windows' = [windows EXCEPT ![p].at = after]
        /\ UNCHANGED <<server, client, ghosts>>
    BY DEF Becomes
  <1>2. windows \in Seq(Windows) /\ Latest \in Nat /\ windows[p] \in Windows
    BY TypesFacts
  <1>3. windows' \in Seq(Windows) /\ Len(windows') = Len(windows)
    <2> DEFINE w == [windows[p] EXCEPT !.at = after]
    <2>1. w \in Windows
      BY <1>2 DEF Windows
    <2>2. windows' = [windows EXCEPT ![p] = w]
      BY <1>1
    <2> HIDE DEF w
    <2> QED
      BY <1>2, <2>1, <2>2, ExceptSeq DEF Pids
  <1>4. /\ Pids' = Pids /\ Ids' = Ids /\ Entries' = Entries /\ Openings' = Openings
        /\ Windows' = Windows
    BY <1>1, <1>3 DEF Pids, Ids, Entries, Openings, Windows, server
  <1>5. file' \in [Kinds -> Pids \cup {Absent, Empty, Old}]
    BY DEF TypeOK
  <1> QED
    BY <1>1, <1>3, <1>4, <1>5 DEF TypeOK, server, client, ghosts

\* A client is started again.
LEMMA ClientKeepsTypes ==
  ASSUME TypeOK, NEW c \in Clients, NewClient(c)
  PROVE  TypeOK'
  <1>1. /\ Ids' = Ids /\ Entries' = Entries /\ Openings' = Openings /\ Windows' = Windows
        /\ Pids' = Pids
    BY DEF Ids, Entries, Openings, Windows, Pids, server, NewClient
  <1>2. /\ pc' \in [Clients -> {"menu", "readListen", "readSender"}]
        /\ opening' \in [Clients -> Openings \cup {NULL}]
        /\ listenPID' \in [Clients -> Ids \cup {Absent}]
        /\ m_pidHash' \in [Clients -> SUBSET Entries]
    BY DEF TypeOK, NewClient
  <1>3. ASSUME NEW d \in Clients
        PROVE  /\ pc'[d] # "menu" => opening'[d] \in Openings
               /\ pc'[d] = "readSender" => listenPID'[d] \in Ids
    BY DEF TypeOK, NewClient
  <1>4. UNCHANGED <<server, windows, file, late>> /\ overlap' \in BOOLEAN
    BY DEF TypeOK, NewClient
  <1> QED
    BY <1>1, <1>2, <1>3, <1>4 DEF TypeOK, server

\* The server is started again.
LEMMA ServerKeepsTypes ==
  ASSUME TypeOK, RestartServer
  PROVE  TypeOK'
  <1>1. /\ epoch \in 0 .. MaxRestarts /\ epoch' = epoch + 1 /\ epoch' \in 0 .. MaxRestarts
        /\ UNCHANGED <<pc, opening, listenPID, windows, file, late, overlap>>
    BY WindowAssumption DEF TypeOK, RestartServer, ghosts
  <1>2. Pids' = Pids
    BY <1>1 DEF Pids
  <1>3. /\ Ids \subseteq Ids' /\ Entries \subseteq Entries'
        /\ Openings \subseteq Openings' /\ Seq(Windows) \subseteq Seq(Windows')
    BY <1>1, <1>2, TypesGrow
  <1>4. /\ windows' \in Seq(Windows')
        /\ opening' \in [Clients -> Openings' \cup {NULL}]
        /\ listenPID' \in [Clients -> Ids' \cup {Absent}]
    BY <1>1, <1>3 DEF TypeOK
  <1>5. m_pidHash' \in [Clients -> SUBSET Entries']
    BY <1>3 DEF TypeOK, RestartServer
  <1>6. ASSUME NEW d \in Clients
        PROVE  /\ pc'[d] # "menu" => opening'[d] \in Openings'
               /\ pc'[d] = "readSender" => listenPID'[d] \in Ids'
    BY <1>1, <1>3 DEF TypeOK
  <1>7. /\ m_groupNames' \in [Groups -> IPAddrs \cup {NULL}] /\ m_addIPPool' \in PoolType
    BY FullPool DEF RestartServer
  <1> QED
    BY <1>1, <1>2, <1>4, <1>5, <1>6, <1>7 DEF TypeOK
-----------------------------------------------------------------------------
(***************************************************************************)
(* The addresses.                                                          *)
(***************************************************************************)
\* A window of the present run has an address its group still has.
LEMMA GroupOfWindow ==
  ASSUME TypeOK, AddressOfGroup, NEW p \in Pids, windows[p].epoch = epoch
  PROVE  windows[p].group \in Created /\ windows[p].addr = m_groupNames[windows[p].group]
  BY TypesFacts, WindowAssumption DEF AddressOfGroup, Created, Windows

\* A window that is started has the address its group was given in the run that
\* answered.
LEMMA StartedWindow ==
  ASSUME TypeOK, AddressOfGroup, GroupSharesAddress, NEW c \in Clients,
         NEW kind \in Kinds, NEW o \in Openings, NewWindow(c, kind, o), epoch' = epoch,
         \A g \in Created : m_groupNames'[g] = m_groupNames[g],
         \/ /\ o.epoch = epoch /\ o.group \in Created'
            /\ o.addr = m_groupNames'[o.group]
         \/ \E p \in Pids : /\ windows[p].group = o.group /\ windows[p].addr = o.addr
                            /\ windows[p].epoch = o.epoch
  PROVE  AddressOfGroup' /\ GroupSharesAddress'
  <1> DEFINE n == Latest + 1
  <1>1. /\ Pids' = Pids \cup {n} /\ n \notin Pids
        /\ \A p \in Pids : windows'[p] = windows[p]
        /\ windows'[n].group = o.group /\ windows'[n].addr = o.addr
        /\ windows'[n].epoch = o.epoch
    BY Appended, TypesFacts
  <1> HIDE DEF n
  <1>2. ASSUME NEW p \in Pids, windows[p].epoch = epoch
        PROVE  /\ windows[p].group \in Created'
               /\ windows[p].addr = m_groupNames'[windows[p].group]
    <2>1. windows[p].group \in Created /\ windows[p].addr = m_groupNames[windows[p].group]
      BY <1>2, GroupOfWindow
    <2> QED
      BY <2>1 DEF Created
  <1>3. o.epoch = epoch => o.group \in Created' /\ o.addr = m_groupNames'[o.group]
    BY <1>2
  <1>4. AddressOfGroup'
    BY <1>1, <1>2, <1>3 DEF AddressOfGroup
  <1>5. ASSUME NEW p \in Pids, windows[p].epoch = o.epoch, windows[p].group = o.group
        PROVE  windows[p].addr = o.addr
    <2>1. CASE o.epoch = epoch
      BY <1>2, <1>3, <1>5, <2>1
    <2>2. CASE \E q \in Pids : /\ windows[q].group = o.group /\ windows[q].addr = o.addr
                               /\ windows[q].epoch = o.epoch
      BY <1>5, <2>2 DEF GroupSharesAddress
    <2> QED
      BY <2>1, <2>2
  <1>6. GroupSharesAddress'
    BY <1>1, <1>5 DEF GroupSharesAddress
  <1> QED
    BY <1>4, <1>6

\* Every window stays what it is, and no opening begins.
Stay ==
  /\ \A p \in Pids : /\ p \in Pids' /\ windows'[p].group = windows[p].group
                     /\ windows'[p].addr = windows[p].addr
                     /\ windows'[p].epoch = windows[p].epoch
  /\ \A c \in Clients : pc'[c] # "menu" => pc[c] # "menu" /\ opening'[c] = opening[c]

LEMMA OpeningsStay == OpeningHasWindow /\ Stay => OpeningHasWindow'
  BY DEF OpeningHasWindow, Stay

\* A client gets an answer with the address of the group.
LEMMA OpenKeepsAddresses ==
  ASSUME WindowInv, NEW c \in Clients, NEW g \in Groups, NEW key \in {"heap", "stack"},
         pc[c] = "menu",
         m_groupNames' \in [Groups -> IPAddrs \cup {NULL}], m_addIPPool' \in PoolType,
         m_groupNames'[g] \in IPAddrs, \A h \in Created : m_groupNames'[h] = m_groupNames[h],
         OpenChatWindow(c, g, m_groupNames'[g], key)
  PROVE  WindowInv'
  <1> DEFINE addr == m_groupNames'[g]
             o == [group |-> g, addr |-> addr, key |-> key, epoch |-> epoch]
  <1>1. TypeOK /\ AddressOfGroup /\ GroupSharesAddress /\ OpeningHasWindow
    BY DEF WindowInv
  <1>2. TypeOK'
    BY <1>1, OpenKeepsTypes
  <1>3. o \in Openings /\ epoch' = epoch
    <2>1. epoch \in 0 .. epoch
      BY <1>1, WindowAssumption DEF TypeOK
    <2> QED
      BY <2>1 DEF Openings, OpenChatWindow
  <1>4. /\ NewWindow(c, "listen", o) /\ opening' = [opening EXCEPT ![c] = o]
        /\ pc' = [pc EXCEPT ![c] = "readListen"]
    BY DEF OpenChatWindow
  <1>5. g \in Created'
    BY WindowAssumption DEF Created
  <1>6. o.group = g /\ o.addr = addr /\ o.epoch = epoch
    OBVIOUS
  <1> HIDE DEF o, addr
  <1>7. AddressOfGroup' /\ GroupSharesAddress'
    <2>1. o.addr = m_groupNames'[o.group]
      BY <1>6 DEF addr
    <2> QED
      BY <1>1, <1>3, <1>4, <1>5, <1>6, <2>1, StartedWindow DEF Kinds
  <1>8. OpeningHasWindow'
    <2>1. /\ Pids' = Pids \cup {Latest + 1}
          /\ \A p \in Pids : windows'[p] = windows[p]
          /\ windows'[Latest + 1].group = o.group /\ windows'[Latest + 1].addr = o.addr
          /\ windows'[Latest + 1].epoch = o.epoch
      BY <1>1, <1>3, <1>4, Appended, TypesFacts DEF Kinds
    <2>2. opening'[c] = o /\ \A d \in Clients : d # c =>
            opening'[d] = opening[d] /\ pc'[d] = pc[d]
      BY <1>1, <1>4 DEF TypeOK
    <2> SUFFICES ASSUME NEW d \in Clients, pc'[d] # "menu"
                 PROVE  \E p \in Pids' : /\ windows'[p].group = opening'[d].group
                                         /\ windows'[p].addr = opening'[d].addr
                                         /\ windows'[p].epoch = opening'[d].epoch
      BY DEF OpeningHasWindow
    <2>3. CASE d = c
      BY <2>1, <2>2, <2>3
    <2>4. CASE d # c
      BY <1>1, <2>1, <2>2, <2>4 DEF OpeningHasWindow
    <2> QED
      BY <2>3, <2>4
  <1> QED
    BY <1>2, <1>7, <1>8 DEF WindowInv

LEMMA CreateKeepsInv ==
  ASSUME WindowInv, NEW c \in Clients, NEW g \in Groups, Create_New_Group(c, g)
  PROVE  WindowInv'
  <1>1. /\ pc[c] = "menu" /\ m_groupNames[g] = NULL /\ TakeAddress(g)
        /\ OpenChatWindow(c, g, m_groupNames'[g], "heap")
    BY DEF Create_New_Group, AtMenu
  <1>2. /\ m_groupNames' \in [Groups -> IPAddrs \cup {NULL}] /\ m_addIPPool' \in PoolType
        /\ m_groupNames'[g] \in IPAddrs
        /\ \A h \in Created : m_groupNames'[h] = m_groupNames[h]
    BY <1>1, GroupTakesAddress DEF WindowInv, TypeOK
  <1> QED
    BY <1>1, <1>2, OpenKeepsAddresses

LEMMA JoinKeepsInv ==
  ASSUME WindowInv, NEW c \in Clients, NEW g \in Groups, Join_To_Group(c, g)
  PROVE  WindowInv'
  <1>1. /\ pc[c] = "menu" /\ m_groupNames[g] # NULL
        /\ OpenChatWindow(c, g, m_groupNames[g], "stack")
        /\ m_groupNames' = m_groupNames /\ m_addIPPool' = m_addIPPool
    BY DEF Join_To_Group, AtMenu
  <1>2. /\ m_groupNames' \in [Groups -> IPAddrs \cup {NULL}] /\ m_addIPPool' \in PoolType
        /\ m_groupNames'[g] \in IPAddrs
    BY <1>1 DEF WindowInv, TypeOK
  <1> QED
    BY <1>1, <1>2, OpenKeepsAddresses

\* A step that leaves the server, the windows' addresses and the openings alone.
LEMMA ServerApart ==
  ASSUME WindowInv, TypeOK', UNCHANGED server, Stay, Pids' = Pids
  PROVE  WindowInv'
  <1>1. AddressOfGroup'
    BY DEF WindowInv, AddressOfGroup, server, Stay
  <1>2. GroupSharesAddress'
    BY DEF WindowInv, GroupSharesAddress, Stay
  <1> QED
    BY <1>1, <1>2, OpeningsStay DEF WindowInv

\* The call returns: nothing is opened.
LEMMA ReturnStays ==
  ASSUME TypeOK, NEW c \in Clients, NEW pids, BackToMenu(c, pids), UNCHANGED windows
  PROVE  Stay /\ Pids' = Pids
  <1>1. Pids' = Pids
    BY DEF Pids
  <1>2. ASSUME NEW d \in Clients, pc'[d] # "menu"
        PROVE  pc[d] # "menu" /\ opening'[d] = opening[d]
    BY <1>2 DEF TypeOK, BackToMenu
  <1> QED
    BY <1>1, <1>2 DEF Stay

LEMMA ReadListenKeepsInv ==
  ASSUME WindowInv, NEW c \in Clients, ReadListen(c)
  PROVE  WindowInv'
  <1>1. TypeOK /\ AddressOfGroup /\ GroupSharesAddress /\ OpeningHasWindow
    BY DEF WindowInv
  <1>2. /\ TypeOK' /\ UNCHANGED server /\ pc[c] = "readListen" /\ epoch' = epoch
    BY <1>1, ReadListenKeepsTypes DEF ReadListen, Reads, server
  <1>3. CASE BackToMenu(c, m_pidHash[c]) /\ UNCHANGED windows
    BY <1>1, <1>2, <1>3, ReturnStays, ServerApart
  <1>4. CASE /\ NewWindow(c, "sender", opening[c])
             /\ pc' = [pc EXCEPT ![c] = "readSender"] /\ UNCHANGED opening
    <2>1. opening[c] \in Openings
      BY <1>1, <1>2, TypesFacts
    <2>2. AddressOfGroup' /\ GroupSharesAddress'
      <3>1. \A g \in Created : m_groupNames'[g] = m_groupNames[g]
        BY <1>2 DEF server
      <3>2. \E p \in Pids : /\ windows[p].group = opening[c].group
                            /\ windows[p].addr = opening[c].addr
                            /\ windows[p].epoch = opening[c].epoch
        BY <1>1, <1>2 DEF OpeningHasWindow
      <3> QED
        BY <1>1, <1>2, <1>4, <2>1, <3>1, <3>2, StartedWindow DEF Kinds
    <2>3. Stay
      <3>1. \A p \in Pids : p \in Pids' /\ windows'[p] = windows[p]
        BY <1>1, <1>2, <1>4, <2>1, Appended, TypesFacts DEF Kinds
      <3>2. \A d \in Clients : pc'[d] # "menu" => pc[d] # "menu" /\ opening'[d] = opening[d]
        BY <1>1, <1>2, <1>4 DEF TypeOK
      <3> QED
        BY <3>1, <3>2 DEF Stay
    <2> QED
      BY <1>1, <1>2, <2>2, <2>3, OpeningsStay DEF WindowInv
  <1> QED
    BY <1>3, <1>4 DEF ReadListen

LEMMA ReadSenderKeepsInv ==
  ASSUME WindowInv, NEW c \in Clients, ReadSender(c)
  PROVE  WindowInv'
  <1>1. TypeOK /\ TypeOK' /\ UNCHANGED <<server, windows>>
    BY ReadSenderKeepsTypes DEF WindowInv, ReadSender, Reads
  <1>2. ASSUME NEW pids, BackToMenu(c, pids) PROVE WindowInv'
    BY <1>1, <1>2, ReturnStays, ServerApart
  <1> QED
    BY <1>2 DEF ReadSender, InsertPID

LEMMA WriterKeepsInv ==
  ASSUME WindowInv, NEW p \in Pids, TruncateFile(p) \/ WriteFile(p)
  PROVE  WindowInv'
  <1>1. TypeOK
    BY DEF WindowInv
  <1>2. PICK after \in {"opened", "running"} : \E before : Becomes(p, before, after)
    BY DEF TruncateFile, WriteFile
  <1>3. TypeOK'
    <2>1. CASE TruncateFile(p)
      BY <1>1, <2>1, WriterKeepsTypes DEF TruncateFile
    <2>2. CASE WriteFile(p)
      BY <1>1, <2>2, WriterKeepsTypes DEF WriteFile
    <2> QED
      BY <2>1, <2>2
  <1>4. /\ windows' = [windows EXCEPT ![p].at = after]
        /\ UNCHANGED <<server, client>>
    BY <1>2 DEF Becomes
  <1>5. windows \in Seq(Windows) /\ \A q \in Pids : windows[q] \in Windows
    BY <1>1, TypesFacts
  <1>6. Pids' = Pids
    BY <1>4, <1>5 DEF Pids
  <1>7. \A q \in Pids : /\ windows'[q].group = windows[q].group
                        /\ windows'[q].addr = windows[q].addr
                        /\ windows'[q].epoch = windows[q].epoch
    BY <1>4, <1>5 DEF Windows, Pids
  <1>8. Stay
    BY <1>4, <1>6, <1>7 DEF Stay, client
  <1> QED
    BY <1>3, <1>4, <1>6, <1>8, ServerApart

LEMMA ClientKeepsInv ==
  ASSUME WindowInv, NEW c \in Clients, NewClient(c)
  PROVE  WindowInv'
  <1>1. TypeOK /\ TypeOK' /\ UNCHANGED <<server, windows>> /\ Pids' = Pids
    BY ClientKeepsTypes DEF WindowInv, NewClient, Pids
  <1>2. Stay
    BY <1>1 DEF Stay, NewClient, TypeOK
  <1> QED
    BY <1>1, <1>2, ServerApart

\* The new run has no group and no window yet.
LEMMA ServerKeepsInv ==
  ASSUME WindowInv, RestartServer
  PROVE  WindowInv'
  <1>1. TypeOK /\ TypeOK'
    BY ServerKeepsTypes DEF WindowInv
  <1>2. epoch' = epoch + 1 /\ epoch \in Nat /\ windows' = windows /\ Pids' = Pids
    BY <1>1 DEF RestartServer, TypeOK, Pids
  <1>3. AddressOfGroup'
    <2>1. \A p \in Pids : windows[p].epoch \in 0 .. epoch
      BY <1>1, TypesFacts DEF Windows
    <2> QED
      BY <1>2, <2>1 DEF AddressOfGroup
  <1>4. GroupSharesAddress'
    BY <1>2 DEF WindowInv, GroupSharesAddress
  <1>5. Stay
    BY <1>2 DEF Stay, RestartServer
  <1> QED
    BY <1>1, <1>3, <1>4, <1>5, OpeningsStay DEF WindowInv

LEMMA InitWindowInv == Init => WindowInv
  <1> SUFFICES ASSUME Init PROVE WindowInv
    OBVIOUS
  <1>1. windows = << >> /\ Pids = {} /\ epoch = 0
    BY DEF Init, Pids
  <1>2. TypeOK
    <2>1. windows \in Seq(Windows)
      BY <1>1
    <2>2. file \in [Kinds -> Pids \cup {Absent, Empty, Old}]
      BY DEF Init
    <2>3. /\ m_groupNames \in [Groups -> IPAddrs \cup {NULL}] /\ m_addIPPool \in PoolType
          /\ epoch \in 0 .. MaxRestarts
      BY FullPool, WindowAssumption DEF Init
    <2>4. /\ pc \in [Clients -> {"menu", "readListen", "readSender"}]
          /\ opening \in [Clients -> Openings \cup {NULL}]
          /\ listenPID \in [Clients -> Ids \cup {Absent}]
          /\ m_pidHash \in [Clients -> SUBSET Entries]
          /\ \A c \in Clients : pc[c] = "menu"
          /\ late \in BOOLEAN /\ overlap \in BOOLEAN
      BY DEF Init
    <2> QED
      BY <2>1, <2>2, <2>3, <2>4 DEF TypeOK
  <1>3. AddressOfGroup /\ GroupSharesAddress
    BY <1>1 DEF AddressOfGroup, GroupSharesAddress
  <1>4. OpeningHasWindow
    BY DEF OpeningHasWindow, Init
  <1> QED
    BY <1>2, <1>3, <1>4 DEF WindowInv

\* Every step keeps the addresses of the windows.
LEMMA NextKeepsWindowInv == WindowInv /\ [Next]_vars => WindowInv'
  <1> SUFFICES ASSUME WindowInv, [Next]_vars PROVE WindowInv'
    OBVIOUS
  <1>1. CASE UNCHANGED vars
    <2>1. UNCHANGED <<m_groupNames, m_addIPPool, epoch, pc, opening, listenPID, m_pidHash,
                      windows, file, late, overlap>>
      BY <1>1 DEF vars, server, client, ghosts
    <2>2. Pids' = Pids
      BY <2>1 DEF Pids
    <2>3. TypeOK'
      BY <2>1, <2>2 DEF WindowInv, TypeOK, Ids, Entries, Openings, Windows
    <2>4. AddressOfGroup' /\ GroupSharesAddress' /\ OpeningHasWindow'
      BY <2>1, <2>2 DEF WindowInv, AddressOfGroup, GroupSharesAddress, OpeningHasWindow
    <2> QED
      BY <2>3, <2>4 DEF WindowInv
  <1>2. CASE Next
    BY <1>2, CreateKeepsInv, JoinKeepsInv, ReadListenKeepsInv, ReadSenderKeepsInv,
       ClientKeepsInv, WriterKeepsInv, ServerKeepsInv DEF Next
  <1> QED
    BY <1>1, <1>2

THEOREM WindowInvariant == Spec => []WindowInv
  BY InitWindowInv, NextKeepsWindowInv, PTL DEF Spec

\* The variables have their types: what is noted as a process id was read of a
\* file that a window's program, or a process before it, has written, or of none.
THEOREM WindowTypes == Spec => []TypeOK
  <1>1. WindowInv => TypeOK
    BY DEF WindowInv
  <1> QED
    BY <1>1, WindowInvariant, PTL

\* ListenerProgram.c:83, SenderProgram.c:61: for every number of groups, more
\* than the pool has addresses for too, a line reaches all listening windows that
\* its run of the server has led to for its group.
THEOREM LinesReach == Spec => []LinesReachTheGroup
  <1>1. WindowInv => LinesReachTheGroup
    BY DEF WindowInv, GroupSharesAddress, LinesReachTheGroup, Shown
  <1> QED
    BY <1>1, WindowInvariant, PTL
-----------------------------------------------------------------------------
(***************************************************************************)
(* The process ids.                                                        *)
(***************************************************************************)
\* Nothing lets an opening that came late, or at the time of another, be undone.
LEMMA OrderStaysLost ==
  ASSUME TypeOK, [Next]_vars, ~late', ~overlap'
  PROVE  ~late /\ ~overlap
  <1>1. late \in BOOLEAN /\ overlap \in BOOLEAN
    BY DEF TypeOK
  <1>2. CASE UNCHANGED vars
    BY <1>2 DEF vars, ghosts
  <1>3. ASSUME NEW c \in Clients, NEW g \in Groups,
               Create_New_Group(c, g) \/ Join_To_Group(c, g)
        PROVE  ~late /\ ~overlap
    <2>1. late' = late /\ overlap' = (overlap \/ \E d \in Clients : pc[d] # "menu")
      BY <1>3 DEF Create_New_Group, Join_To_Group, OpenChatWindow
    <2> QED
      BY <1>1, <2>1
  <1>4. ASSUME NEW c \in Clients, ReadListen(c) \/ ReadSender(c) \/ NewClient(c)
        PROVE  ~late /\ ~overlap
    <2>1. CASE Reads(c)
      <3>1. overlap' = overlap /\ late' = (late \/ windows[Own(c)].at \in {"starting", "opened"})
        BY <2>1 DEF Reads
      <3> QED
        BY <1>1, <3>1
    <2>2. CASE NewClient(c)
      <3>1. late' = late /\ overlap' = (overlap \/ pc[c] # "menu")
        BY <2>2 DEF NewClient
      <3> QED
        BY <1>1, <3>1
    <2> QED
      BY <1>4, <2>1, <2>2 DEF ReadListen, ReadSender
  <1>5. ASSUME NEW p \in Pids, TruncateFile(p) \/ WriteFile(p)
        PROVE  ~late /\ ~overlap
    BY <1>5 DEF TruncateFile, WriteFile, Becomes, ghosts
  <1>6. CASE RestartServer
    BY <1>6 DEF RestartServer, ghosts
  <1> QED
    BY <1>2, <1>3, <1>4, <1>5, <1>6 DEF Next

\* While the windows stay what they are, so do the entries of the tables.
LEMMA TablesStay ==
  ASSUME TablesRight,
         \A p \in Pids : /\ p \in Pids' /\ windows'[p].kind = windows[p].kind
                         /\ windows'[p].client = windows[p].client
                         /\ windows'[p].group = windows[p].group,
         \A c \in Clients : m_pidHash'[c] \subseteq m_pidHash[c]
  PROVE  TablesRight'
  BY DEF TablesRight

\* The latest window is the last one of the client that started it.
LEMMA OwnIsLatest ==
  ASSUME TypeOK, NEW c \in Clients, Latest \in Pids, windows[Latest].client = c
  PROVE  Own(c) = Latest
  <1>1. Latest \in Nat
    BY TypesFacts
  <1>2. \A q \in Pids : q \in Nat /\ q <= Latest
    BY <1>1 DEF Pids, Latest
  <1>3. \A q \in Pids : windows[q].client = c => q <= Latest
    BY <1>2
  <1> DEFINE P(p) == /\ windows[p].client = c
                     /\ \A q \in Pids : windows[q].client = c => q <= p
  <1>4. P(Latest)
    BY <1>3
  <1>5. ASSUME NEW p \in Pids, P(p) PROVE p = Latest
    <2>1. p <= Latest /\ Latest <= p /\ p \in Nat
      BY <1>2, <1>5
    <2> QED
      BY <1>1, <2>1
  <1>6. Own(c) = CHOOSE p \in Pids : P(p)
    BY DEF Own
  <1> HIDE DEF P
  <1> QED
    BY <1>4, <1>5, <1>6

\* A file that is read in time holds the id of the window it is read for.
LEMMA ReadInTime ==
  ASSUME TypeOK, NEW c \in Clients, NEW kind \in Kinds, Awaits(c, kind), Reads(c), ~late'
  PROVE  /\ windows[Latest].at = "running" /\ Latest \in Pids
         /\ Scanned(kind) = Latest /\ Scanned(kind) # Absent
  <1>1. Latest \in Pids /\ Own(c) = Latest
    BY OwnIsLatest DEF Awaits, WindowOf
  <1>2. windows[Latest].at \in {"starting", "opened", "running"}
    BY <1>1, TypesFacts DEF Windows
  <1>3. windows[Latest].at = "running"
    BY <1>1, <1>2 DEF Reads
  <1>4. Latest \in Nat /\ 1 <= Latest
    BY <1>1, TypesFacts DEF Pids
  <1>5. file[kind] = Latest
    BY <1>3 DEF Awaits
  <1> QED
    BY <1>1, <1>3, <1>4, <1>5 DEF Scanned, Empty, Absent

\* One opening begins when no other goes on.
LEMMA OpenInTurn ==
  ASSUME TypeOK, OneOpening, TablesRight, NEW c \in Clients, NEW g \in Groups,
         NEW addr \in IPAddrs, NEW key \in {"heap", "stack"},
         OpenChatWindow(c, g, addr, key), ~overlap'
  PROVE  OneOpening' /\ TablesRight'
  <1> DEFINE o == [group |-> g, addr |-> addr, key |-> key, epoch |-> epoch]
             n == Latest + 1
  <1>1. o \in Openings /\ o.group = g
    <2>1. epoch \in 0 .. epoch
      BY WindowAssumption DEF TypeOK
    <2> QED
      BY <2>1 DEF Openings
  <1>2. /\ NewWindow(c, "listen", o) /\ epoch' = epoch /\ m_pidHash' = m_pidHash
        /\ opening' = [opening EXCEPT ![c] = o] /\ pc' = [pc EXCEPT ![c] = "readListen"]
        /\ \A d \in Clients : pc[d] = "menu"
    BY DEF OpenChatWindow
  <1> HIDE DEF o
  <1>3. /\ Latest' = n /\ Pids' = Pids \cup {n} /\ n \notin Pids
        /\ \A p \in Pids : windows'[p] = windows[p]
        /\ windows'[n].kind = "listen" /\ windows'[n].client = c
        /\ windows'[n].group = g /\ windows'[n].at = "starting"
    BY <1>1, <1>2, Appended, TypesFacts DEF Kinds
  <1> HIDE DEF n
  <1>4. /\ pc'[c] = "readListen" /\ opening'[c].group = g
        /\ \A d \in Clients : d # c => pc'[d] = "menu"
    BY <1>1, <1>2 DEF TypeOK
  <1>5. \A p \in Pids : windows[p].at = "running"
    BY <1>2 DEF OneOpening
  <1>6. Awaits(c, "listen")'
    BY <1>3, <1>4 DEF Awaits, WindowOf
  <1>7. OneOpening'
    <2>1. \A d, e \in Clients : pc'[d] # "menu" /\ pc'[e] # "menu" => d = e
      BY <1>4
    <2>2. \A p \in Pids' : windows'[p].at # "running" =>
            p = Latest' /\ \E d \in Clients : pc'[d] # "menu"
      BY <1>3, <1>4, <1>5
    <2>3. \A d \in Clients : pc'[d] = "readListen" => Awaits(d, "listen")'
      BY <1>4, <1>6
    <2>4. \A d \in Clients : pc'[d] # "readSender"
      BY <1>4
    <2> QED
      BY <2>1, <2>2, <2>3, <2>4 DEF OneOpening
  <1>8. TablesRight'
    BY <1>2, <1>3, TablesStay
  <1> QED
    BY <1>7, <1>8

\* The listener's file is read in time, and the window for writing is started.
LEMMA ReadListenInTurn ==
  ASSUME TypeOK, OneOpening, TablesRight, NEW c \in Clients, ReadListen(c), ~late'
  PROVE  OneOpening' /\ TablesRight'
  <1> DEFINE n == Latest + 1
             o == opening[c]
  <1>1. /\ pc[c] = "readListen" /\ Reads(c) /\ Awaits(c, "listen") /\ o \in Openings
        /\ epoch' = epoch
    BY TypesFacts DEF ReadListen, Reads, OneOpening, server
  <1>2. /\ windows[Latest].at = "running" /\ Latest \in Pids
        /\ Scanned("listen") = Latest /\ Scanned("listen") # Absent
    BY <1>1, ReadInTime DEF Kinds
  <1>3. /\ listenPID' = [listenPID EXCEPT ![c] = Latest]
        /\ NewWindow(c, "sender", o) /\ pc' = [pc EXCEPT ![c] = "readSender"]
        /\ opening' = opening /\ m_pidHash' = m_pidHash
    BY <1>2 DEF ReadListen
  <1>4. /\ Latest' = n /\ Pids' = Pids \cup {n} /\ n \notin Pids /\ Latest \in Nat
        /\ \A p \in Pids : windows'[p] = windows[p]
        /\ windows'[n].kind = "sender" /\ windows'[n].client = c
        /\ windows'[n].group = o.group /\ windows'[n].at = "starting"
    BY <1>1, <1>3, Appended, TypesFacts DEF Kinds
  <1>5. Latest = n - 1
    BY <1>4
  <1> HIDE DEF n
  <1>6. /\ pc'[c] = "readSender" /\ opening'[c] = o /\ listenPID'[c] = Latest
        /\ \A d \in Clients : d # c => pc'[d] = "menu"
    <2>1. \A d \in Clients : d # c => pc[d] = "menu"
      BY <1>1 DEF OneOpening
    <2> QED
      BY <1>3, <2>1 DEF TypeOK
  <1> HIDE DEF o
  <1>7. \A p \in Pids : windows[p].at = "running"
    BY <1>2 DEF OneOpening
  <1>8. Awaits(c, "sender")'
    BY <1>4, <1>6 DEF Awaits, WindowOf
  <1>9. /\ listenPID'[c] = Latest' - 1 /\ listenPID'[c] \in Pids'
        /\ WindowOf(listenPID[c], c, "listen")'
    <2>1. WindowOf(Latest, c, "listen")
      BY <1>1 DEF Awaits
    <2> QED
      BY <1>2, <1>4, <1>5, <1>6, <2>1 DEF WindowOf, o
  <1>10. OneOpening'
    <2>1. \A d, e \in Clients : pc'[d] # "menu" /\ pc'[e] # "menu" => d = e
      BY <1>6
    <2>2. \A p \in Pids' : windows'[p].at # "running" =>
            p = Latest' /\ \E d \in Clients : pc'[d] # "menu"
      BY <1>4, <1>6, <1>7
    <2>3. \A d \in Clients : pc'[d] # "readListen"
      BY <1>6
    <2>4. \A d \in Clients : pc'[d] = "readSender" => d = c
      BY <1>6
    <2> QED
      BY <1>8, <1>9, <2>1, <2>2, <2>3, <2>4 DEF OneOpening
  <1>11. TablesRight'
    BY <1>3, <1>4, TablesStay
  <1> QED
    BY <1>10, <1>11

\* The sender's file is read in time, and both ids are noted.
LEMMA ReadSenderInTurn ==
  ASSUME TypeOK, OneOpening, TablesRight, NEW c \in Clients, ReadSender(c), ~late'
  PROVE  OneOpening' /\ TablesRight'
  <1> DEFINE l == listenPID[c]
             e == [group |-> opening[c].group, key |-> opening[c].key,
                   m_sender |-> l, m_listen |-> Latest]
  <1>1. /\ pc[c] = "readSender" /\ Reads(c) /\ Awaits(c, "sender")
        /\ l \in Pids /\ WindowOf(l, c, "listen")
        /\ windows' = windows
    BY DEF ReadSender, OneOpening
  <1>2. /\ windows[Latest].at = "running" /\ Latest \in Pids
        /\ Scanned("sender") = Latest /\ Scanned("sender") # Absent
    BY <1>1, ReadInTime DEF Kinds
  <1>3. PICK pids \in {m_pidHash[c], m_pidHash[c] \cup {e}} : BackToMenu(c, pids)
    BY <1>2 DEF ReadSender, InsertPID
  <1>4. /\ e.m_sender = l /\ e.m_listen = Latest /\ e.group = opening[c].group
    OBVIOUS
  <1> HIDE DEF l, e
  <1>5. /\ \A d \in Clients : pc'[d] = "menu"
        /\ m_pidHash'[c] \subseteq m_pidHash[c] \cup {e}
        /\ \A d \in Clients : d # c => m_pidHash'[d] = m_pidHash[d]
    <2>1. \A d \in Clients : d # c => pc[d] = "menu"
      BY <1>1 DEF OneOpening
    <2> QED
      BY <1>3, <2>1 DEF BackToMenu, TypeOK
  <1>6. Pids' = Pids /\ \A p \in Pids : windows[p].at = "running"
    BY <1>1, <1>2 DEF OneOpening, Pids
  <1>7. OneOpening'
    BY <1>1, <1>5, <1>6 DEF OneOpening
  <1>8. /\ l \in Pids /\ windows[l].kind = "listen" /\ windows[l].client = c
        /\ windows[l].group = opening[c].group
        /\ windows[Latest].kind = "sender" /\ windows[Latest].client = c
        /\ windows[Latest].group = opening[c].group
    BY <1>1 DEF Awaits, WindowOf
  <1>9. TablesRight'
    <2> SUFFICES ASSUME NEW d \in Clients, NEW f \in m_pidHash'[d]
                 PROVE  /\ f.m_sender \in Pids /\ f.m_listen \in Pids
                        /\ windows[f.m_sender].kind = "listen"
                        /\ windows[f.m_listen].kind = "sender"
                        /\ windows[f.m_sender].client = d
                        /\ windows[f.m_sender].group = f.group
                        /\ windows[f.m_listen].client = d
                        /\ windows[f.m_listen].group = f.group
      BY <1>1, <1>6 DEF TablesRight
    <2>1. CASE f \in m_pidHash[d]
      BY <2>1 DEF TablesRight
    <2>2. CASE d = c /\ f = e
      BY <1>2, <1>4, <1>8, <2>2
    <2> QED
      BY <1>5, <2>1, <2>2
  <1> QED
    BY <1>7, <1>9

\* Only the window that is waited for still has its file to write.
LEMMA WriterInTurn ==
  ASSUME TypeOK, OneOpening, TablesRight, NEW p \in Pids, TruncateFile(p) \/ WriteFile(p)
  PROVE  OneOpening' /\ TablesRight'
  <1>1. PICK after \in {"opened", "running"} :
          /\ windows' = [windows EXCEPT ![p].at = after]
          /\ after = "running" => file' = [file EXCEPT ![windows[p].kind] = p]
    BY DEF TruncateFile, WriteFile, Becomes
  <1>2. windows[p].at # "running" /\ UNCHANGED client
    BY DEF TruncateFile, WriteFile, Becomes
  <1>3. windows \in Seq(Windows) /\ \A q \in Pids : windows[q] \in Windows
    BY TypesFacts
  <1>4. p = Latest /\ \E c \in Clients : pc[c] # "menu"
    BY <1>2 DEF OneOpening
  <1>5. /\ Latest' = Latest /\ Pids' = Pids
        /\ windows'[p] = [windows[p] EXCEPT !.at = after]
        /\ \A q \in Pids : q # p => windows'[q] = windows[q]
    BY <1>1, <1>3 DEF Pids, Latest
  <1>6. /\ windows'[p].at = after /\ windows'[p].kind = windows[p].kind
        /\ windows'[p].client = windows[p].client /\ windows'[p].group = windows[p].group
    BY <1>3, <1>5 DEF Windows
  <1>7. \A q \in Pids : /\ windows'[q].kind = windows[q].kind
                        /\ windows'[q].client = windows[q].client
                        /\ windows'[q].group = windows[q].group
    BY <1>5, <1>6
  <1>8. ASSUME NEW c \in Clients, NEW kind \in Kinds, Awaits(c, kind)
        PROVE  Awaits(c, kind)'
    <2>1. WindowOf(Latest, c, kind)'
      BY <1>2, <1>5, <1>7, <1>8 DEF Awaits, WindowOf, client
    <2>2. windows'[p].at = "running" => file'[kind] = p
      <3>1. windows[p].kind = kind
        BY <1>4, <1>8 DEF Awaits, WindowOf
      <3> QED
        BY <1>1, <1>6, <3>1 DEF TypeOK
    <2> QED
      BY <1>4, <1>5, <1>8, <2>1, <2>2 DEF Awaits
  <1>9. OneOpening'
    <2>1. \A q \in Pids' : windows'[q].at # "running" =>
            q = Latest' /\ \E c \in Clients : pc'[c] # "menu"
      BY <1>2, <1>4, <1>5 DEF OneOpening, client
    <2>2. \A c, d \in Clients : pc'[c] # "menu" /\ pc'[d] # "menu" => c = d
      BY <1>2 DEF OneOpening, client
    <2>3. \A c \in Clients : pc'[c] = "readListen" => Awaits(c, "listen")'
      BY <1>2, <1>8 DEF OneOpening, client, Kinds
    <2>4. ASSUME NEW c \in Clients, pc'[c] = "readSender"
          PROVE  /\ Awaits(c, "sender")'
                 /\ listenPID'[c] = Latest' - 1 /\ listenPID'[c] \in Pids'
                 /\ WindowOf(listenPID[c], c, "listen")'
      <3>1. /\ Awaits(c, "sender") /\ listenPID[c] = Latest - 1 /\ listenPID[c] \in Pids
            /\ WindowOf(listenPID[c], c, "listen")
        BY <1>2, <2>4 DEF OneOpening, client
      <3>2. listenPID' = listenPID /\ opening' = opening
        BY <1>2 DEF client
      <3> QED
        BY <1>5, <1>7, <1>8, <3>1, <3>2 DEF WindowOf, Kinds
    <2> QED
      BY <2>1, <2>2, <2>3, <2>4 DEF OneOpening
  <1>10. TablesRight'
    BY <1>2, <1>5, <1>7, TablesStay DEF client
  <1> QED
    BY <1>9, <1>10

\* A client is started again when it is opening nothing, or out of turn.
LEMMA ClientInTurn ==
  ASSUME TypeOK, OneOpening, TablesRight, NEW c \in Clients, NewClient(c), ~overlap'
  PROVE  OneOpening' /\ TablesRight'
  <1>1. pc[c] = "menu" /\ windows' = windows /\ file' = file
    BY DEF NewClient
  <1>2. /\ pc' = pc /\ \A d \in Clients : d # c => /\ opening'[d] = opening[d]
                                                   /\ listenPID'[d] = listenPID[d]
        /\ \A d \in Clients : m_pidHash'[d] \subseteq m_pidHash[d]
    BY <1>1 DEF TypeOK, NewClient
  <1>3. OneOpening'
    BY <1>1, <1>2 DEF OneOpening, Awaits, WindowOf, Latest, Pids
  <1>4. TablesRight'
    BY <1>1, <1>2, TablesStay DEF Pids
  <1> QED
    BY <1>3, <1>4

LEMMA ServerInTurn ==
  ASSUME OneOpening, TablesRight, RestartServer
  PROVE  OneOpening' /\ TablesRight'
  <1>1. /\ UNCHANGED <<pc, opening, listenPID, windows, file>>
        /\ \A c \in Clients : m_pidHash'[c] \subseteq m_pidHash[c]
    BY DEF RestartServer
  <1>2. OneOpening'
    BY <1>1 DEF OneOpening, Awaits, WindowOf, Latest, Pids
  <1>3. TablesRight'
    BY <1>1, TablesStay DEF Pids
  <1> QED
    BY <1>2, <1>3

\* Every step that is in turn and in time keeps the tables right.
LEMMA NextKeepsTurn == WindowInv /\ InTurn /\ [Next]_vars => InTurn'
  <1> SUFFICES ASSUME WindowInv, InTurn, [Next]_vars, ~late', ~overlap'
               PROVE  OneOpening' /\ TablesRight'
    BY DEF InTurn
  <1>1. TypeOK
    BY DEF WindowInv
  <1>2. OneOpening /\ TablesRight
    BY <1>1, OrderStaysLost DEF InTurn
  <1>3. CASE UNCHANGED vars
    BY <1>2, <1>3 DEF vars, server, client, ghosts, OneOpening, TablesRight, Awaits,
                      WindowOf, Latest, Pids
  <1>4. ASSUME NEW c \in Clients, NEW g \in Groups, Create_New_Group(c, g)
        PROVE  OneOpening' /\ TablesRight'
    <2>1. m_groupNames'[g] \in IPAddrs
      BY <1>4, GroupTakesAddress DEF WindowInv, TypeOK, Create_New_Group
    <2> QED
      BY <1>1, <1>2, <1>4, <2>1, OpenInTurn DEF Create_New_Group
  <1>5. ASSUME NEW c \in Clients, NEW g \in Groups, Join_To_Group(c, g)
        PROVE  OneOpening' /\ TablesRight'
    <2>1. m_groupNames[g] \in IPAddrs
      BY <1>1, <1>5 DEF TypeOK, Join_To_Group
    <2> QED
      BY <1>1, <1>2, <1>5, <2>1, OpenInTurn DEF Join_To_Group
  <1>6. ASSUME NEW c \in Clients, ReadListen(c)
        PROVE  OneOpening' /\ TablesRight'
    BY <1>1, <1>2, <1>6, ReadListenInTurn
  <1>7. ASSUME NEW c \in Clients, ReadSender(c)
        PROVE  OneOpening' /\ TablesRight'
    BY <1>1, <1>2, <1>7, ReadSenderInTurn
  <1>8. ASSUME NEW c \in Clients, NewClient(c)
        PROVE  OneOpening' /\ TablesRight'
    BY <1>1, <1>2, <1>8, ClientInTurn
  <1>9. ASSUME NEW p \in Pids, TruncateFile(p) \/ WriteFile(p)
        PROVE  OneOpening' /\ TablesRight'
    BY <1>1, <1>2, <1>9, WriterInTurn
  <1>10. CASE RestartServer
    BY <1>2, <1>10, ServerInTurn
  <1> QED
    BY <1>3, <1>4, <1>5, <1>6, <1>7, <1>8, <1>9, <1>10 DEF Next

\* Client.c:371-428: whatever the number of clients and windows, a table of
\* process ids goes wrong only by a window that starts late or by two openings
\* at a time.
THEOREM TablesNoteOwnWindows == Spec => []PidTableRight
  <1>1. Init => InTurn
    BY DEF Init, InTurn, OneOpening, TablesRight, Pids
  <1>2. InTurn => PidTableRight
    <2> SUFFICES ASSUME TablesRight, NEW c \in Clients, NEW e \in m_pidHash[c]
                 PROVE  /\ {e.m_sender, e.m_listen} \subseteq Pids
                        /\ {windows[p].kind : p \in {e.m_sender, e.m_listen}} = Kinds
                        /\ \A p \in {e.m_sender, e.m_listen} :
                             windows[p].client = c /\ windows[p].group = e.group
      BY DEF InTurn, PidTableRight
    <2> QED
      BY DEF TablesRight, Kinds
  <1> QED
    BY <1>1, <1>2, NextKeepsTurn, WindowInvariant, PTL DEF Spec
=============================================================================
