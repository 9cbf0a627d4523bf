---------------------------- MODULE ChatWindows ----------------------------
(***************************************************************************)
(* The windows of a conversation: OpenChatWindow of Client/Client.c starts *)
(* a terminal with ListenChat/ListenerProgram.c in it, then one with       *)
(* senderChat/SenderProgram.c, and learns their process ids from two files *)
(* that every client in the directory shares.  Terminals are started by a  *)
(* server of their own, so `system` returns at once; windows outlive the   *)
(* client, and the server that gave them their address.  No window is ever *)
(* closed here: a closed one shows nothing, and its id stays where it is.  *)
(***************************************************************************)
EXTENDS IPPool, Integers, FiniteSets

CONSTANTS Clients, Groups,
          GroupBucket,          \* [Groups -> Nat]: HashFunctionGroups
          MaxWindows,           \* bound: windows ever opened
          MaxRestarts           \* bound: how often the server is started again

ASSUME WindowAssumption ==
  /\ MaxWindows \in Nat /\ MaxRestarts \in Nat
  /\ NULL \notin IPAddrs

Kinds == {"listen", "sender"}
Absent == -2                    \* no such file, or no value read yet
Garbage == -1                   \* whatever fscanf leaves in an uninitialised int
Empty == 0                      \* the file was truncated and not yet written
Old == MaxWindows + 1           \* the id of a process of another time

VARIABLES
  m_groupNames, \* the server's groups and their addresses, NULL for none
  m_addIPPool,  \* and the addresses it has left
  epoch,        \* how often it was started again
  pc,           \* per client: where it is in OpenChatWindow
  opening,      \* per client: the window's group, address and key
  listenPID,    \* per client: the local variable of that name
  m_pidHash,    \* per client: its map from groups to process ids
  windows,      \* per process id: the window's program and its arguments
  file,         \* what fileForListen and fileForSender hold
  late,         \* a file was read before the window it was read for wrote it
  overlap       \* two openings went on at a time, or one was broken off

server == <<m_groupNames, m_addIPPool, epoch>>
client == <<pc, opening, listenPID, m_pidHash>>
ghosts == <<late, overlap>>
vars == <<server, client, windows, file, ghosts>>

Pids == 1 .. Len(windows)

Init ==
  /\ m_groupNames = [g \in Groups |-> NULL] /\ m_addIPPool = CreateIP_Multecaste
  /\ epoch = 0
  /\ pc = [c \in Clients |-> "menu"] /\ opening = [c \in Clients |-> NULL]
  /\ listenPID = [c \in Clients |-> Absent]
  /\ m_pidHash = [c \in Clients |-> {}]
  /\ windows = << >>
  /\ file \in [Kinds -> {Absent, Old}]
  /\ late = FALSE /\ overlap = FALSE

\* system("gnome-terminal ... -x ./<kind>.out ...")
NewWindow(c, kind, o) ==
  windows' = Append(windows, [kind |-> kind, client |-> c, group |-> o.group,
                              addr |-> o.addr, epoch |-> o.epoch, at |-> "starting"])

\* The answer names an address, and the listener's window is started.
OpenChatWindow(c, g, addr, key) ==
  LET o == [group |-> g, addr |-> addr, key |-> key, epoch |-> epoch] IN
  /\ opening' = [opening EXCEPT ![c] = o]
  /\ NewWindow(c, "listen", o)
  /\ pc' = [pc EXCEPT ![c] = "readListen"]
  /\ overlap' = (overlap \/ \E d \in Clients : pc[d] # "menu")
  /\ UNCHANGED <<listenPID, m_pidHash, file, late, epoch>>

\* Whoever is opening a listener has a sender still to open.
AtMenu(c) ==
  /\ pc[c] = "menu"
  /\ Len(windows) + 2 + Cardinality({d \in Clients : pc[d] = "readListen"}) <= MaxWindows

\* GetIPAddress gives out the first address again when all are taken.
TakeAddress(g) ==
  /\ m_groupNames' = [m_groupNames EXCEPT ![g] = GetIPAddress(m_addIPPool).ipAddr]
  /\ m_addIPPool' = GetIPAddress(m_addIPPool).pool

\* The group's name is on the heap and stays.  A refused request opens nothing.
Create_New_Group(c, g) ==
  /\ AtMenu(c) /\ m_groupNames[g] = NULL
  /\ TakeAddress(g)
  /\ OpenChatWindow(c, g, m_groupNames'[g], "heap")

\* Defect: whoever joins is given the next address, like whoever creates.
DefectJoin_To_Group(c, g) ==
  /\ AtMenu(c) /\ m_groupNames[g] # NULL
  /\ TakeAddress(g)
  /\ OpenChatWindow(c, g, m_groupNames'[g], "stack")

\* The group's name is an array of InitJoinCreate, at the same place each time.
Join_To_Group(c, g) ==
  /\ AtMenu(c) /\ m_groupNames[g] # NULL
  /\ OpenChatWindow(c, g, m_groupNames[g], "stack")
  /\ UNCHANGED <<m_groupNames, m_addIPPool>>

\* Defect: the listener's file is read both times.
DefectScannedFile(kind) ==
  IF file["listen"] = Empty THEN Garbage ELSE file["listen"]

\* Defect: the variable starts as zero.
DefectScannedZero(kind) == file[kind]

\* fopen and fscanf; without a file there is no result.
Scanned(kind) == IF file[kind] = Empty THEN Garbage ELSE file[kind]

\* The window that client c has started last.
Own(c) == CHOOSE p \in Pids : /\ windows[p].client = c
                              /\ \A q \in Pids : windows[q].client = c => q <= p

Reads(c) ==
  /\ late' = (late \/ windows[Own(c)].at \in {"starting", "opened"})
  /\ UNCHANGED <<server, file, overlap>>

\* The function returns.  A client whose server was started again meanwhile has
\* to be started again too.
BackToMenu(c, pids) ==
  /\ pc' = [pc EXCEPT ![c] = "menu"]
  /\ opening' = [opening EXCEPT ![c] = NULL]
  /\ listenPID' = [listenPID EXCEPT ![c] = Absent]
  /\ m_pidHash' = [m_pidHash EXCEPT ![c] = IF opening[c].epoch = epoch THEN pids ELSE {}]

\* Without the file no window for writing is opened; the user is told of
\* success all the same.
ReadListen(c) ==
  /\ pc[c] = "readListen" /\ Reads(c)
  /\ \/ /\ Scanned("listen") = Absent
        /\ BackToMenu(c, m_pidHash[c]) /\ UNCHANGED windows
     \/ /\ Scanned("listen") # Absent
        /\ listenPID' = [listenPID EXCEPT ![c] = Scanned("listen")]
        /\ NewWindow(c, "sender", opening[c])
        /\ pc' = [pc EXCEPT ![c] = "readSender"]
        /\ UNCHANGED <<opening, m_pidHash>>

\* An entry whose key is on the stack reads like the group that is joined, and
\* like anything in a creation.
Bucket(c, g) == {e \in m_pidHash[c] : GroupBucket[e.group] = GroupBucket[g]}
Duplicate(c, o) ==
  {e \in Bucket(c, o.group) : \/ e.key = "heap" /\ e.group = o.group
                              \/ e.key = "stack" /\ o.key = "stack"}
MaybeDuplicate(c, o) == {e \in Bucket(c, o.group) : e.key = "stack"}

\* The parameters are the sender's id, then the listener's; the call passes the
\* listener's first, so each is stored under the other's name.
InsertPID(c, o, _pidSender, _pidListener) ==
  \/ /\ Duplicate(c, o) = {}
     /\ BackToMenu(c, m_pidHash[c] \cup
          {[group |-> o.group, key |-> o.key,
            m_sender |-> _pidSender, m_listen |-> _pidListener]})
  \/ /\ Duplicate(c, o) \cup MaybeDuplicate(c, o) # {}
     /\ BackToMenu(c, m_pidHash[c])

ReadSender(c) ==
  /\ pc[c] = "readSender" /\ Reads(c)
  /\ \/ Scanned("sender") = Absent /\ BackToMenu(c, m_pidHash[c])
     \/ /\ Scanned("sender") # Absent
        /\ InsertPID(c, opening[c], listenPID[c], Scanned("sender"))
  /\ UNCHANGED windows

Becomes(p, before, after) ==
  /\ windows[p].at = before
  /\ windows' = [windows EXCEPT ![p].at = after]
  /\ UNCHANGED <<server, client, ghosts>>

\* fopen(..., "w") truncates the file, fclose writes the id.
TruncateFile(p) ==
  /\ Becomes(p, "starting", "opened")
  /\ file' = [file EXCEPT ![windows[p].kind] = Empty]
WriteFile(p) ==
  /\ Becomes(p, "opened", "running")
  /\ file' = [file EXCEPT ![windows[p].kind] = p]

\* A client is ended, wherever it is, and started again.
NewClient(c) ==
  /\ pc' = [pc EXCEPT ![c] = "menu"]
  /\ opening' = [opening EXCEPT ![c] = NULL]
  /\ listenPID' = [listenPID EXCEPT ![c] = Absent]
  /\ m_pidHash' = [m_pidHash EXCEPT ![c] = {}]
  /\ overlap' = (overlap \/ pc[c] # "menu")
  /\ UNCHANGED <<server, windows, file, late>>

\* The server is ended and started again: nothing of its groups is stored.  Its
\* clients have lost it and are started again, their windows stay.
RestartServer ==
  /\ epoch < MaxRestarts /\ epoch' = epoch + 1
  /\ m_groupNames' = [g \in Groups |-> NULL] /\ m_addIPPool' = CreateIP_Multecaste
  /\ m_pidHash' = [c \in Clients |-> IF pc[c] = "menu" THEN {} ELSE m_pidHash[c]]
  /\ UNCHANGED <<pc, opening, listenPID, windows, file, ghosts>>

Next ==
  \/ \E c \in Clients, g \in Groups : Create_New_Group(c, g) \/ Join_To_Group(c, g)
  \/ \E c \in Clients : ReadListen(c) \/ ReadSender(c) \/ NewClient(c)
  \/ \E p \in Pids : TruncateFile(p) \/ WriteFile(p)
  \/ RestartServer

Spec == Init /\ [][Next]_vars
-----------------------------------------------------------------------------
Ids == Pids \cup {Old, Garbage}
Entries == [group : Groups, key : {"heap", "stack"}, m_sender : Ids, m_listen : Ids]
Openings == [group : Groups, addr : IPAddrs, key : {"heap", "stack"}, epoch : 0 .. epoch]
Windows == [kind : Kinds, client : Clients, group : Groups, addr : IPAddrs,
            epoch : 0 .. epoch, at : {"starting", "opened", "running"}]

\* The variables have their types, and what was read of a file is the id of a
\* window, of a process of another time, or nothing that was ever written.
TypeOK ==
  /\ m_groupNames \in [Groups -> IPAddrs \cup {NULL}] /\ m_addIPPool \in PoolType
  /\ epoch \in 0 .. MaxRestarts
  /\ pc \in [Clients -> {"menu", "readListen", "readSender"}]
  /\ opening \in [Clients -> Openings \cup {NULL}]
  /\ listenPID \in [Clients -> Ids \cup {Absent}]
  /\ \A c \in Clients : /\ pc[c] # "menu" => opening[c] \in Openings
                        /\ pc[c] = "readSender" => listenPID[c] \in Ids
  /\ m_pidHash \in [Clients -> SUBSET Entries]
  /\ windows \in Seq(Windows)
  /\ file \in [Kinds -> Pids \cup {Absent, Empty, Old}]
  /\ late \in BOOLEAN /\ overlap \in BOOLEAN

\* A line written in window s is shown in window l: both programs run, and the
\* listener is bound to the address the sender sends to.
Shown(s, l) ==
  /\ windows[s].kind = "sender" /\ windows[s].at = "running"
  /\ windows[l].kind = "listen" /\ windows[l].at = "running"
  /\ windows[s].addr = windows[l].addr

\* ListenerProgram.c:83, SenderProgram.c:61: a line reaches every listening
\* window that one run of the server has led to for the line's group, whoever
\* created or joined it, whatever the windows race for, and also for windows that
\* outlive that run.  It may reach others too: with more groups than addresses,
\* and after a restart, an address is given out a second time.
LinesReachTheGroup ==
  \A s, l \in Pids :
    /\ windows[s].kind = "sender" /\ windows[s].at = "running"
    /\ windows[l].kind = "listen" /\ windows[l].at = "running"
    /\ windows[s].epoch = windows[l].epoch /\ windows[s].group = windows[l].group
    => Shown(s, l)

\* Client.c:371-428: as long as windows start in time and one opening goes on at
\* a time, the ids a client has noted for a group are those of its own two
\* windows of that group, one of each program.
PidTableRight ==
  ~late /\ ~overlap =>
    \A c \in Clients : \A e \in m_pidHash[c] :
      /\ {e.m_sender, e.m_listen} \subseteq Pids
      /\ {windows[p].kind : p \in {e.m_sender, e.m_listen}} = Kinds
      /\ \A p \in {e.m_sender, e.m_listen} :
           windows[p].client = c /\ windows[p].group = e.group
=============================================================================
