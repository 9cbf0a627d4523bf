--------------------------- MODULE ServerTCPProofs ---------------------------
(***************************************************************************)
(* Proofs about the server's event loop, for every number of clients, every *)
(* limit and every waiting time.                                           *)
(*                                                                         *)
(* The argument.  Between select and the end of the round the descriptors  *)
(* that select found ready are looked up in a list that changes: a client  *)
(* is accepted at its tail, a served one moves to its head, a gone one is  *)
(* taken out.  What is still to be served lies at or behind the iterator,  *)
(* and nothing that the loop does there makes it unreadable (Pending).     *)
(***************************************************************************)
EXTENDS ServerTCP, RoundArithmetic, SequenceTheorems, FiniteSetTheorems,
        FunctionTheorems, TLAPS

NoneTwice(list) == \A i, j \in DOMAIN list : list[i] = list[j] => i = j

\* The kernel's queue holds the connections that wait in it, once each.
BacklogAgrees ==
  /\ NoneTwice(backlog)
  /\ \A c \in Conns : sock[c] = "backlog" <=> c \in Clients(backlog)

\* The list holds no client twice even after the process has died.
ListAgrees == NoneTwice(m_List_connectedClient) /\ DescriptorsAgree

\* The clients at or behind the iterator that select found ready still are.
Pending ==
  pc = "serve" =>
    \A i \in DOMAIN m_List_connectedClient : m_List_connectedClient[i] = iter =>
      \A j \in i .. Len(m_List_connectedClient) :
        m_List_connectedClient[j] \in m_forSelect_fds => Readable(m_List_connectedClient[j])

\* What a step of RunServer's loop finds of the steps before it.
RoundAgrees ==
  /\ pc \in {"poll", "select", "accept"} => m_forSelect_fds \subseteq m_master_fds
  /\ pc = "poll" => \/ m_timeout = Forever
                    \/ /\ m_List_connectedClient # << >>
                       /\ m_client_timeout[Head(m_List_connectedClient)] <= m_timeout
  /\ pc = "accept" =>
       /\ backlog # << >>
       /\ \A c \in Conns : c \in m_forSelect_fds => Readable(c)
  /\ pc = "serve" => iter \in Clients(m_List_connectedClient) \cup {End}
  /\ Pending

LoopInv == TypeOK /\ BacklogAgrees /\ ListAgrees /\ RoundAgrees
-----------------------------------------------------------------------------
(***************************************************************************)
(* The client list: what its functions do to the places in it.             *)
(***************************************************************************)

\* A place of a list holds a connection.
LEMMA Places ==
  ASSUME NEW list \in Seq(Conns)
  PROVE  /\ Len(list) \in Nat /\ DOMAIN list = 1 .. Len(list)
         /\ \A i \in 1 .. Len(list) : list[i] \in Conns
         /\ Clients(list) \subseteq Conns
         /\ list # << >> => Len(list) > 0 /\ Head(list) = list[1]
         /\ list = << >> => Len(list) = 0 /\ Clients(list) = {}
  BY DEF Clients

\* The iterator that begins at the head (ListItr_Begin).
LEMMA BeginPlace ==
  ASSUME NEW list \in Seq(Conns)
  PROVE  /\ list # << >> => ListItr_Begin(list) = list[1] /\ 1 \in DOMAIN list
         /\ ListItr_Begin(list) \in Clients(list) \cup {End}
  <1>1. CASE list = << >>
    BY <1>1 DEF ListItr_Begin
  <1>2. CASE list # << >>
    BY <1>2, Places DEF ListItr_Begin, Clients
  <1> QED
    BY <1>1, <1>2

\* The iterator goes to the next place, or past the last one (ListItr_Next).
LEMMA NextPlace ==
  ASSUME NEW list \in Seq(Conns), NoneTwice(list), NEW p \in 1 .. Len(list)
  PROVE  ListItr_Next(list, list[p]) = IF p = Len(list) THEN End ELSE list[p + 1]
  <1> DEFINE later == {i \in 2 .. Len(list) : list[i - 1] = list[p]}
  <1>1. DOMAIN list = 1 .. Len(list) /\ Len(list) \in Nat
    BY Places
  <1>2. ASSUME NEW i \in 2 .. Len(list) PROVE list[i - 1] = list[p] <=> i = p + 1
    <2>1. i - 1 \in DOMAIN list /\ p \in DOMAIN list
      BY <1>1
    <2> QED
      BY <1>1, <2>1 DEF NoneTwice
  <1>3. CASE p = Len(list)
    <2>1. later = {}
      BY <1>1, <1>2, <1>3
    <2> QED
      BY <1>3, <2>1 DEF ListItr_Next
  <1>4. CASE p # Len(list)
    <2>1. later = {p + 1}
      <3>1. p + 1 \in 2 .. Len(list)
        <4>1. Len(list) \in Nat /\ p \in Nat /\ 1 <= p /\ p <= Len(list)
          BY <1>1
        <4> HIDE DEF later
        <4> QED
          BY <1>4, <4>1
      <3>2. \A i : i \in later <=> i = p + 1
        BY <1>2, <3>1
      <3> QED
        BY <3>2
    <2>2. (CHOOSE i \in later : TRUE) = p + 1
      BY <2>1
    <2> QED
      BY <1>4, <2>1, <2>2 DEF ListItr_Next
  <1> QED
    BY <1>3, <1>4

\* Two lists in a row.
LEMMA Joined ==
  ASSUME NEW a \in Seq(Conns), NEW z \in Seq(Conns)
  PROVE  /\ a \o z \in Seq(Conns)
         /\ Len(a \o z) = Len(a) + Len(z)
         /\ \A j \in 1 .. Len(a) : (a \o z)[j] = a[j]
         /\ \A j \in 1 .. Len(z) : (a \o z)[j + Len(a)] = z[j]
  OBVIOUS

\* What is left of a list without its first p places.
LEMMA Behind ==
  ASSUME NEW list \in Seq(Conns), NEW p \in 0 .. Len(list)
  PROVE  /\ SubSeq(list, p + 1, Len(list)) \in Seq(Conns)
         /\ Len(SubSeq(list, p + 1, Len(list))) = Len(list) - p
         /\ \A j \in 1 .. Len(list) - p : SubSeq(list, p + 1, Len(list))[j] = list[j + p]
  <1>1. /\ Len(list) \in Nat /\ p + 1 \in Int /\ Len(list) \in Int
        /\ \A i \in p + 1 .. Len(list) : list[i] \in Conns
    BY Places
  <1> DEFINE z == SubSeq(list, p + 1, Len(list))
             n == Len(list)
  <1>2. /\ z \in Seq(Conns)
        /\ Len(z) = IF p + 1 <= n THEN n - (p + 1) + 1 ELSE 0
        /\ \A j \in 1 .. n - (p + 1) + 1 : z[j] = list[(p + 1) + j - 1]
    BY <1>1, SubSeqProperties
  <1>3. n \in Nat /\ p \in 0 .. n
    BY <1>1
  <1> HIDE DEF z, n
  <1>4. (IF p + 1 <= n THEN n - (p + 1) + 1 ELSE 0) = n - p /\ n - (p + 1) + 1 = n - p
    BY <1>3
  <1>5. ASSUME NEW j \in 1 .. n - p PROVE z[j] = list[j + p]
    <2>1. z[j] = list[(p + 1) + j - 1]
      BY <1>2, <1>4
    <2>2. (p + 1) + j - 1 = j + p
      BY <1>3
    <2> QED
      BY <2>1, <2>2
  <1> QED
    BY <1>2, <1>4, <1>5 DEF z, n

\* Taking a client out moves those behind it up by one (ListItr_Remove).
LEMMA WithoutPlace ==
  ASSUME NEW list \in Seq(Conns), NoneTwice(list), NEW p \in 1 .. Len(list)
  PROVE  /\ Without(list, list[p]) \in Seq(Conns)
         /\ Len(Without(list, list[p])) = Len(list) - 1
         /\ \A j \in 1 .. Len(list) - 1 :
              Without(list, list[p])[j] = IF j < p THEN list[j] ELSE list[j + 1]
  <1> DEFINE a == SubSeq(list, 1, p - 1)
             z == SubSeq(list, p + 1, Len(list))
             w == Without(list, list[p])
  <1>1. Len(list) \in Nat /\ p \in Nat \ {0} /\ DOMAIN list = 1 .. Len(list)
    BY Places
  <1>2. (CHOOSE i \in DOMAIN list : list[i] = list[p]) = p
    BY <1>1 DEF NoneTwice
  <1>3. a \in Seq(Conns) /\ Len(a) = p - 1 /\ \A j \in 1 .. p - 1 : a[j] = list[j]
    BY <1>1
  <1>4. z \in Seq(Conns) /\ Len(z) = Len(list) - p
        /\ \A j \in 1 .. Len(list) - p : z[j] = list[j + p]
    <2>1. p \in 0 .. Len(list)
      BY <1>1
    <2> QED
      BY <2>1, Behind
  <1>5. w = a \o z
    BY <1>2 DEF Without
  <1> HIDE DEF a, z, w
  <1>6. w \in Seq(Conns)
    BY <1>3, <1>4, <1>5, Joined
  <1>7. Len(w) = Len(list) - 1
    <2>1. Len(a \o z) = Len(a) + Len(z)
      BY <1>3, <1>4, Joined
    <2> QED
      BY <1>1, <1>3, <1>4, <1>5, <2>1
  <1>8. ASSUME NEW j \in 1 .. Len(list) - 1, j < p PROVE w[j] = list[j]
    <2>1. j \in 1 .. Len(a)
      BY <1>1, <1>3, <1>8
    <2>2. (a \o z)[j] = a[j]
      BY <1>3, <1>4, <2>1, Joined
    <2> QED
      BY <1>3, <1>5, <2>1, <2>2
  <1>9. ASSUME NEW j \in 1 .. Len(list) - 1, ~ j < p PROVE w[j] = list[j + 1]
    <2> DEFINE i == j - (p - 1)
    <2>1. i \in 1 .. Len(z) /\ i + Len(a) = j /\ i + p = j + 1
      BY <1>1, <1>3, <1>4, <1>9
    <2>2. (a \o z)[i + Len(a)] = z[i]
      BY <1>3, <1>4, <2>1, Joined
    <2> QED
      BY <1>1, <1>4, <1>5, <2>1, <2>2
  <1> QED
    BY <1>6, <1>7, <1>8, <1>9 DEF w

\* A served client comes first, those before it move back by one.
LEMMA ServedPlace ==
  ASSUME NEW list \in Seq(Conns), NoneTwice(list), NEW p \in 1 .. Len(list)
  PROVE  /\ Served(list, list[p]) \in Seq(Conns)
         /\ Len(Served(list, list[p])) = Len(list)
         /\ Served(list, list[p])[1] = list[p]
         /\ \A j \in 2 .. Len(list) :
              Served(list, list[p])[j] = IF j <= p THEN list[j - 1] ELSE list[j]
  <1> DEFINE w == Without(list, list[p])
             h == <<list[p]>>
  <1>1. Len(list) \in Nat /\ list[p] \in Conns
    BY Places
  <1>2. /\ w \in Seq(Conns) /\ Len(w) = Len(list) - 1
        /\ \A j \in 1 .. Len(list) - 1 : w[j] = IF j < p THEN list[j] ELSE list[j + 1]
    BY WithoutPlace
  <1>3. h \in Seq(Conns) /\ Len(h) = 1 /\ h[1] = list[p]
    BY <1>1
  <1>4. Served(list, list[p]) = h \o w
    BY DEF Served
  <1> HIDE DEF w, h
  <1>5. /\ h \o w \in Seq(Conns) /\ Len(h \o w) = Len(h) + Len(w)
        /\ \A j \in 1 .. Len(h) : (h \o w)[j] = h[j]
        /\ \A j \in 1 .. Len(w) : (h \o w)[j + Len(h)] = w[j]
    BY <1>2, <1>3, Joined
  <1>6. Len(h \o w) = Len(list) /\ (h \o w)[1] = list[p]
    BY <1>1, <1>2, <1>3, <1>5
  <1>7. ASSUME NEW j \in 2 .. Len(list)
        PROVE  (h \o w)[j] = IF j <= p THEN list[j - 1] ELSE list[j]
    <2> DEFINE i == j - 1
    <2>1. i \in 1 .. Len(w) /\ i + Len(h) = j /\ i \in 1 .. Len(list) - 1
          /\ i + 1 = j /\ (i < p <=> j <= p)
      BY <1>1, <1>2, <1>3
    <2>2. (h \o w)[j] = w[i]
      BY <1>5, <2>1
    <2> HIDE DEF i
    <2>3. w[i] = IF i < p THEN list[i] ELSE list[i + 1]
      BY <1>2, <2>1
    <2>4. i = j - 1
      BY <2>1
    <2> QED
      BY <2>1, <2>2, <2>3, <2>4
  <1> QED
    BY <1>4, <1>5, <1>6, <1>7

\* The clients of a list are those at its places.
LEMMA ClientsAt ==
  ASSUME NEW list \in Seq(Conns)
  PROVE  \A c : c \in Clients(list) <=> \E i \in 1 .. Len(list) : list[i] = c
  BY Places DEF Clients

\* ListItr_Remove takes out one client and leaves the others.
LEMMA WithoutClients ==
  ASSUME NEW list \in Seq(Conns), NoneTwice(list), NEW p \in 1 .. Len(list)
  PROVE  /\ Clients(Without(list, list[p])) = Clients(list) \ {list[p]}
         /\ NoneTwice(Without(list, list[p]))
  <1> DEFINE w == Without(list, list[p])
             n == Len(list)
  <1>1. /\ w \in Seq(Conns) /\ Len(w) = n - 1
        /\ \A j \in 1 .. n - 1 : w[j] = IF j < p THEN list[j] ELSE list[j + 1]
    BY WithoutPlace
  <1>2. n \in Nat /\ p \in 1 .. n /\ DOMAIN list = 1 .. n /\ DOMAIN w = 1 .. n - 1
    BY <1>1, Places
  <1>3. /\ \A c : c \in Clients(list) <=> \E i \in 1 .. n : list[i] = c
        /\ \A c : c \in Clients(w) <=> \E i \in 1 .. n - 1 : w[i] = c
    BY <1>1, ClientsAt
  <1>4. \A i, j \in 1 .. n : list[i] = list[j] => i = j
    BY <1>2 DEF NoneTwice
  <1> HIDE DEF w, n
  <1>5. ASSUME NEW c, c \in Clients(w) PROVE c \in Clients(list) \ {list[p]}
    <2>1. PICK j \in 1 .. n - 1 : w[j] = c
      BY <1>3, <1>5
    <2>2. CASE j < p
      <3>1. j \in 1 .. n /\ j # p /\ list[j] = c
        BY <1>1, <1>2, <2>1, <2>2
      <3> QED
        BY <1>2, <1>3, <1>4, <3>1
    <2>3. CASE ~ j < p
      <3>1. j + 1 \in 1 .. n /\ j + 1 # p /\ list[j + 1] = c
        BY <1>1, <1>2, <2>1, <2>3
      <3> QED
        BY <1>2, <1>3, <1>4, <3>1
    <2> QED
      BY <2>2, <2>3
  <1>6. ASSUME NEW c, c \in Clients(list) \ {list[p]} PROVE c \in Clients(w)
    <2>1. PICK j \in 1 .. n : list[j] = c
      BY <1>3, <1>6
    <2>2. j # p
      BY <1>6, <2>1
    <2>3. CASE j < p
      <3>1. j \in 1 .. n - 1 /\ w[j] = c
        BY <1>1, <1>2, <2>1, <2>3
      <3> QED
        BY <1>3, <3>1
    <2>4. CASE ~ j < p
      <3>1. j - 1 \in 1 .. n - 1 /\ ~ (j - 1) < p /\ (j - 1) + 1 = j
        BY <1>2, <2>2, <2>4
      <3>2. w[j - 1] = c
        BY <1>1, <2>1, <3>1
      <3> QED
        BY <1>3, <3>1, <3>2
    <2> QED
      BY <2>3, <2>4
  <1>7. ASSUME NEW i \in 1 .. n - 1, NEW j \in 1 .. n - 1, w[i] = w[j] PROVE i = j
    <2> DEFINE at(k) == IF k < p THEN k ELSE k + 1
    <2>1. at(i) \in 1 .. n /\ at(j) \in 1 .. n /\ list[at(i)] = w[i] /\ list[at(j)] = w[j]
      BY <1>1, <1>2
    <2>2. at(i) = at(j)
      BY <1>4, <1>7, <2>1
    <2> QED
      BY <1>2, <2>2
  <1> QED
    BY <1>2, <1>5, <1>6, <1>7 DEF NoneTwice, w

\* A served client stays in the list.
LEMMA ServedClients ==
  ASSUME NEW list \in Seq(Conns), NoneTwice(list), NEW p \in 1 .. Len(list)
  PROVE  /\ Clients(Served(list, list[p])) = Clients(list)
         /\ NoneTwice(Served(list, list[p]))
  <1> DEFINE s == Served(list, list[p])
             n == Len(list)
  <1>1. /\ s \in Seq(Conns) /\ Len(s) = n /\ s[1] = list[p]
        /\ \A j \in 2 .. n : s[j] = IF j <= p THEN list[j - 1] ELSE list[j]
    BY ServedPlace
  <1>2. n \in Nat /\ p \in 1 .. n /\ DOMAIN list = 1 .. n /\ DOMAIN s = 1 .. n
    BY <1>1, Places
  <1>3. /\ \A c : c \in Clients(list) <=> \E i \in 1 .. n : list[i] = c
        /\ \A c : c \in Clients(s) <=> \E i \in 1 .. n : s[i] = c
    BY <1>1, ClientsAt
  <1>4. \A i, j \in 1 .. n : list[i] = list[j] => i = j
    BY <1>2 DEF NoneTwice
  <1> DEFINE at(k) == IF k = 1 THEN p ELSE IF k <= p THEN k - 1 ELSE k
  <1> HIDE DEF s, n
  <1>5. \A k \in 1 .. n : at(k) \in 1 .. n /\ s[k] = list[at(k)]
    BY <1>1, <1>2
  <1>6. \A i, j \in 1 .. n : at(i) = at(j) => i = j
    BY <1>2
  <1>7. ASSUME NEW k \in 1 .. n PROVE \E i \in 1 .. n : at(i) = k
    <2>1. CASE k = p
      BY <1>2, <2>1
    <2>2. CASE k < p
      <3>1. k + 1 \in 1 .. n /\ at(k + 1) = k
        BY <1>2, <2>2
      <3> QED
        BY <3>1
    <2>3. CASE k > p
      <3>1. at(k) = k
        BY <1>2, <2>3
      <3> QED
        BY <3>1
    <2> QED
      BY <1>2, <2>1, <2>2, <2>3
  <1> HIDE DEF at
  <1>8. \A c : c \in Clients(s) <=> c \in Clients(list)
    <2>1. ASSUME NEW c, c \in Clients(s) PROVE c \in Clients(list)
      BY <1>3, <1>5, <2>1
    <2>2. ASSUME NEW c, c \in Clients(list) PROVE c \in Clients(s)
      <3>1. PICK k \in 1 .. n : list[k] = c
        BY <1>3, <2>2
      <3>2. PICK i \in 1 .. n : at(i) = k
        BY <1>7
      <3>3. s[i] = c
        BY <1>5, <3>1, <3>2
      <3> QED
        BY <1>3, <3>3
    <2> QED
      BY <2>1, <2>2
  <1>9. NoneTwice(s)
    BY <1>2, <1>4, <1>5, <1>6 DEF NoneTwice
  <1> QED
    BY <1>8, <1>9 DEF s

\* A connection is pushed behind the others (List_PushTail, the kernel's queue).
LEMMA AppendClients ==
  ASSUME NEW list \in Seq(Conns), NoneTwice(list), NEW c \in Conns \ Clients(list)
  PROVE  /\ Append(list, c) \in Seq(Conns) /\ Len(Append(list, c)) = Len(list) + 1
         /\ \A j \in 1 .. Len(list) : Append(list, c)[j] = list[j]
         /\ Append(list, c)[Len(list) + 1] = c
         /\ Clients(Append(list, c)) = Clients(list) \cup {c}
         /\ NoneTwice(Append(list, c))
  <1> DEFINE a == Append(list, c)
             n == Len(list)
  <1>1. /\ a \in Seq(Conns) /\ Len(a) = n + 1
        /\ \A j \in 1 .. n : a[j] = list[j]
        /\ a[n + 1] = c
    BY AppendProperties
  <1>2. n \in Nat /\ DOMAIN list = 1 .. n /\ DOMAIN a = 1 .. n + 1
    BY <1>1, Places
  <1>3. /\ \A d : d \in Clients(list) <=> \E i \in 1 .. n : list[i] = d
        /\ \A d : d \in Clients(a) <=> \E i \in 1 .. n + 1 : a[i] = d
    <2>1. \A d : d \in Clients(a) <=> \E i \in 1 .. Len(a) : a[i] = d
      <3> HIDE DEF a
      <3> QED
        BY <1>1, ClientsAt
    <2> QED
      BY <1>1, <2>1, ClientsAt
  <1>4. \A i, j \in 1 .. n : list[i] = list[j] => i = j
    BY <1>2 DEF NoneTwice
  <1> HIDE DEF a, n
  <1>5. \A i \in 1 .. n + 1 : i \in 1 .. n \/ i = n + 1
    BY <1>2
  <1>6. 1 .. n \subseteq 1 .. n + 1 /\ n + 1 \in 1 .. n + 1
    BY <1>2
  <1>7. \A d : d \in Clients(a) <=> d \in Clients(list) \cup {c}
    BY <1>1, <1>3, <1>5, <1>6
  <1>8. NoneTwice(a)
    <2> SUFFICES ASSUME NEW i \in 1 .. n + 1, NEW j \in 1 .. n + 1, a[i] = a[j]
                 PROVE  i = j
      BY <1>2 DEF NoneTwice
    <2>1. \A k \in 1 .. n : a[k] # c
      BY <1>1, <1>3
    <2> QED
      BY <1>1, <1>4, <1>5, <2>1
  <1> QED
    BY <1>1, <1>7, <1>8 DEF a, n

\* The first p are taken off (Check_expiry_of_Clients, accept).
LEMMA BehindClients ==
  ASSUME NEW list \in Seq(Conns), NoneTwice(list), NEW p \in 0 .. Len(list)
  PROVE  /\ Clients(SubSeq(list, p + 1, Len(list)))
              = Clients(list) \ {list[i] : i \in 1 .. p}
         /\ NoneTwice(SubSeq(list, p + 1, Len(list)))
  <1> DEFINE z == SubSeq(list, p + 1, Len(list))
             n == Len(list)
             first == {list[i] : i \in 1 .. p}
  <1>1. /\ z \in Seq(Conns) /\ Len(z) = n - p
        /\ \A j \in 1 .. n - p : z[j] = list[j + p]
    BY Behind
  <1>2. n \in Nat /\ p \in 0 .. n /\ DOMAIN list = 1 .. n /\ DOMAIN z = 1 .. n - p
    BY <1>1, Places
  <1>3. /\ \A c : c \in Clients(list) <=> \E i \in 1 .. n : list[i] = c
        /\ \A c : c \in Clients(z) <=> \E i \in 1 .. n - p : z[i] = c
    BY <1>1, ClientsAt
  <1>4. \A i, j \in 1 .. n : list[i] = list[j] => i = j
    BY <1>2 DEF NoneTwice
  <1> HIDE DEF z, n
  <1>5. ASSUME NEW c, c \in Clients(z) PROVE c \in Clients(list) \ first
    <2>1. PICK j \in 1 .. n - p : z[j] = c
      BY <1>3, <1>5
    <2>2. j + p \in 1 .. n /\ list[j + p] = c /\ \A i \in 1 .. p : i \in 1 .. n /\ i # j + p
      BY <1>1, <1>2, <2>1
    <2> QED
      BY <1>3, <1>4, <2>2
  <1>6. ASSUME NEW c, c \in Clients(list) \ first PROVE c \in Clients(z)
    <2>1. PICK j \in 1 .. n : list[j] = c
      BY <1>3, <1>6
    <2>2. j \notin 1 .. p
      BY <1>6, <2>1
    <2>3. j - p \in 1 .. n - p /\ (j - p) + p = j
      BY <1>2, <2>2
    <2> QED
      BY <1>1, <1>3, <2>1, <2>3
  <1>7. NoneTwice(z)
    <2> SUFFICES ASSUME NEW i \in 1 .. n - p, NEW j \in 1 .. n - p, z[i] = z[j]
                 PROVE  i = j
      BY <1>2 DEF NoneTwice
    <2>1. i + p \in 1 .. n /\ j + p \in 1 .. n
      BY <1>2
    <2>2. i + p = j + p
      BY <1>1, <1>4, <2>1
    <2> QED
      BY <1>2, <2>2
  <1> QED
    BY <1>5, <1>6, <1>7 DEF z

\* The clients whose time is over and that are dropped are the first few of
\* the list (Check_expiry_of_Clients).
LEMMA ExpiredFirst ==
  ASSUME TypeOK
  PROVE  \E k \in 0 .. Len(m_List_connectedClient) :
           ExpiredPrefix = 1 .. k /\ Cardinality(ExpiredPrefix) = k
  <1> DEFINE n == Len(m_List_connectedClient)
             E == ExpiredPrefix
             Over(i) == m_client_timeout[m_List_connectedClient[i]] < 0
  <1>1. n \in Nat /\ DOMAIN m_List_connectedClient = 1 .. n
    BY Places DEF TypeOK
  <1>2. \A i : i \in E <=> i \in 1 .. n /\ \A j \in 1 .. i : Over(j)
    BY <1>1 DEF ExpiredPrefix
  <1> HIDE DEF n, E, Over
  <1>3. ASSUME NEW i \in E, NEW j \in 1 .. i PROVE j \in E
    <2>1. i \in 1 .. n /\ \A l \in 1 .. i : Over(l)
      BY <1>2
    <2>2. j \in 1 .. n /\ 1 .. j \subseteq 1 .. i
      BY <1>1, <2>1
    <2> QED
      BY <1>2, <2>1, <2>2
  <1>4. \E k \in 0 .. n : E = 1 .. k
    <2>1. CASE E = 1 .. n
      BY <1>1, <2>1
    <2>2. CASE E # 1 .. n
      <3> DEFINE M == (1 .. n) \ E
      <3>1. E \subseteq 1 .. n
        BY <1>2
      <3>2. M \subseteq Nat /\ M # {}
        <4>1. \E i \in 1 .. n : i \notin E
          BY <2>2, <3>1
        <4> QED
          BY <4>1
      <3>3. PICK i \in M : \A j \in M : i <= j
        BY <3>2, LeastNumber
      <3>4. i - 1 \in 0 .. n /\ i \in 1 .. n /\ i \notin E
        BY <1>1, <3>3
      <3>5. ASSUME NEW j \in E PROVE j \in 1 .. i - 1
        <4>1. j \in 1 .. n
          BY <3>1
        <4>2. ~ i <= j
          BY <1>3, <3>4, <4>1
        <4> QED
          BY <1>1, <3>4, <4>1, <4>2
      <3>6. ASSUME NEW j \in 1 .. i - 1 PROVE j \in E
        <4>1. j \in 1 .. n /\ ~ i <= j
          BY <1>1, <3>4
        <4> QED
          BY <3>3, <4>1
      <3>7. E = 1 .. i - 1
        BY <3>5, <3>6
      <3> QED
        BY <3>4, <3>7
    <2> QED
      BY <2>1, <2>2
  <1>5. PICK k \in 0 .. n : E = 1 .. k
    BY <1>4
  <1>6. Cardinality(1 .. k) = k
    BY <1>1, FS_Interval
  <1> QED
    BY <1>5, <1>6 DEF E, n
-----------------------------------------------------------------------------
(***************************************************************************)
(* Clients, clock and operator keep the invariant.                         *)
(***************************************************************************)

\* The values a round starts from have their types (ForgetRound).
LEMMA ForgottenTypes ==
  /\ Forever \in -1 .. Forever /\ 0 \in 0 .. Cardinality(Conns) + 1
  /\ Cardinality(Conns) \in Nat
  BY ConnAssumption, FS_CardinalityType DEF Forever

\* What happens between the steps of the loop makes no client unreadable and
\* moves none in the list.
LEMMA PendingStays ==
  ASSUME Pending, pc' = pc,
         UNCHANGED <<m_List_connectedClient, m_forSelect_fds, iter>>,
         \A c \in Clients(m_List_connectedClient) : Readable(c) => Readable(c)'
  PROVE  Pending'
  BY DEF Pending, Clients

\* A connection waits in the backlog: no step of the round reads it before
\* accept (the kernel's queue).
LEMMA ConnectKeeps ==
  ASSUME LoopInv, NEW c \in Conns, Connect(c)
  PROVE  LoopInv'
  <1>1. /\ sock[c] = "closed" /\ Len(backlog) < BackLog
        /\ sock' = [sock EXCEPT ![c] = "backlog"] /\ backlog' = Append(backlog, c)
        /\ UNCHANGED <<request, peer>>
        /\ UNCHANGED <<pc, stop, m_List_connectedClient, m_client_timeout, m_master_fds,
                       m_forSelect_fds, m_timeout, m_activity, iter>>
    BY DEF Connect, server
  <1>2. /\ backlog \in Seq(Conns) /\ c \in Conns \ Clients(backlog)
        /\ sock \in [Conns -> {"closed", "backlog", "open"}]
    BY <1>1 DEF LoopInv, TypeOK, BacklogAgrees
  <1>3. /\ backlog' \in Seq(Conns) /\ Len(backlog') = Len(backlog) + 1
        /\ Clients(backlog') = Clients(backlog) \cup {c} /\ NoneTwice(backlog')
    BY <1>1, <1>2, AppendClients DEF LoopInv, BacklogAgrees
  <1>4. TypeOK'
    <2>1. Len(backlog) \in Nat /\ BackLog \in Nat
      BY <1>2, ConnAssumption
    <2>2. Len(backlog') <= BackLog
      BY <1>1, <1>3, <2>1
    <2> QED
      BY <1>1, <1>2, <1>3, <2>2 DEF LoopInv, TypeOK
  <1>5. BacklogAgrees'
    BY <1>1, <1>2, <1>3 DEF LoopInv, BacklogAgrees
  <1>6. ListAgrees'
    <2>1. \A d \in Conns : sock'[d] = "open" <=> sock[d] = "open"
      BY <1>1, <1>2
    <2> QED
      BY <1>1, <2>1 DEF LoopInv, ListAgrees, DescriptorsAgree, Running
  <1>7. RoundAgrees'
    <2>1. backlog' # << >>
      BY <1>2, <1>3, Places
    <2>2. \A d : Readable(d)' <=> Readable(d)
      BY <1>1 DEF Readable
    <2>3. Pending'
      BY <1>1, <2>2, PendingStays DEF LoopInv, RoundAgrees
    <2> QED
      BY <1>1, <2>1, <2>2, <2>3 DEF LoopInv, RoundAgrees
  <1> QED
    BY <1>4, <1>5, <1>6, <1>7 DEF LoopInv

\* A request makes its connection readable, an end or a reset as well.
LEMMA ClientKeeps ==
  ASSUME LoopInv, NEW c \in Conns, Send(c) \/ Hangup(c)
  PROVE  LoopInv'
  <1>1. /\ UNCHANGED <<pc, stop, m_List_connectedClient, m_client_timeout, m_master_fds,
                       m_forSelect_fds, m_timeout, m_activity, iter, sock, backlog>>
        /\ request' \in [Conns -> BOOLEAN] /\ peer' \in [Conns -> {"up", "fin", "rst"}]
    BY DEF LoopInv, TypeOK, Send, Hangup, server
  <1>2. ASSUME NEW d \in Conns, Readable(d) PROVE Readable(d)'
    BY <1>2 DEF LoopInv, TypeOK, Send, Hangup, Readable
  <1>3. TypeOK'
    BY <1>1 DEF LoopInv, TypeOK
  <1>4. BacklogAgrees' /\ ListAgrees'
    BY <1>1 DEF LoopInv, BacklogAgrees, ListAgrees, DescriptorsAgree, Running
  <1>5. RoundAgrees'
    <2>1. Clients(m_List_connectedClient) \subseteq Conns
      BY Places DEF LoopInv, TypeOK
    <2>2. Pending'
      BY <1>1, <1>2, <2>1, PendingStays DEF LoopInv, RoundAgrees
    <2> QED
      BY <1>1, <1>2, <2>2 DEF LoopInv, RoundAgrees
  <1> QED
    BY <1>3, <1>4, <1>5 DEF LoopInv

\* A timer that ran for the head is never ahead of it: both lose their ticks,
\* and the one that was handed to select loses none before select runs.
LEMMA TickKeeps ==
  ASSUME LoopInv, Tick
  PROVE  LoopInv'
  <1> DEFINE Less(t) == IF t > 0 THEN t - 1 ELSE -1
  <1>1. /\ m_client_timeout' =
             [c \in Conns |-> IF c \in Clients(m_List_connectedClient)
                              THEN Less(m_client_timeout[c]) ELSE m_client_timeout[c]]
        /\ m_timeout' = IF pc = "select" /\ m_timeout # Forever
                        THEN Less(m_timeout) ELSE m_timeout
        /\ UNCHANGED <<pc, stop, m_List_connectedClient, m_master_fds, m_forSelect_fds,
                       m_activity, iter, sock, backlog, request, peer>>
    BY DEF Tick, network
  <1>2. m_maxWaitTime \in Nat \ {0}
    BY ConnAssumption
  <1>3. \A t \in -1 .. m_maxWaitTime : Less(t) \in -1 .. m_maxWaitTime /\ Less(t) <= t
    BY <1>2
  <1>4. m_client_timeout \in [Conns -> -1 .. m_maxWaitTime] /\ m_timeout \in -1 .. Forever
    BY DEF LoopInv, TypeOK
  <1>5. /\ m_client_timeout' \in [Conns -> -1 .. m_maxWaitTime]
        /\ \A c \in Conns : m_client_timeout'[c] <= m_client_timeout[c]
    BY <1>1, <1>2, <1>3, <1>4
  <1>6. m_timeout' \in -1 .. Forever
    BY <1>1, <1>2, <1>4 DEF Forever
  <1>7. TypeOK'
    BY <1>1, <1>5, <1>6 DEF LoopInv, TypeOK
  <1>8. BacklogAgrees' /\ ListAgrees'
    BY <1>1 DEF LoopInv, BacklogAgrees, ListAgrees, DescriptorsAgree, Running
  <1>9. RoundAgrees'
    <2>1. \A d : Readable(d)' <=> Readable(d)
      BY <1>1 DEF Readable
    <2>2. Pending'
      BY <1>1, <2>1, PendingStays DEF LoopInv, RoundAgrees
    <2>3. ASSUME pc = "poll", m_timeout # Forever, m_List_connectedClient # << >>,
                 m_client_timeout[Head(m_List_connectedClient)] <= m_timeout
          PROVE  m_client_timeout'[Head(m_List_connectedClient)] <= m_timeout'
      <3>1. Head(m_List_connectedClient) \in Conns
        BY <2>3, Places DEF LoopInv, TypeOK
      <3>2. m_timeout' = m_timeout
        BY <1>1, <2>3
      <3> DEFINE h == Head(m_List_connectedClient)
      <3>3. m_client_timeout'[h] <= m_client_timeout[h] /\ m_client_timeout'[h] \in Int
            /\ m_client_timeout[h] \in Int /\ m_timeout \in Int
        BY <1>4, <1>5, <3>1 DEF Forever
      <3> HIDE DEF h
      <3>4. m_client_timeout'[h] <= m_timeout
        BY <2>3, <3>3 DEF h
      <3> QED
        BY <3>2, <3>4 DEF h
    <2> QED
      BY <1>1, <2>1, <2>2, <2>3 DEF LoopInv, RoundAgrees
  <1> QED
    BY <1>7, <1>8, <1>9 DEF LoopInv

\* The handler ends a select that waits; elsewhere it only sets the flag.
LEMMA SignalKeeps ==
  ASSUME LoopInv, SignalHandler
  PROVE  LoopInv'
  <1>1. /\ stop' = TRUE
        /\ UNCHANGED <<m_List_connectedClient, m_client_timeout, m_master_fds,
                       sock, backlog, request, peer>>
        /\ \/ /\ pc = "select" /\ pc' = "loop" /\ m_forSelect_fds' = {}
              /\ m_timeout' = Forever /\ m_activity' = 0 /\ iter' = End
           \/ UNCHANGED <<pc, m_forSelect_fds, m_timeout, m_activity, iter>>
    BY DEF SignalHandler, ForgetRound, network
  <1>2. TypeOK'
    BY <1>1, ForgottenTypes DEF LoopInv, TypeOK
  <1>3. BacklogAgrees' /\ ListAgrees'
    BY <1>1 DEF LoopInv, BacklogAgrees, ListAgrees, DescriptorsAgree, Running
  <1>4. RoundAgrees'
    BY <1>1 DEF LoopInv, RoundAgrees, Pending, Readable
  <1> QED
    BY <1>2, <1>3, <1>4 DEF LoopInv
-----------------------------------------------------------------------------
(***************************************************************************)
(* The head of the loop and select keep it.                                *)
(***************************************************************************)

\* The variables that no step of select or of the loop's head changes.
StillRound ==
  UNCHANGED <<stop, m_List_connectedClient, m_client_timeout, m_master_fds,
              sock, backlog, request, peer>>

\* Lists, sockets and backlog agree as long as they stay as they are.
LEMMA StillAgrees ==
  ASSUME LoopInv, StillRound, Running, Running'
  PROVE  BacklogAgrees' /\ ListAgrees'
  BY DEF LoopInv, StillRound, BacklogAgrees, ListAgrees, DescriptorsAgree

\* select is handed the descriptors of the list, and the timer of its head.
LEMMA StartRoundKeeps ==
  ASSUME LoopInv, StartRound
  PROVE  LoopInv'
  <1>1. /\ pc = "loop" /\ pc' = "poll" /\ StillRound
        /\ m_forSelect_fds' = m_master_fds
        /\ m_timeout' = GetTTL(m_List_connectedClient)
        /\ m_activity' = m_activity /\ iter' = iter
    BY DEF StartRound, StillRound, network
  <1>2. \/ m_timeout' = Forever
        \/ /\ m_List_connectedClient # << >>
           /\ m_timeout' = m_client_timeout[Head(m_List_connectedClient)]
           /\ m_timeout' \in -1 .. m_maxWaitTime
    <2>1. CASE m_List_connectedClient = << >>
      BY <1>1, <2>1 DEF GetTTL
    <2>2. CASE m_List_connectedClient # << >>
      <3>1. Head(m_List_connectedClient) \in Conns
        BY <2>2, Places DEF LoopInv, TypeOK
      <3> QED
        BY <1>1, <2>2, <3>1 DEF GetTTL, LoopInv, TypeOK
    <2> QED
      BY <2>1, <2>2
  <1>3. m_timeout' \in -1 .. Forever
    BY <1>2, ForgottenTypes, ConnAssumption DEF Forever
  <1>4. TypeOK'
    BY <1>1, <1>3 DEF LoopInv, TypeOK, StillRound
  <1>5. BacklogAgrees' /\ ListAgrees'
    BY <1>1, StillAgrees DEF Running
  <1>6. RoundAgrees'
    <2>1. m_List_connectedClient # << >> =>
            m_client_timeout'[Head(m_List_connectedClient)]
              = m_client_timeout[Head(m_List_connectedClient)]
      BY <1>1 DEF StillRound
    <2>2. \A t \in -1 .. m_maxWaitTime : t <= t
      BY ConnAssumption
    <2> QED
      BY <1>1, <1>2, <2>1, <2>2 DEF StillRound, RoundAgrees, Pending
  <1> QED
    BY <1>4, <1>5, <1>6 DEF LoopInv

\* A negative timer leads back to the head of the loop.
LEMMA EnterSelectKeeps ==
  ASSUME LoopInv, EnterSelect
  PROVE  LoopInv'
  <1>1. /\ pc = "poll" /\ StillRound
        /\ \/ pc' = "loop" /\ m_forSelect_fds' = {} /\ m_timeout' = Forever
              /\ m_activity' = 0 /\ iter' = End
           \/ pc' = "select" /\ UNCHANGED <<m_forSelect_fds, m_timeout, m_activity, iter>>
    BY DEF EnterSelect, StillRound, ForgetRound, network
  <1>2. TypeOK'
    BY <1>1, ForgottenTypes DEF LoopInv, TypeOK, StillRound
  <1>3. BacklogAgrees' /\ ListAgrees'
    BY <1>1, StillAgrees DEF Running
  <1>4. RoundAgrees'
    BY <1>1 DEF LoopInv, RoundAgrees, Pending, StillRound
  <1> QED
    BY <1>2, <1>3, <1>4 DEF LoopInv

\* What select reports ready is readable, and a connection waits if the
\* listening socket is among it.
LEMMA SelectReadyKeeps ==
  ASSUME LoopInv, SelectReady
  PROVE  LoopInv'
  <1>1. /\ pc = "select" /\ StillRound /\ m_timeout' = Forever
        /\ m_forSelect_fds' = Ready /\ m_activity' = Cardinality(Ready)
        /\ iter' = ListItr_Begin(m_List_connectedClient)
        /\ pc' = IF Master \in Ready THEN "accept" ELSE "serve"
    BY DEF SelectReady, StillRound, network
  <1>2. /\ Ready \subseteq m_forSelect_fds /\ m_forSelect_fds \subseteq m_master_fds
        /\ m_forSelect_fds \subseteq Conns \cup {Master}
    BY <1>1 DEF Ready, LoopInv, RoundAgrees, TypeOK
  <1>3. \A c \in Conns : c \in Ready => Readable(c)
    BY ConnAssumption DEF Ready
  <1>4. Master \in Ready => backlog # << >>
    BY DEF Ready
  <1>5. m_activity' \in 0 .. Cardinality(Conns) + 1
    <2>1. /\ IsFiniteSet(Conns \cup {Master})
          /\ Cardinality(Conns \cup {Master}) = Cardinality(Conns) + 1
          /\ Cardinality(Conns) \in Nat
      BY ConnAssumption, FS_AddElement, FS_CardinalityType
    <2>2. IsFiniteSet(Ready) /\ Cardinality(Ready) <= Cardinality(Conns \cup {Master})
      BY <1>2, <2>1, FS_Subset
    <2>3. Cardinality(Ready) \in Nat
      BY <2>2, FS_CardinalityType
    <2> QED
      BY <1>1, <2>1, <2>2, <2>3
  <1>6. iter' \in Clients(m_List_connectedClient) \cup {End} /\ iter' \in Conns \cup {End}
    BY <1>1, BeginPlace, Places DEF LoopInv, TypeOK
  <1>7. TypeOK'
    BY <1>1, <1>2, <1>5, <1>6, ForgottenTypes DEF LoopInv, TypeOK, StillRound
  <1>8. BacklogAgrees' /\ ListAgrees'
    BY <1>1, StillAgrees DEF Running
  <1>9. RoundAgrees'
    <2>1. \A c \in Conns : c \in m_forSelect_fds' => Readable(c)'
      BY <1>1, <1>3 DEF Readable, StillRound
    <2>2. Pending'
      <3>1. /\ Len(m_List_connectedClient) \in Nat
            /\ \A j \in 1 .. Len(m_List_connectedClient) : m_List_connectedClient[j] \in Conns
            /\ DOMAIN m_List_connectedClient = 1 .. Len(m_List_connectedClient)
        BY Places DEF LoopInv, TypeOK
      <3>2. m_List_connectedClient' = m_List_connectedClient
        BY <1>1 DEF StillRound
      <3>3. ASSUME NEW j \in 1 .. Len(m_List_connectedClient),
                   m_List_connectedClient[j] \in m_forSelect_fds'
            PROVE  Readable(m_List_connectedClient[j])'
        <4>1. /\ m_List_connectedClient[j] \in Conns
              /\ m_List_connectedClient[j] \in Ready
          BY <1>1, <3>1, <3>3
        <4>2. Readable(m_List_connectedClient[j])
          BY <1>3, <4>1
        <4> QED
          BY <1>1, <4>2 DEF Readable, StillRound
      <3>4. ASSUME NEW i \in 1 .. Len(m_List_connectedClient),
                   NEW j \in i .. Len(m_List_connectedClient)
            PROVE  j \in 1 .. Len(m_List_connectedClient)
        BY <3>1
      <3> QED
        BY <3>1, <3>2, <3>3, <3>4 DEF Pending
    <2> QED
      BY <1>1, <1>2, <1>4, <1>6, <2>1, <2>2 DEF RoundAgrees, StillRound
  <1> QED
    BY <1>7, <1>8, <1>9 DEF LoopInv

\* Nothing is served in a round that timed out.
LEMMA SelectTimeoutKeeps ==
  ASSUME LoopInv, SelectTimeout
  PROVE  LoopInv'
  <1>1. /\ pc = "select" /\ pc' = "expire" /\ StillRound /\ m_activity' = 0
        /\ UNCHANGED <<m_forSelect_fds, m_timeout, iter>>
    BY DEF SelectTimeout, StillRound, network
  <1>2. TypeOK'
    BY <1>1, ForgottenTypes DEF LoopInv, TypeOK, StillRound
  <1>3. BacklogAgrees' /\ ListAgrees'
    BY <1>1, StillAgrees DEF Running
  <1> QED
    BY <1>1, <1>2, <1>3 DEF LoopInv, RoundAgrees, Pending

\* The round ends and its values are forgotten.
LEMMA EndRoundKeeps ==
  ASSUME LoopInv, EndRound
  PROVE  LoopInv'
  <1>1. /\ pc = "serve" /\ pc' = "loop" /\ StillRound
        /\ m_forSelect_fds' = {} /\ m_timeout' = Forever /\ m_activity' = 0 /\ iter' = End
    BY DEF EndRound, StillRound, ForgetRound, network
  <1>2. TypeOK'
    BY <1>1, ForgottenTypes DEF LoopInv, TypeOK, StillRound
  <1>3. BacklogAgrees' /\ ListAgrees'
    BY <1>1, StillAgrees DEF Running
  <1> QED
    BY <1>1, <1>2, <1>3 DEF LoopInv, RoundAgrees, Pending
-----------------------------------------------------------------------------
(***************************************************************************)
(* Closing and accepting clients keep it.                                  *)
(***************************************************************************)

\* close() of some connections leaves the others as they are.
LEMMA ClosedTypes ==
  ASSUME TypeOK, NEW S, CloseClients(S)
  PROVE  /\ sock' \in [Conns -> {"closed", "backlog", "open"}]
         /\ request' \in [Conns -> BOOLEAN]
         /\ peer' \in [Conns -> {"up", "fin", "rst"}]
         /\ m_client_timeout' \in [Conns -> -1 .. m_maxWaitTime]
         /\ \A c \in Conns : sock'[c] = IF c \in S THEN "closed" ELSE sock[c]
         /\ \A c \in Conns : c \notin S =>
              /\ request'[c] = request[c] /\ peer'[c] = peer[c]
              /\ m_client_timeout'[c] = m_client_timeout[c]
         /\ \A c \in Conns : c \notin S /\ Readable(c) => Readable(c)'
  <1>1. 0 \in -1 .. m_maxWaitTime
    BY ConnAssumption
  <1> QED
    BY <1>1 DEF TypeOK, CloseClients, Readable

\* The clients whose time is over leave list, descriptor set and sockets
\* together (Check_expiry_of_Clients).
LEMMA ExpireKeeps ==
  ASSUME LoopInv, Check_expiry_of_Clients
  PROVE  LoopInv'
  <1> DEFINE list == m_List_connectedClient
             dropped == {list[i] : i \in ExpiredPrefix}
  <1>1. /\ pc = "expire" /\ pc' = "loop" /\ stop' = stop /\ backlog' = backlog
        /\ m_List_connectedClient' =
             SubSeq(list, Cardinality(ExpiredPrefix) + 1, Len(list))
        /\ m_master_fds' = m_master_fds \ dropped
        /\ CloseClients(dropped)
        /\ m_forSelect_fds' = {} /\ m_timeout' = Forever /\ m_activity' = 0 /\ iter' = End
    BY DEF Check_expiry_of_Clients, ForgetRound
  <1>2. /\ TypeOK /\ list \in Seq(Conns) /\ NoneTwice(list)
        /\ m_master_fds = Clients(list) \cup {Master}
        /\ \A c \in Conns : c \in Clients(list) <=> sock[c] = "open"
    BY <1>1 DEF LoopInv, TypeOK, ListAgrees, DescriptorsAgree, Running
  <1>3. PICK k \in 0 .. Len(list) :
          ExpiredPrefix = 1 .. k /\ Cardinality(ExpiredPrefix) = k
    BY <1>2, ExpiredFirst
  <1>4. /\ m_List_connectedClient' \in Seq(Conns)
        /\ Clients(m_List_connectedClient') = Clients(list) \ dropped
        /\ NoneTwice(m_List_connectedClient')
    BY <1>1, <1>2, <1>3, Behind, BehindClients
  <1>5. dropped \subseteq Clients(list) /\ dropped \subseteq Conns
    <2>1. DOMAIN list = 1 .. Len(list) /\ Clients(list) \subseteq Conns
          /\ 1 .. k \subseteq 1 .. Len(list)
      BY <1>2, <1>3, Places
    <2> QED
      BY <1>3, <2>1 DEF Clients
  <1> HIDE DEF dropped
  <1>6. /\ sock' \in [Conns -> {"closed", "backlog", "open"}]
        /\ request' \in [Conns -> BOOLEAN]
        /\ peer' \in [Conns -> {"up", "fin", "rst"}]
        /\ m_client_timeout' \in [Conns -> -1 .. m_maxWaitTime]
        /\ \A c \in Conns : sock'[c] = IF c \in dropped THEN "closed" ELSE sock[c]
    BY <1>1, <1>2, ClosedTypes
  <1>7. TypeOK'
    BY <1>1, <1>4, <1>6, ForgottenTypes DEF LoopInv, TypeOK
  <1>8. BacklogAgrees'
    BY <1>1, <1>2, <1>5, <1>6 DEF LoopInv, BacklogAgrees
  <1>9. ListAgrees'
    <2>1. m_master_fds' = Clients(m_List_connectedClient') \cup {Master}
      BY <1>1, <1>2, <1>4, <1>5, ConnAssumption
    <2>2. \A c : c \in Clients(m_List_connectedClient') <=> c \in Conns /\ sock'[c] = "open"
      BY <1>2, <1>4, <1>5, <1>6, Places
    <2> QED
      BY <1>4, <2>1, <2>2 DEF ListAgrees, DescriptorsAgree, NoneTwice
  <1> QED
    BY <1>1, <1>7, <1>8, <1>9 DEF LoopInv, RoundAgrees, Pending

\* The oldest waiting connection leaves the kernel's queue.
LEMMA AcceptedPlace ==
  ASSUME LoopInv, backlog # << >>
  PROVE  /\ Head(backlog) \in Conns /\ sock[Head(backlog)] = "backlog"
         /\ Tail(backlog) \in Seq(Conns) /\ Len(Tail(backlog)) = Len(backlog) - 1
         /\ Clients(Tail(backlog)) = Clients(backlog) \ {Head(backlog)}
         /\ NoneTwice(Tail(backlog))
         /\ \A i \in 1 .. Len(backlog) - 1 : Tail(backlog)[i] = backlog[i + 1]
  <1>1. backlog \in Seq(Conns) /\ NoneTwice(backlog)
    BY DEF LoopInv, TypeOK, BacklogAgrees
  <1>2. Len(backlog) \in Nat /\ Len(backlog) > 0 /\ Head(backlog) = backlog[1]
        /\ backlog[1] \in Conns /\ 1 \in DOMAIN backlog /\ 1 \in 0 .. Len(backlog)
    BY <1>1, Places
  <1>3. Tail(backlog) = SubSeq(backlog, 1 + 1, Len(backlog))
    BY <1>1, TailIsSubSeq
  <1>4. Clients(Tail(backlog)) = Clients(backlog) \ {backlog[i] : i \in 1 .. 1}
        /\ NoneTwice(Tail(backlog))
    BY <1>1, <1>2, <1>3, BehindClients
  <1>5. {backlog[i] : i \in 1 .. 1} = {Head(backlog)}
    BY <1>2
  <1>6. /\ Tail(backlog) \in Seq(Conns) /\ Len(Tail(backlog)) = Len(backlog) - 1
        /\ \A j \in 1 .. Len(backlog) - 1 : Tail(backlog)[j] = backlog[j + 1]
    BY <1>1, <1>2, <1>3, Behind
  <1>7. sock[Head(backlog)] = "backlog"
    BY <1>2 DEF LoopInv, BacklogAgrees, Clients
  <1> QED
    BY <1>2, <1>4, <1>5, <1>6, <1>7

\* The iterator begins, and every client select found ready is readable.
LEMMA PendingBegins ==
  ASSUME NEW list \in Seq(Conns), m_List_connectedClient' = list,
         m_forSelect_fds' = m_forSelect_fds,
         \A c \in Clients(list) : c \in m_forSelect_fds => Readable(c)'
  PROVE  Pending'
  <1>1. DOMAIN list = 1 .. Len(list) /\ Len(list) \in Nat
    BY Places
  <1>2. ASSUME NEW i \in 1 .. Len(list), NEW j \in i .. Len(list)
        PROVE  list[j] \in Clients(list)
    <2>1. j \in DOMAIN list
      BY <1>1
    <2> QED
      BY <2>1 DEF Clients
  <1>3. ASSUME NEW i \in 1 .. Len(list), NEW j \in i .. Len(list),
               list[j] \in m_forSelect_fds
        PROVE  Readable(list[j])'
    BY <1>2, <1>3
  <1> QED
    BY <1>1, <1>3 DEF Pending

\* Above the limit the connection is closed and nothing else changes.
LEMMA RefuseKeeps ==
  ASSUME LoopInv, AddClientToTheList, TooManyClients(Len(m_List_connectedClient))
  PROVE  LoopInv'
  <1> DEFINE list == m_List_connectedClient
             c == Head(backlog)
  <1>1. /\ pc = "accept" /\ pc' = "serve" /\ backlog' = Tail(backlog)
        /\ CloseClients({c})
        /\ iter' = ListItr_Begin(m_List_connectedClient')
        /\ UNCHANGED <<stop, m_List_connectedClient, m_master_fds, m_forSelect_fds,
                       m_timeout, m_activity>>
    BY DEF AddClientToTheList
  <1>2. /\ TypeOK /\ list \in Seq(Conns) /\ backlog # << >>
        /\ \A d \in Conns : d \in m_forSelect_fds => Readable(d)
        /\ \A d \in Conns : d \in Clients(list) <=> sock[d] = "open"
    BY <1>1 DEF LoopInv, TypeOK, ListAgrees, DescriptorsAgree, Running, RoundAgrees
  <1>3. /\ c \in Conns /\ sock[c] = "backlog"
        /\ Tail(backlog) \in Seq(Conns) /\ Len(Tail(backlog)) = Len(backlog) - 1
        /\ Clients(Tail(backlog)) = Clients(backlog) \ {c} /\ NoneTwice(Tail(backlog))
    BY <1>2, AcceptedPlace
  <1> HIDE DEF c
  <1>4. /\ sock' \in [Conns -> {"closed", "backlog", "open"}]
        /\ request' \in [Conns -> BOOLEAN]
        /\ peer' \in [Conns -> {"up", "fin", "rst"}]
        /\ m_client_timeout' \in [Conns -> -1 .. m_maxWaitTime]
        /\ \A d \in Conns : sock'[d] = IF d = c THEN "closed" ELSE sock[d]
        /\ \A d \in Conns : d # c /\ Readable(d) => Readable(d)'
    BY <1>1, <1>2, ClosedTypes
  <1>5. iter' \in Clients(list) \cup {End} /\ iter' \in Conns \cup {End}
    BY <1>1, <1>2, BeginPlace, Places
  <1>6. TypeOK'
    <2>1. Len(backlog) \in Nat /\ Len(backlog) <= BackLog /\ BackLog \in Nat
      BY <1>2, ConnAssumption, Places DEF TypeOK
    <2>2. Len(backlog') <= BackLog
      BY <1>1, <1>3, <2>1
    <2> QED
      BY <1>1, <1>2, <1>3, <1>4, <1>5, <2>2 DEF TypeOK
  <1>7. BacklogAgrees'
    <2>1. \A d \in Conns : sock[d] = "backlog" <=> d \in Clients(backlog)
      BY DEF LoopInv, BacklogAgrees
    <2> QED
      BY <1>1, <1>3, <1>4, <2>1 DEF BacklogAgrees
  <1>8. ListAgrees'
    <2>1. \A d \in Conns : sock'[d] = "open" <=> sock[d] = "open"
      BY <1>3, <1>4
    <2> QED
      BY <1>1, <2>1 DEF LoopInv, ListAgrees, DescriptorsAgree, Running
  <1>9. Pending'
    <2>1. Clients(list) \subseteq Conns /\ c \notin Clients(list)
      BY <1>2, <1>3, Places
    <2>2. \A d \in Clients(list) : d \in m_forSelect_fds => Readable(d)'
      BY <1>2, <1>4, <2>1
    <2> QED
      BY <1>1, <1>2, <2>2, PendingBegins
  <1> QED
    BY <1>1, <1>5, <1>6, <1>7, <1>8, <1>9 DEF LoopInv, RoundAgrees

\* A connection that is accepted comes last in the list, and into the
\* descriptor set.
LEMMA AcceptKeeps ==
  ASSUME LoopInv, AddClientToTheList, ~ TooManyClients(Len(m_List_connectedClient))
  PROVE  LoopInv'
  <1> DEFINE list == m_List_connectedClient
             c == Head(backlog)
  <1>1. /\ pc = "accept" /\ pc' = "serve" /\ backlog' = Tail(backlog)
        /\ sock' = [sock EXCEPT ![c] = "open"]
        /\ m_master_fds' = m_master_fds \cup {c}
        /\ m_client_timeout' = [m_client_timeout EXCEPT ![c] = m_maxWaitTime]
        /\ m_List_connectedClient' = Append(list, c)
        /\ iter' = ListItr_Begin(m_List_connectedClient')
        /\ UNCHANGED <<stop, m_forSelect_fds, m_timeout, m_activity, request, peer>>
    BY DEF AddClientToTheList, UpdateTimeForClient
  <1>2. /\ TypeOK /\ list \in Seq(Conns) /\ NoneTwice(list) /\ backlog # << >>
        /\ \A d \in Conns : d \in m_forSelect_fds => Readable(d)
        /\ m_master_fds = Clients(list) \cup {Master}
        /\ \A d : d \in Clients(list) <=> d \in Conns /\ sock[d] = "open"
    BY <1>1 DEF LoopInv, TypeOK, ListAgrees, DescriptorsAgree, Running, RoundAgrees
  <1>3. /\ c \in Conns /\ sock[c] = "backlog"
        /\ Tail(backlog) \in Seq(Conns) /\ Len(Tail(backlog)) = Len(backlog) - 1
        /\ Clients(Tail(backlog)) = Clients(backlog) \ {c} /\ NoneTwice(Tail(backlog))
    BY <1>2, AcceptedPlace
  <1> HIDE DEF c
  <1>4. /\ m_List_connectedClient' \in Seq(Conns)
        /\ Clients(m_List_connectedClient') = Clients(list) \cup {c}
        /\ NoneTwice(m_List_connectedClient')
    BY <1>1, <1>2, <1>3, AppendClients
  <1>5. iter' \in Clients(m_List_connectedClient') \cup {End} /\ iter' \in Conns \cup {End}
    BY <1>1, <1>4, BeginPlace, Places
  <1>6. TypeOK'
    <2>1. Len(backlog) \in Nat /\ Len(backlog) <= BackLog /\ BackLog \in Nat
      BY <1>2, ConnAssumption, Places DEF TypeOK
    <2>2. Len(backlog') <= BackLog
      BY <1>1, <1>3, <2>1
    <2>3. m_maxWaitTime \in -1 .. m_maxWaitTime
      BY ConnAssumption
    <2> QED
      BY <1>1, <1>2, <1>3, <1>4, <1>5, <2>2, <2>3 DEF TypeOK
  <1>7. \A d \in Conns : sock'[d] = IF d = c THEN "open" ELSE sock[d]
    BY <1>1, <1>2 DEF TypeOK
  <1>8. BacklogAgrees'
    <2>1. \A d \in Conns : sock[d] = "backlog" <=> d \in Clients(backlog)
      BY DEF LoopInv, BacklogAgrees
    <2> QED
      BY <1>1, <1>3, <1>7, <2>1 DEF BacklogAgrees
  <1>9. ListAgrees'
    <2>1. m_master_fds' = Clients(m_List_connectedClient') \cup {Master}
      BY <1>1, <1>2, <1>4
    <2>2. \A d : d \in Clients(m_List_connectedClient') <=> d \in Conns /\ sock'[d] = "open"
      BY <1>2, <1>3, <1>4, <1>7
    <2> QED
      BY <1>4, <2>1, <2>2 DEF ListAgrees, DescriptorsAgree, NoneTwice
  <1>10. Pending'
    <2>1. Clients(m_List_connectedClient') \subseteq Conns
      BY <1>4, Places
    <2>2. \A d \in Clients(m_List_connectedClient') : d \in m_forSelect_fds => Readable(d)'
      BY <1>1, <1>2, <2>1 DEF Readable
    <2> QED
      BY <1>1, <1>4, <2>2, PendingBegins
  <1> QED
    BY <1>1, <1>5, <1>6, <1>8, <1>9, <1>10 DEF LoopInv, RoundAgrees
-----------------------------------------------------------------------------
(***************************************************************************)
(* The iteration over the ready clients keeps it.                          *)
(***************************************************************************)

\* The iterator stands on a place of the list, and what select found ready
\* there and behind it is readable.
LEMMA ServingPlace ==
  ASSUME LoopInv, NEW c \in Conns, Serving(c)
  PROVE  /\ pc = "serve" /\ m_activity \in 1 .. Cardinality(Conns) + 1
         /\ m_List_connectedClient \in Seq(Conns) /\ NoneTwice(m_List_connectedClient)
         /\ sock[c] = "open"
         /\ \E p \in 1 .. Len(m_List_connectedClient) :
              /\ m_List_connectedClient[p] = c
              /\ \A j \in p .. Len(m_List_connectedClient) :
                   m_List_connectedClient[j] \in m_forSelect_fds
                     => Readable(m_List_connectedClient[j])
  <1>1. pc = "serve" /\ m_activity > 0 /\ iter = c /\ c # End
    BY ConnAssumption DEF Serving
  <1>2. m_List_connectedClient \in Seq(Conns) /\ NoneTwice(m_List_connectedClient)
    BY DEF LoopInv, TypeOK, ListAgrees
  <1>3. m_activity \in 1 .. Cardinality(Conns) + 1
    BY <1>1, ForgottenTypes DEF LoopInv, TypeOK
  <1>4. c \in Clients(m_List_connectedClient)
    BY <1>1 DEF LoopInv, RoundAgrees
  <1>5. sock[c] = "open"
    BY <1>1, <1>4 DEF LoopInv, ListAgrees, DescriptorsAgree, Running
  <1>6. PICK p \in 1 .. Len(m_List_connectedClient) : m_List_connectedClient[p] = c
    BY <1>2, <1>4, ClientsAt
  <1>7. p \in DOMAIN m_List_connectedClient
    BY <1>2, <1>6, Places
  <1>8. \A j \in p .. Len(m_List_connectedClient) :
          m_List_connectedClient[j] \in m_forSelect_fds
            => Readable(m_List_connectedClient[j])
    BY <1>1, <1>6, <1>7 DEF LoopInv, RoundAgrees, Pending
  <1> QED
    BY <1>1, <1>2, <1>3, <1>5, <1>6, <1>8

\* The iterator goes on from place p.  The clients behind p keep their places
\* or all move up by one, and none of them has become unreadable.
LEMMA PendingPasses ==
  ASSUME NEW list \in Seq(Conns), NoneTwice(list), NEW p \in 1 .. Len(list),
         NEW next \in Seq(Conns), NoneTwice(next),
         NEW d \in {0, 1}, Len(next) = Len(list) - d,
         \A j \in p + 1 .. Len(list) : next[j - d] = list[j],
         iter' = ListItr_Next(list, list[p]),
         m_List_connectedClient' = next, m_forSelect_fds' = m_forSelect_fds,
         \A c \in Conns : c \in m_forSelect_fds /\ (\E j \in p + 1 .. Len(list) : list[j] = c)
                           => Readable(c)'
  PROVE  Pending' /\ iter' \in Clients(next) \cup {End} /\ iter' \in Conns \cup {End}
  <1> DEFINE n == Len(list)
  <1>1. /\ n \in Nat /\ DOMAIN next = 1 .. n - d
        /\ \A j \in 1 .. n : list[j] \in Conns
        /\ \A j \in 1 .. n - d : next[j] \in Conns
        /\ Clients(next) \subseteq Conns
    BY Places
  <1>2. iter' = IF p = n THEN End ELSE list[p + 1]
    BY NextPlace
  <1>3. p \in 1 .. n /\ \A j \in p + 1 .. n : next[j - d] = list[j]
    OBVIOUS
  <1>4. Len(next) = n - d
    OBVIOUS
  <1>5. ASSUME NEW c \in Conns, c \in m_forSelect_fds, NEW j \in p + 1 .. n, list[j] = c
        PROVE  Readable(c)'
    BY <1>5
  <1> HIDE DEF n
  <1>6. CASE p = n
    <2>1. iter' = End /\ \A i \in DOMAIN next : next[i] # End
      BY <1>1, <1>2, <1>6, ConnAssumption
    <2> QED
      BY <2>1 DEF Pending
  <1>7. CASE p # n
    <2>1. p + 1 \in p + 1 .. n /\ (p + 1) - d \in 1 .. n - d
      BY <1>1, <1>3, <1>7
    <2>2. iter' = next[(p + 1) - d]
      BY <1>2, <1>3, <1>7, <2>1
    <2>3. iter' \in Clients(next)
      BY <1>1, <2>1, <2>2 DEF Clients
    <2>4. ASSUME NEW i \in DOMAIN next, next[i] = iter' PROVE i = (p + 1) - d
      BY <1>1, <2>1, <2>2, <2>4 DEF NoneTwice
    <2>5. ASSUME NEW j \in (p + 1) - d .. n - d, next[j] \in m_forSelect_fds
          PROVE  Readable(next[j])'
      <3>1. j + d \in p + 1 .. n /\ (j + d) - d = j
        BY <1>1, <1>3
      <3>2. next[j] = list[j + d]
        BY <1>3, <3>1
      <3>3. Readable(list[j + d])'
        BY <1>1, <1>5, <2>5, <3>1, <3>2
      <3> QED
        BY <3>2, <3>3
    <2>6. Pending'
      BY <1>4, <2>4, <2>5 DEF Pending
    <2> QED
      BY <1>1, <2>3, <2>6
  <1> QED
    BY <1>6, <1>7

\* A client that is not ready is passed over.
LEMMA SkipKeeps ==
  ASSUME LoopInv, NEW c \in Conns, Skip(c)
  PROVE  LoopInv'
  <1> DEFINE list == m_List_connectedClient
  <1>1. /\ StillRound /\ Serving(c)
        /\ iter' = ListItr_Next(list, c)
        /\ UNCHANGED <<pc, m_forSelect_fds, m_timeout, m_activity>>
    BY DEF Skip, StillRound, network
  <1>2. pc = "serve" /\ list \in Seq(Conns) /\ NoneTwice(list)
    BY <1>1, ServingPlace
  <1>3. PICK p \in 1 .. Len(list) :
          /\ list[p] = c
          /\ \A j \in p .. Len(list) : list[j] \in m_forSelect_fds => Readable(list[j])
    BY <1>1, ServingPlace
  <1>4. /\ 0 \in {0, 1} /\ Len(list) \in Nat /\ Len(list) = Len(list) - 0
        /\ \A j \in p + 1 .. Len(list) : list[j - 0] = list[j] /\ j \in p .. Len(list)
    BY <1>2, Places
  <1>5. ASSUME NEW d \in Conns, d \in m_forSelect_fds,
               NEW j \in p + 1 .. Len(list), list[j] = d
        PROVE  Readable(d)'
    <2>1. Readable(d)
      BY <1>3, <1>4, <1>5
    <2> QED
      BY <1>1, <2>1 DEF StillRound, Readable
  <1>6. Pending' /\ iter' \in Clients(list) \cup {End} /\ iter' \in Conns \cup {End}
    <2>1. iter' = ListItr_Next(list, list[p]) /\ m_List_connectedClient' = list
          /\ m_forSelect_fds' = m_forSelect_fds
      BY <1>1, <1>3 DEF StillRound
    <2> HIDE DEF list
    <2> QED
      BY <1>2, <1>3, <1>4, <1>5, <2>1, PendingPasses
  <1>7. TypeOK'
    BY <1>1, <1>6 DEF LoopInv, TypeOK, StillRound
  <1>8. BacklogAgrees' /\ ListAgrees'
    BY <1>1, <1>2, StillAgrees DEF Running
  <1> QED
    BY <1>1, <1>2, <1>6, <1>7, <1>8 DEF LoopInv, RoundAgrees, StillRound

\* A served client moves to the head, and those behind it stay where they are.
LEMMA ServeRequestKeeps ==
  ASSUME LoopInv, NEW c \in Conns, ServeRequest(c)
  PROVE  LoopInv'
  <1> DEFINE list == m_List_connectedClient
             next == Served(list, c)
  <1>1. /\ Serving(c) /\ request' = [request EXCEPT ![c] = FALSE]
        /\ m_client_timeout' = [m_client_timeout EXCEPT ![c] = m_maxWaitTime]
        /\ m_List_connectedClient' = next
        /\ iter' = ListItr_Next(list, c)
        /\ m_activity' = m_activity - 1
        /\ UNCHANGED <<pc, stop, m_master_fds, m_forSelect_fds, m_timeout, sock,
                       backlog, peer>>
    BY DEF ServeRequest, UpdateTimeForClient
  <1>2. /\ pc = "serve" /\ list \in Seq(Conns) /\ NoneTwice(list)
        /\ m_activity \in 1 .. Cardinality(Conns) + 1
    BY <1>1, ServingPlace
  <1>3. PICK p \in 1 .. Len(list) :
          /\ list[p] = c
          /\ \A j \in p .. Len(list) : list[j] \in m_forSelect_fds => Readable(list[j])
    BY <1>1, ServingPlace
  <1>4. /\ next \in Seq(Conns) /\ Len(next) = Len(list)
        /\ Clients(next) = Clients(list) /\ NoneTwice(next)
        /\ \A j \in 2 .. Len(list) : next[j] = IF j <= p THEN list[j - 1] ELSE list[j]
    BY <1>2, <1>3, ServedPlace, ServedClients
  <1>5. /\ 0 \in {0, 1} /\ Len(list) \in Nat /\ Len(list) = Len(list) - 0
        /\ \A j \in p + 1 .. Len(list) :
             j - 0 = j /\ j \in p .. Len(list) /\ j \in 2 .. Len(list) /\ ~ j <= p /\ j # p
             /\ j \in DOMAIN list /\ p \in DOMAIN list
    BY <1>2, Places
  <1>6. \A j \in p + 1 .. Len(list) : next[j - 0] = list[j]
    BY <1>4, <1>5
  <1>7. ASSUME NEW d \in Conns, d \in m_forSelect_fds,
               NEW j \in p + 1 .. Len(list), list[j] = d
        PROVE  Readable(d)'
    <2>1. Readable(d) /\ d # c
      BY <1>2, <1>3, <1>5, <1>7 DEF NoneTwice
    <2> HIDE DEF list
    <2> QED
      BY <1>1, <2>1 DEF Readable, LoopInv, TypeOK
  <1>8. Pending' /\ iter' \in Clients(next) \cup {End} /\ iter' \in Conns \cup {End}
    <2>1. iter' = ListItr_Next(list, list[p]) /\ m_List_connectedClient' = next
          /\ m_forSelect_fds' = m_forSelect_fds /\ Len(next) = Len(list) - 0
      BY <1>1, <1>3, <1>4, <1>5
    <2> HIDE DEF list, next
    <2> QED
      BY <1>2, <1>3, <1>4, <1>5, <1>6, <1>7, <2>1, PendingPasses
  <1> HIDE DEF next
  <1>9. TypeOK'
    <2>1. m_maxWaitTime \in -1 .. m_maxWaitTime
      BY ConnAssumption
    <2>2. m_activity' \in 0 .. Cardinality(Conns) + 1
      BY <1>1, <1>2, ForgottenTypes
    <2> QED
      BY <1>1, <1>4, <1>8, <2>1, <2>2 DEF LoopInv, TypeOK
  <1>10. BacklogAgrees'
    BY <1>1 DEF LoopInv, BacklogAgrees
  <1>11. ListAgrees'
    BY <1>1, <1>4 DEF LoopInv, ListAgrees, DescriptorsAgree, Running, NoneTwice
  <1> QED
    BY <1>1, <1>2, <1>8, <1>9, <1>10, <1>11 DEF LoopInv, RoundAgrees

\* A client that has gone leaves list, descriptor set and sockets together,
\* and those behind it move up by one.
LEMMA DropGoneKeeps ==
  ASSUME LoopInv, NEW c \in Conns, Serving(c), DropGone(c),
         UNCHANGED <<stop, m_forSelect_fds, m_timeout>>
  PROVE  LoopInv'
  <1> DEFINE list == m_List_connectedClient
             next == Without(list, c)
  <1>1. /\ CloseClients({c}) /\ m_master_fds' = m_master_fds \ {c}
        /\ m_List_connectedClient' = next
        /\ iter' = ListItr_Next(list, c)
        /\ m_activity' = m_activity - 1
        /\ UNCHANGED <<pc, stop, m_forSelect_fds, m_timeout, backlog>>
    BY DEF DropGone
  <1>2. /\ pc = "serve" /\ list \in Seq(Conns) /\ NoneTwice(list) /\ TypeOK
        /\ m_activity \in 1 .. Cardinality(Conns) + 1 /\ sock[c] = "open"
    BY ServingPlace DEF LoopInv
  <1>3. PICK p \in 1 .. Len(list) :
          /\ list[p] = c
          /\ \A j \in p .. Len(list) : list[j] \in m_forSelect_fds => Readable(list[j])
    BY ServingPlace
  <1>4. /\ next \in Seq(Conns) /\ Len(next) = Len(list) - 1
        /\ Clients(next) = Clients(list) \ {c} /\ NoneTwice(next)
        /\ \A j \in 1 .. Len(list) - 1 : next[j] = IF j < p THEN list[j] ELSE list[j + 1]
    BY <1>2, <1>3, WithoutPlace, WithoutClients
  <1>5. /\ 1 \in {0, 1} /\ Len(list) \in Nat
        /\ \A j \in p + 1 .. Len(list) :
             /\ j - 1 \in 1 .. Len(list) - 1 /\ ~ j - 1 < p /\ (j - 1) + 1 = j
             /\ j \in p .. Len(list) /\ j # p /\ j \in DOMAIN list /\ p \in DOMAIN list
    BY <1>2, Places
  <1>6. ASSUME NEW j \in p + 1 .. Len(list) PROVE next[j - 1] = list[j]
    <2>1. next[j - 1] = list[(j - 1) + 1]
      BY <1>4, <1>5
    <2> QED
      BY <1>5, <2>1
  <1>7. /\ sock' \in [Conns -> {"closed", "backlog", "open"}]
        /\ request' \in [Conns -> BOOLEAN]
        /\ peer' \in [Conns -> {"up", "fin", "rst"}]
        /\ m_client_timeout' \in [Conns -> -1 .. m_maxWaitTime]
        /\ \A d \in Conns : sock'[d] = IF d = c THEN "closed" ELSE sock[d]
        /\ \A d \in Conns : d # c /\ Readable(d) => Readable(d)'
    BY <1>1, <1>2, ClosedTypes
  <1>8. ASSUME NEW d \in Conns, d \in m_forSelect_fds,
               NEW j \in p + 1 .. Len(list), list[j] = d
        PROVE  Readable(d)'
    <2>1. Readable(d) /\ d # c
      BY <1>2, <1>3, <1>5, <1>8 DEF NoneTwice
    <2> QED
      BY <1>7, <2>1
  <1>9. Pending' /\ iter' \in Clients(next) \cup {End} /\ iter' \in Conns \cup {End}
    <2>1. iter' = ListItr_Next(list, list[p]) /\ m_List_connectedClient' = next
          /\ m_forSelect_fds' = m_forSelect_fds
      BY <1>1, <1>3
    <2> HIDE DEF list, next
    <2> QED
      BY <1>2, <1>3, <1>4, <1>5, <1>6, <1>8, <2>1, PendingPasses
  <1> HIDE DEF next
  <1>10. TypeOK'
    <2>1. m_activity' \in 0 .. Cardinality(Conns) + 1
      BY <1>1, <1>2, ForgottenTypes
    <2> QED
      BY <1>1, <1>2, <1>4, <1>7, <1>9, <2>1 DEF TypeOK
  <1>11. BacklogAgrees'
    BY <1>1, <1>2, <1>7 DEF LoopInv, BacklogAgrees
  <1>12. ListAgrees'
    <2>1. /\ m_master_fds = Clients(list) \cup {Master}
          /\ \A d : d \in Clients(list) <=> d \in Conns /\ sock[d] = "open"
      BY <1>2 DEF LoopInv, ListAgrees, DescriptorsAgree, Running
    <2>2. m_master_fds' = Clients(next) \cup {Master}
      BY <1>1, <1>4, <2>1, ConnAssumption
    <2>3. \A d : d \in Clients(next) <=> d \in Conns /\ sock'[d] = "open"
      BY <1>4, <1>7, <2>1
    <2> QED
      BY <1>1, <1>4, <2>2, <2>3 DEF ListAgrees, DescriptorsAgree, NoneTwice
  <1> QED
    BY <1>1, <1>2, <1>9, <1>10, <1>11, <1>12 DEF LoopInv, RoundAgrees

\* The kernel closes every descriptor of a process that ends.
LEMMA AllClosed ==
  ASSUME LoopInv, CloseClients(Conns), backlog' = << >>
  PROVE  /\ BacklogAgrees'
         /\ backlog' \in Seq(Conns) /\ Len(backlog') <= BackLog
         /\ sock' \in [Conns -> {"closed", "backlog", "open"}]
         /\ request' \in [Conns -> BOOLEAN]
         /\ peer' \in [Conns -> {"up", "fin", "rst"}]
         /\ m_client_timeout' \in [Conns -> -1 .. m_maxWaitTime]
  <1>1. TypeOK
    BY DEF LoopInv
  <1>2. /\ sock' \in [Conns -> {"closed", "backlog", "open"}]
        /\ request' \in [Conns -> BOOLEAN]
        /\ peer' \in [Conns -> {"up", "fin", "rst"}]
        /\ m_client_timeout' \in [Conns -> -1 .. m_maxWaitTime]
        /\ \A c \in Conns : sock'[c] = "closed"
    BY <1>1, ClosedTypes
  <1>3. backlog' \in Seq(Conns) /\ Len(backlog') = 0 /\ Clients(backlog') = {}
        /\ DOMAIN backlog' = {}
    BY DEF Clients
  <1>4. Len(backlog') <= BackLog
    BY <1>3, ConnAssumption
  <1> QED
    BY <1>2, <1>3, <1>4 DEF BacklogAgrees, NoneTwice

\* A gone client is dropped, or the process dies.
LEMMA ServeGoneKeeps ==
  ASSUME LoopInv, NEW c \in Conns, ServeGone(c)
  PROVE  LoopInv'
  <1>1. Serving(c) /\ UNCHANGED <<stop, m_forSelect_fds, m_timeout>>
    BY DEF ServeGone
  <1>2. CASE DropGone(c)
    BY <1>1, <1>2, DropGoneKeeps
  <1>3. CASE Crash
    <2>1. /\ pc' = "crashed" /\ CloseClients(Conns) /\ backlog' = << >>
          /\ UNCHANGED <<m_List_connectedClient, m_master_fds, m_activity, iter>>
      BY <1>3 DEF Crash
    <2>2. TypeOK'
      BY <1>1, <2>1, AllClosed DEF LoopInv, TypeOK
    <2>3. BacklogAgrees'
      BY <2>1, AllClosed
    <2>4. ListAgrees'
      BY <2>1 DEF LoopInv, ListAgrees, DescriptorsAgree, Running
    <2> QED
      BY <2>1, <2>2, <2>3, <2>4 DEF LoopInv, RoundAgrees, Pending
  <1> QED
    BY <1>2, <1>3 DEF ServeGone

\* A server that is stopped closes and forgets everything.
LEMMA DestroyKeeps ==
  ASSUME LoopInv, DestroyServer
  PROVE  LoopInv'
  <1>1. /\ pc' = "done" /\ CloseClients(Conns) /\ backlog' = << >>
        /\ m_master_fds' = {} /\ m_forSelect_fds' = {}
        /\ m_List_connectedClient' = << >>
        /\ UNCHANGED <<stop, m_timeout, m_activity, iter>>
    BY DEF DestroyServer
  <1>2. TypeOK'
    BY <1>1, AllClosed DEF LoopInv, TypeOK
  <1>3. BacklogAgrees'
    BY <1>1, AllClosed
  <1>4. ListAgrees'
    BY <1>1 DEF ListAgrees, DescriptorsAgree, Running, NoneTwice
  <1> QED
    BY <1>1, <1>2, <1>3, <1>4 DEF LoopInv, RoundAgrees, Pending
-----------------------------------------------------------------------------
(***************************************************************************)
(* The invariant, and what follows from it.                                *)
(***************************************************************************)

\* An idle server: no client, no connection, and the listening socket alone to
\* select on (CreateServer).
LEMMA InitLoopInv ==
  ASSUME Init
  PROVE  LoopInv
  <1>1. TypeOK
    <2>1. 0 \in -1 .. m_maxWaitTime
      BY ConnAssumption
    <2>2. backlog \in Seq(Conns) /\ Len(backlog) <= BackLog
      BY ConnAssumption DEF Init
    <2>3. m_List_connectedClient \in Seq(Conns)
      BY DEF Init
    <2>4. /\ m_client_timeout \in [Conns -> -1 .. m_maxWaitTime]
          /\ sock \in [Conns -> {"closed", "backlog", "open"}]
          /\ request \in [Conns -> BOOLEAN]
          /\ peer \in [Conns -> {"up", "fin", "rst"}]
      BY <2>1 DEF Init
    <2> QED
      BY <2>2, <2>3, <2>4, ForgottenTypes DEF Init, TypeOK
  <1>2. BacklogAgrees /\ ListAgrees
    BY DEF Init, BacklogAgrees, ListAgrees, DescriptorsAgree, NoneTwice, Clients
  <1> QED
    BY <1>1, <1>2 DEF Init, LoopInv, RoundAgrees, Pending

\* Every step of the loop and of what runs around it keeps the invariant.
LEMMA NextKeepsLoop ==
  ASSUME LoopInv, [Next]_vars
  PROVE  LoopInv'
  <1>1. ASSUME NEW c \in Conns, Connect(c) \/ Send(c) \/ Hangup(c) PROVE LoopInv'
    BY <1>1, ConnectKeeps, ClientKeeps
  <1>2. CASE Tick
    BY <1>2, TickKeeps
  <1>3. CASE SignalHandler
    BY <1>3, SignalKeeps
  <1>4. CASE StartRound
    BY <1>4, StartRoundKeeps
  <1>5. CASE EnterSelect
    BY <1>5, EnterSelectKeeps
  <1>6. CASE SelectReady
    BY <1>6, SelectReadyKeeps
  <1>7. CASE SelectTimeout
    BY <1>7, SelectTimeoutKeeps
  <1>8. CASE Check_expiry_of_Clients
    BY <1>8, ExpireKeeps
  <1>9. CASE AddClientToTheList
    BY <1>9, RefuseKeeps, AcceptKeeps
  <1>10. ASSUME NEW c \in Conns, Skip(c) \/ ServeRequest(c) \/ ServeGone(c) PROVE LoopInv'
    BY <1>10, SkipKeeps, ServeRequestKeeps, ServeGoneKeeps
  <1>11. CASE EndRound
    BY <1>11, EndRoundKeeps
  <1>12. CASE DestroyServer
    BY <1>12, DestroyKeeps
  <1>13. CASE UNCHANGED vars
    BY <1>13 DEF vars, LoopInv, TypeOK, BacklogAgrees, ListAgrees, DescriptorsAgree,
                 Running, RoundAgrees, Pending, Readable
  <1> QED
    BY <1>1, <1>2, <1>3, <1>4, <1>5, <1>6, <1>7, <1>8, <1>9, <1>10, <1>11, <1>12, <1>13
       DEF Next, Server, Environment

\* The loop's invariant holds in every behaviour (RunServer).
THEOREM LoopKeepsInv == Spec => []LoopInv
  <1>1. Init => LoopInv
    BY InitLoopInv
  <1>2. LoopInv /\ [Next]_vars => LoopInv'
    BY NextKeepsLoop
  <1> QED
    BY <1>1, <1>2, PTL DEF Spec

\* Every field of the server and of its connections keeps its type.
THEOREM TypeCorrect == Spec => []TypeOK
  <1>1. LoopInv => TypeOK
    BY DEF LoopInv
  <1> QED
    BY <1>1, LoopKeepsInv, PTL

\* The client list, the descriptor set and the open sockets are the same
\* connections while the server runs, whoever connects, hangs up or expires.
THEOREM DescriptorsStayEqual == Spec => []DescriptorsAgree
  <1>1. LoopInv => DescriptorsAgree
    BY DEF LoopInv, ListAgrees
  <1> QED
    BY <1>1, LoopKeepsInv, PTL

\* No recv of the loop waits: what select found ready is still readable when
\* the iterator comes to it (ReceiveAndSend).
THEOREM NeverBlocks == Spec => []NeverBlocksInRecv
  <1>1. ASSUME LoopInv PROVE NeverBlocksInRecv
    <2> SUFFICES ASSUME NEW c \in Conns, Serving(c), c \in m_forSelect_fds
                 PROVE  Readable(c)
      BY DEF NeverBlocksInRecv
    <2> DEFINE list == m_List_connectedClient
    <2>1. PICK p \in 1 .. Len(list) :
            /\ list[p] = c
            /\ \A j \in p .. Len(list) : list[j] \in m_forSelect_fds => Readable(list[j])
      BY <1>1, ServingPlace
    <2>2. p \in p .. Len(list)
      <3>1. list \in Seq(Conns)
        BY <1>1 DEF LoopInv, TypeOK
      <3> QED
        BY <2>1, <3>1, Places
    <2> QED
      BY <2>1, <2>2
  <1> QED
    BY <1>1, LoopKeepsInv, PTL
-----------------------------------------------------------------------------
(***************************************************************************)
(* Nobody is dropped without cause.                                        *)
(***************************************************************************)

\* Whoever is open is in the list, and does not wait in the kernel's queue.
LEMMA OpenIsAccepted ==
  ASSUME LoopInv, NEW c \in Conns, sock[c] = "open"
  PROVE  c \notin Clients(backlog)
  BY DEF LoopInv, BacklogAgrees

\* A client that Check_expiry_of_Clients drops has no time left: the iteration
\* ends at the first that has.
LEMMA DroppedHaveExpired ==
  ASSUME LoopInv, NEW c \in Conns, Check_expiry_of_Clients,
         sock[c] = "open", sock'[c] # "open"
  PROVE  m_client_timeout[c] < 0
  <1> DEFINE list == m_List_connectedClient
  <1>1. list \in Seq(Conns) /\ sock \in [Conns -> {"closed", "backlog", "open"}]
    BY DEF LoopInv, TypeOK
  <1>2. c \in {list[i] : i \in ExpiredPrefix}
    BY <1>1 DEF Check_expiry_of_Clients, CloseClients
  <1>3. PICK i \in ExpiredPrefix : c = list[i]
    BY <1>2
  <1>4. i \in 1 .. i
    BY <1>1, <1>3, Places DEF ExpiredPrefix
  <1> QED
    BY <1>3, <1>4 DEF ExpiredPrefix

\* A refused connection was not open, and an accepted one becomes it.
LEMMA AcceptClosesNone ==
  ASSUME LoopInv, NEW c \in Conns, AddClientToTheList, sock[c] = "open"
  PROVE  sock'[c] = "open"
  <1>1. backlog # << >> /\ backlog \in Seq(Conns)
    BY DEF LoopInv, RoundAgrees, TypeOK, AddClientToTheList
  <1>2. Head(backlog) \in Clients(backlog)
    <2>1. Head(backlog) = backlog[1] /\ 1 \in DOMAIN backlog
      BY <1>1, Places
    <2> QED
      BY <2>1 DEF Clients
  <1>3. c # Head(backlog)
    BY <1>2, OpenIsAccepted
  <1> QED
    BY <1>3 DEF AddClientToTheList, CloseClients, LoopInv, TypeOK

\* An open connection is closed (server_tcp.c:271-293, 314-325) only if its
\* client has hung up, its time is over, or the server ends.
THEOREM ClosesForCause == Spec => ClosedForCause
  <1> DEFINE Cause == \A c \in Conns : sock[c] = "open" /\ sock'[c] # "open" =>
                        peer[c] # "up" \/ m_client_timeout[c] < 0 \/ ~Running'
  <1>1. ASSUME LoopInv, [Next]_vars PROVE Cause
    <2> SUFFICES ASSUME NEW c \in Conns, sock[c] = "open", sock'[c] # "open"
                 PROVE  peer[c] # "up" \/ m_client_timeout[c] < 0 \/ ~Running'
      OBVIOUS
    <2> USE <1>1 DEF LoopInv, TypeOK
    <2>1. ASSUME NEW d \in Conns, Connect(d) \/ Send(d) \/ Hangup(d) PROVE FALSE
      BY <2>1 DEF Connect, Send, Hangup
    <2>2. ASSUME \/ Tick \/ SignalHandler \/ StartRound \/ EnterSelect \/ SelectReady
                 \/ SelectTimeout \/ EndRound \/ \E d \in Conns : Skip(d)
          PROVE  FALSE
      BY <2>2 DEF Tick, SignalHandler, StartRound, EnterSelect, SelectReady,
           SelectTimeout, EndRound, Skip, network
    <2>3. CASE Check_expiry_of_Clients
      BY <2>3, DroppedHaveExpired
    <2>4. CASE AddClientToTheList
      BY <2>4, AcceptClosesNone
    <2>5. ASSUME NEW d \in Conns, ServeRequest(d) PROVE FALSE
      BY <2>5 DEF ServeRequest
    <2>6. ASSUME NEW d \in Conns, ServeGone(d)
          PROVE  peer[c] # "up" \/ ~Running'
      <3>1. peer[d] # "up" /\ (DropGone(d) \/ Crash)
        BY <2>6 DEF ServeGone
      <3>2. CASE DropGone(d)
        BY <3>1, <3>2 DEF DropGone, CloseClients
      <3>3. CASE Crash
        BY <3>3 DEF Crash, Running
      <3> QED
        BY <3>1, <3>2, <3>3
    <2>7. CASE DestroyServer
      BY <2>7 DEF DestroyServer, Running
    <2>8. CASE UNCHANGED vars
      BY <2>8 DEF vars
    <2> QED
      BY <1>1, <2>1, <2>2, <2>3, <2>4, <2>5, <2>6, <2>7, <2>8
         DEF Next, Server, Environment
  <1>2. LoopInv /\ [Next]_vars => [Cause]_vars
    BY <1>1
  <1> QED
    BY <1>2, LoopKeepsInv, PTL DEF Spec, ClosedForCause
-----------------------------------------------------------------------------
(***************************************************************************)
(* The loop implements the service (RequestService).                       *)
(***************************************************************************)

\* A list without repetitions is as long as it has clients.
LEMMA ListCounts ==
  ASSUME NEW list \in Seq(Conns), NoneTwice(list)
  PROVE  Cardinality(Clients(list)) = Len(list)
  <1> DEFINE n == Len(list)
  <1>1. n \in Nat /\ DOMAIN list = 1 .. n
    BY Places
  <1>2. list \in [1 .. n -> Clients(list)]
    BY <1>1 DEF Clients
  <1>3. \A t \in Clients(list) : \E i \in 1 .. n : list[i] = t
    BY ClientsAt
  <1>4. \A i, j \in 1 .. n : list[i] = list[j] => i = j
    BY <1>1 DEF NoneTwice
  <1> HIDE DEF n
  <1>5. list \in Bijection(1 .. n, Clients(list))
    BY <1>2, <1>3, <1>4, Fun_IsBij
  <1>6. ExistsBijection(1 .. n, Clients(list))
    BY <1>5, Fun_ExistsBij
  <1> QED
    BY <1>1, <1>6, FS_CountingElements DEF n

\* Closing connections is the same in both specifications.
LEMMA ServiceCloses ==
  ASSUME NEW S, CloseClients(S)
  PROVE  Service!Close(S)
  BY DEF CloseClients, Service!Close

\* The clients act on both in the same way.
LEMMA ServiceClient ==
  ASSUME NEW c \in Conns, Connect(c) \/ Send(c) \/ Hangup(c)
  PROVE  Service!Next
  <1>1. pc' = pc /\ (Running' <=> Running)
    BY DEF Connect, Send, Hangup, server, Running
  <1>2. CASE Connect(c)
    BY <1>1, <1>2 DEF Connect, Service!Connect, Service!Next
  <1>3. CASE Send(c)
    BY <1>1, <1>3 DEF Send, Service!Send, Service!Next
  <1>4. CASE Hangup(c)
    <2>1. \E how \in {"fin", "rst"} \ {peer[c]} : peer' = [peer EXCEPT ![c] = how]
      BY <1>4 DEF Hangup
    <2>2. Service!Hangup(c)
      BY <1>1, <1>4, <2>1 DEF Hangup, Service!Hangup
    <2> QED
      BY <2>2 DEF Service!Next
  <1> QED
    BY <1>2, <1>3, <1>4

\* The loop's own steps are not seen by the clients.
LEMMA ServiceStutters ==
  ASSUME Running, Running', UNCHANGED network
  PROVE  UNCHANGED Service!vars
  BY DEF network, Service!vars

\* Closing the connections whose time is over; when there is none, nothing
\* is seen of it.
LEMMA ServiceExpires ==
  ASSUME LoopInv, Check_expiry_of_Clients
  PROVE  Service!Next \/ UNCHANGED Service!vars
  <1> DEFINE list == m_List_connectedClient
             dropped == {list[i] : i \in ExpiredPrefix}
  <1>1. /\ CloseClients(dropped) /\ backlog' = backlog /\ Running /\ Running'
    BY DEF Check_expiry_of_Clients, Running
  <1>2. /\ TypeOK /\ list \in Seq(Conns)
        /\ \A c : c \in Clients(list) <=> c \in Conns /\ sock[c] = "open"
    BY <1>1 DEF LoopInv, TypeOK, ListAgrees, DescriptorsAgree
  <1>3. PICK k \in 0 .. Len(list) : ExpiredPrefix = 1 .. k
    BY <1>2, ExpiredFirst
  <1>4. dropped \subseteq Clients(list)
    <2>1. DOMAIN list = 1 .. Len(list) /\ 1 .. k \subseteq 1 .. Len(list)
      BY <1>2, <1>3, Places
    <2> QED
      BY <1>3, <2>1 DEF Clients
  <1> HIDE DEF dropped
  <1>5. CASE dropped = {}
    <2>1. sock' = sock /\ request' = request /\ peer' = peer
      BY <1>1, <1>2, <1>5 DEF CloseClients, TypeOK
    <2> QED
      BY <1>1, <2>1 DEF Service!vars
  <1>6. CASE dropped # {}
    <2>1. dropped \subseteq Service!Open /\ dropped \in SUBSET Conns
      BY <1>2, <1>4 DEF Service!Open
    <2>2. Service!Expire(dropped)
      BY <1>1, <1>6, <2>1, ServiceCloses DEF Service!Expire
    <2> QED
      BY <2>1, <2>2 DEF Service!Next
  <1> QED
    BY <1>5, <1>6

\* The oldest connection is accepted, or refused because more than the limit
\* are open.
LEMMA ServiceAccepts ==
  ASSUME LoopInv, AddClientToTheList
  PROVE  Service!Next
  <1> DEFINE list == m_List_connectedClient
  <1>1. /\ pc = "accept" /\ pc' = "serve" /\ Running /\ Running' /\ backlog' = Tail(backlog)
    BY DEF AddClientToTheList, Running
  <1>2. backlog # << >> /\ list \in Seq(Conns) /\ NoneTwice(list)
        /\ Clients(list) = {c \in Conns : sock[c] = "open"}
    BY <1>1 DEF LoopInv, RoundAgrees, TypeOK, ListAgrees, DescriptorsAgree
  <1>3. CASE TooManyClients(Len(list))
    <2>1. CLIENTS_LIMIT < Service!Cardinality(Service!Open)
      <3>1. Service!Cardinality(Service!Open) = Cardinality(Service!Open)
        BY DEF Service!Cardinality, Cardinality
      <3> QED
        BY <1>2, <1>3, <3>1, ListCounts DEF Service!Open, TooManyClients
    <2>2. CloseClients({Head(backlog)})
      BY <1>3 DEF AddClientToTheList
    <2>3. Service!Close({Head(backlog)})
      BY <2>2, ServiceCloses
    <2>4. Running' = Running
      BY <1>1 DEF Running
    <2>5. Service!Refuse
      BY <1>1, <1>2, <2>1, <2>3, <2>4 DEF Service!Refuse
    <2> QED
      BY <2>5 DEF Service!Next
  <1>4. CASE ~ TooManyClients(Len(list))
    <2>1. Service!Accept
      BY <1>1, <1>2, <1>4 DEF AddClientToTheList, Service!Accept
    <2> QED
      BY <2>1 DEF Service!Next
  <1> QED
    BY <1>3, <1>4

\* A client is answered, found gone, or the process dies of it.
LEMMA ServiceServes ==
  ASSUME LoopInv, NEW c \in Conns, ServeRequest(c) \/ ServeGone(c)
  PROVE  Service!Next
  <1>1. Serving(c) /\ sock[c] = "open" /\ pc = "serve" /\ Running
    BY ServingPlace DEF ServeRequest, ServeGone, Running
  <1>2. CASE ServeRequest(c)
    <2>1. Service!Serve(c)
      BY <1>1, <1>2 DEF ServeRequest, Service!Serve, Running
    <2> QED
      BY <2>1 DEF Service!Next
  <1>3. CASE ServeGone(c) /\ DropGone(c)
    <2>1. Service!Gone(c)
      BY <1>1, <1>3, ServiceCloses DEF ServeGone, DropGone, Service!Gone, Running
    <2> QED
      BY <2>1 DEF Service!Next
  <1>4. CASE Crash
    <2>1. Service!Down
      BY <1>1, <1>4, ServiceCloses DEF Crash, Service!Down, Running
    <2> QED
      BY <2>1 DEF Service!Next
  <1> QED
    BY <1>2, <1>3, <1>4 DEF ServeGone

\* The loop (RunServer) keeps what RequestService promises to the clients:
\* each of its steps is a step of the service or none.
THEOREM ServiceImplemented == Spec => ImplementsService
  <1>1. Init => Service!Init
    BY DEF Init, Service!Init, Running
  <1>2. ASSUME LoopInv, [Next]_vars PROVE [Service!Next]_Service!vars
    <2>1. ASSUME NEW c \in Conns, Connect(c) \/ Send(c) \/ Hangup(c)
          PROVE  Service!Next
      BY <2>1, ServiceClient
    <2>2. CASE \/ Tick \/ SignalHandler \/ StartRound \/ EnterSelect \/ SelectReady
               \/ SelectTimeout \/ EndRound \/ \E c \in Conns : Skip(c)
      <3>1. UNCHANGED network /\ Running /\ Running'
        BY <2>2 DEF Tick, SignalHandler, StartRound, EnterSelect, SelectReady,
             SelectTimeout, EndRound, Skip, Serving, Running
      <3> QED
        BY <3>1, ServiceStutters
    <2>3. CASE Check_expiry_of_Clients
      BY <1>2, <2>3, ServiceExpires
    <2>4. CASE AddClientToTheList
      BY <1>2, <2>4, ServiceAccepts
    <2>5. ASSUME NEW c \in Conns, ServeRequest(c) \/ ServeGone(c) PROVE Service!Next
      BY <1>2, <2>5, ServiceServes
    <2>6. CASE DestroyServer
      <3>1. Service!Down
        BY <2>6, ServiceCloses DEF DestroyServer, Service!Down, Running
      <3> QED
        BY <3>1 DEF Service!Next
    <2>7. CASE UNCHANGED vars
      BY <2>7 DEF vars, Service!vars, Running
    <2> QED
      BY <1>2, <2>1, <2>2, <2>3, <2>4, <2>5, <2>6, <2>7 DEF Next, Server, Environment
  <1> QED
    BY <1>1, <1>2, LoopKeepsInv, PTL DEF Spec, ImplementsService, Service!Spec
=============================================================================
