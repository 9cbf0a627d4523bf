--------------------------- MODULE LinkedListProofs ---------------------------
(***************************************************************************)
(* Proofs about the list of nodes, for every finite heap, every set of     *)
(* items and every less function.                                          *)
(*                                                                         *)
(* The argument.  There is a numbering of the places in use, from the      *)
(* head's to the tail's, that m_next follows upwards and m_prev downwards  *)
(* (IsChain).  Link puts a free block between two neighbours of it and     *)
(* Unlink takes a node out, so each leaves another such numbering; a sort  *)
(* changes no link, and a splice is a sequence of the two.  A walk along   *)
(* m_next reads the numbering off again.                                   *)
(***************************************************************************)
EXTENDS LinkedList, RoundArithmetic, FiniteSetTheorems, SequenceTheorems

-----------------------------------------------------------------------------
(***************************************************************************)
(* Loops: n steps one after the other from b, and the walk along m_next.   *)
(***************************************************************************)

\* f holds the results of n steps of a loop that starts with b.
AreResults(f, S, b, n, step) ==
  /\ f \in [0 .. n -> S] /\ f[0] = b
  /\ \A i \in 1 .. n : f[i] = step[i][f[i - 1]]

\* The results of a loop exist.
LEMMA LoopResults ==
  ASSUME NEW S, NEW b \in S, NEW n \in Nat, NEW step \in [1 .. n -> [S -> S]]
  PROVE  \E f : AreResults(f, S, b, n, step)
  <1> DEFINE Runs(m) == \E f \in [0 .. m -> S] :
                          f[0] = b /\ \A i \in 1 .. m : f[i] = step[i][f[i - 1]]
             Short == {m \in 0 .. n : ~ Runs(m)}
  <1>1. Runs(0)
    <2> DEFINE g == [i \in 0 .. 0 |-> b]
    <2>1. g \in [0 .. 0 -> S] /\ g[0] = b
      OBVIOUS
    <2>2. \A i \in 1 .. 0 : g[i] = step[i][g[i - 1]]
      OBVIOUS
    <2> HIDE DEF g
    <2> QED
      BY <2>1, <2>2
  <1>2. ASSUME NEW m \in 1 .. n, Runs(m - 1)
        PROVE  Runs(m)
    <2>1. PICK f \in [0 .. m - 1 -> S] :
            f[0] = b /\ \A i \in 1 .. m - 1 : f[i] = step[i][f[i - 1]]
      BY <1>2
    <2> DEFINE g == [i \in 0 .. m |-> IF i = m THEN step[m][f[m - 1]] ELSE f[i]]
    <2>2. f[m - 1] \in S
      OBVIOUS
    <2>3. g \in [0 .. m -> S]
      <3>1. step[m][f[m - 1]] \in S
        BY <2>2
      <3> QED
        BY <3>1
    <2>4. g[0] = b
      BY <2>1
    <2>5. ASSUME NEW i \in 1 .. m
          PROVE  g[i] = step[i][g[i - 1]]
      <3>1. i - 1 \in 0 .. m - 1 /\ g[i - 1] = f[i - 1]
        OBVIOUS
      <3>2. CASE i = m
        <4>1. g[i] = step[m][f[m - 1]]
          BY <3>2
        <4> QED
          BY <3>1, <3>2, <4>1
      <3>3. CASE i # m
        <4>1. i \in 1 .. m - 1 /\ g[i] = f[i]
          BY <3>3
        <4> QED
          BY <2>1, <3>1, <4>1
      <3> QED
        BY <3>2, <3>3
    <2> QED
      BY <2>3, <2>4, <2>5
  <1>3. Short = {}
    <2> SUFFICES ASSUME Short # {}
                 PROVE  FALSE
      OBVIOUS
    <2> HIDE DEF Runs
    <2>0. Short \subseteq Nat
      OBVIOUS
    <2>1. PICK m \in Short : \A j \in Short : m <= j
      <3> HIDE DEF Short
      <3> QED
        BY <2>0, LeastNumber
    <2>2. m # 0
      BY <1>1
    <2>3. m \in 1 .. n /\ m - 1 \in 0 .. n
      BY <2>2
    <2>4. Runs(m - 1)
      BY <2>1, <2>3
    <2> QED
      BY <1>2, <2>3, <2>4
  <1>4. Runs(n)
    <2> HIDE DEF Runs
    <2> QED
      BY <1>3
  <1> QED
    BY <1>4 DEF AreResults

\* What each step of a loop keeps holds of all its results.
LEMMA LoopKeeps ==
  ASSUME NEW S, NEW n \in Nat, NEW f, f[0] \in S,
         \A i \in 1 .. n : f[i - 1] \in S => f[i] \in S
  PROVE  \A i \in 0 .. n : f[i] \in S
  <1> DEFINE Far == {i \in 0 .. n : f[i] \notin S}
  <1>1. Far = {}
    <2> SUFFICES ASSUME Far # {}
                 PROVE  FALSE
      OBVIOUS
    <2>1. Far \subseteq Nat
      OBVIOUS
    <2>2. PICK m \in Far : \A j \in Far : m <= j
      <3> HIDE DEF Far
      <3> QED
        BY <2>1, LeastNumber
    <2>3. m \in 1 .. n /\ m - 1 \in 0 .. n
      OBVIOUS
    <2>4. f[m - 1] \in S
      BY <2>2, <2>3
    <2> QED
      BY <2>3, <2>4
  <1> QED
    BY <1>1

\* There are finitely many places, and a walk may take as many links as there
\* are nodes, and one.
LEMMA StepsFacts ==
  /\ Cardinality(Nodes) \in Nat /\ IsFiniteSet(Nodes)
  /\ Steps \subseteq Nat /\ 0 \in Steps
  BY NodesAssumption, FS_CardinalityType DEF Steps

\* A walk along m_next from a place p, among places whose links stay among them.
LEMMA Walks ==
  ASSUME NEW l, NEW L, NEW p \in L, \A q \in L : l.m_next[q] \in L
  PROVE  /\ Ahead(l, p) \in [Steps -> L]
         /\ Ahead(l, p)[0] = p
         /\ \A i \in Steps \ {0} : Ahead(l, p)[i] = l.m_next[Ahead(l, p)[i - 1]]
  <1> DEFINE n == Cardinality(Nodes) + 1
             Walk(w) == w = [i \in Steps |-> IF i = 0 THEN p ELSE ListItr_Next(l, w[i - 1])]
             step == [i \in 1 .. n |-> [q \in L |-> l.m_next[q]]]
  <1>1. n \in Nat /\ Steps = 0 .. n
    BY StepsFacts DEF Steps
  <1>2. step \in [1 .. n -> [L -> L]]
    OBVIOUS
  <1> HIDE DEF n
  <1>3. PICK f : AreResults(f, L, p, n, step)
    <2>1. p \in L /\ n \in Nat
      BY <1>1
    <2> HIDE DEF step
    <2> QED
      BY <1>2, <2>1, LoopResults
  <1> USE DEF AreResults
  <1>4. ASSUME NEW i \in 1 .. n
        PROVE  f[i] = l.m_next[f[i - 1]]
    <2>1. i - 1 \in 0 .. n
      BY <1>1
    <2>2. f[i - 1] \in L
      BY <1>3, <2>1
    <2> QED
      BY <1>3, <2>2
  <1>5. Walk(f)
    <2>1. f = [i \in 0 .. n |-> f[i]]
      BY <1>3
    <2>2. ASSUME NEW i \in 0 .. n
          PROVE  f[i] = IF i = 0 THEN p ELSE ListItr_Next(l, f[i - 1])
      <3>1. CASE i = 0
        BY <1>3, <3>1
      <3>2. CASE i # 0
        <4>1. i \in 1 .. n
          BY <1>1, <3>2
        <4> QED
          BY <1>4, <3>2, <4>1 DEF ListItr_Next
      <3> QED
        BY <3>1, <3>2
    <2> QED
      BY <1>1, <2>1, <2>2
  <1>6. Ahead(l, p) = CHOOSE w : Walk(w)
    BY DEF Ahead
  <1>7. Walk(Ahead(l, p))
    <2> HIDE DEF Walk
    <2> QED
      BY <1>5, <1>6
  <1> DEFINE w == Ahead(l, p)
  <1>8. w = [i \in 0 .. n |-> IF i = 0 THEN p ELSE l.m_next[w[i - 1]]]
    BY <1>1, <1>7 DEF ListItr_Next
  <1> HIDE DEF w, step
  <1>9. w[0] = p /\ \A i \in 1 .. n : w[i] = l.m_next[w[i - 1]]
    BY <1>1, <1>8
  <1>10. \A i \in 0 .. n : w[i] \in L
    BY <1>1, <1>9, LoopKeeps
  <1>11. w \in [0 .. n -> L]
    BY <1>8, <1>10
  <1>12. Steps \ {0} = 1 .. n
    BY <1>1
  <1> QED
    BY <1>1, <1>9, <1>11, <1>12 DEF w
-----------------------------------------------------------------------------
(***************************************************************************)
(* The numbering of the places in use.                                     *)
(***************************************************************************)
ListType ==
  [m_next : [Places -> Places \cup {NULL}],
   m_prev : [Places -> Places \cup {NULL}],
   m_data : [Places -> Items \cup {NULL}]]

\* c numbers the places of `used`, the head's 0 and the tail's n + 1, in the
\* order of their links.
IsChain(l, used, n, c) ==
  /\ c \in [0 .. n + 1 -> used]
  /\ c[0] = head /\ c[n + 1] = tail
  /\ \A i, j \in 0 .. n + 1 : c[i] = c[j] => i = j
  /\ \A p \in used : \E i \in 0 .. n + 1 : c[i] = p
  /\ \A i \in 0 .. n : l.m_next[c[i]] = c[i + 1] /\ l.m_prev[c[i + 1]] = c[i]
  /\ l.m_next[tail] = tail /\ l.m_prev[head] = NULL

\* Only the two fields with the links matter.
LEMMA SameLinks ==
  ASSUME NEW l, NEW k, NEW used, NEW n \in Nat, NEW c, IsChain(l, used, n, c),
         k.m_next = l.m_next, k.m_prev = l.m_prev
  PROVE  IsChain(k, used, n, c)
  BY DEF IsChain

\* The links of a place in use lead to places in use.
LEMMA LinksStay ==
  ASSUME NEW l, NEW used, NEW n \in Nat, NEW c, IsChain(l, used, n, c)
  PROVE  /\ head \in used /\ tail \in used
         /\ \A p \in used : l.m_next[p] \in used
         /\ \A p \in used \ {head} : l.m_prev[p] \in used \ {tail}
         /\ \A p \in used \ {tail} : l.m_next[p] # head
  <1>1. head \in used /\ tail \in used
    BY DEF IsChain
  <1>2. ASSUME NEW p \in used
        PROVE  /\ l.m_next[p] \in used
               /\ p # head => l.m_prev[p] \in used \ {tail}
               /\ p # tail => l.m_next[p] # head
    <2>1. PICK i \in 0 .. n + 1 : c[i] = p
      BY DEF IsChain
    <2>2. CASE i = n + 1
      <3>1. p = tail /\ n \in 0 .. n /\ n + 1 \in 0 .. n + 1
        BY <2>1, <2>2 DEF IsChain
      <3>2. l.m_prev[p] = c[n] /\ c[n] \in used /\ c[n] # c[n + 1]
        BY <2>1, <2>2, <3>1 DEF IsChain
      <3> QED
        BY <1>1, <3>1, <3>2 DEF IsChain
    <2>3. CASE i # n + 1
      <3>1. i \in 0 .. n /\ i + 1 \in 0 .. n + 1 /\ 0 \in 0 .. n + 1
        BY <2>3
      <3>2. l.m_next[p] = c[i + 1] /\ c[i + 1] \in used /\ c[i + 1] # c[0]
        BY <2>1, <3>1 DEF IsChain
      <3>3. ASSUME p # head
            PROVE  l.m_prev[p] \in used \ {tail}
        <4>1. i # 0
          BY <2>1, <3>3 DEF IsChain
        <4>2. i - 1 \in 0 .. n /\ i - 1 + 1 = i /\ i - 1 \in 0 .. n + 1
              /\ n + 1 \in 0 .. n + 1 /\ i - 1 # n + 1
          BY <3>1, <4>1
        <4>3. l.m_prev[p] = c[i - 1] /\ c[i - 1] \in used /\ c[i - 1] # c[n + 1]
          BY <2>1, <4>2 DEF IsChain
        <4> QED
          BY <4>3 DEF IsChain
      <3> QED
        BY <3>2, <3>3 DEF IsChain
    <2> QED
      BY <2>2, <2>3
  <1> QED
    BY <1>1, <1>2

\* The numbering with p behind the place with number j, and without that place.
ChainWith(c, n, j, p) ==
  [i \in 0 .. n + 2 |-> IF i <= j THEN c[i] ELSE IF i = j + 1 THEN p ELSE c[i - 1]]

ChainWithout(c, n, j) == [i \in 0 .. n |-> IF i < j THEN c[i] ELSE c[i + 1]]

\* A free block that is linked between two neighbours comes between their
\* numbers.
LEMMA LinkKeepsChain ==
  ASSUME NEW l \in ListType, NEW used, used \subseteq Places, NEW n \in Nat, NEW c,
         IsChain(l, used, n, c),
         NEW j \in 0 .. n, NEW p \in Places \ used, NEW x,
         NEW k, k = Link(l, c[j], p, c[j + 1], x)
  PROVE  IsChain(k, used \cup {p}, n + 1, ChainWith(c, n, j, p))
  <1> DEFINE d == [i \in 0 .. n + 2 |->
                     IF i <= j THEN c[i] ELSE IF i = j + 1 THEN p ELSE c[i - 1]]
  <1>1. /\ \A i \in 0 .. n + 1 : c[i] \in used
        /\ \A i, h \in 0 .. n + 1 : c[i] = c[h] => i = h
        /\ \A q \in used : \E i \in 0 .. n + 1 : c[i] = q
        /\ \A i \in 0 .. n : l.m_next[c[i]] = c[i + 1] /\ l.m_prev[c[i + 1]] = c[i]
        /\ c[0] = head /\ c[n + 1] = tail
        /\ l.m_next[tail] = tail /\ l.m_prev[head] = NULL
    BY DEF IsChain
  <1>2. /\ \A i \in 0 .. j : d[i] = c[i]
        /\ d[j + 1] = p
        /\ \A i \in j + 2 .. n + 2 : d[i] = c[i - 1]
    OBVIOUS
  <1>3. d \in [0 .. n + 2 -> used \cup {p}]
    BY <1>1
  <1>4. d[0] = head /\ d[n + 2] = tail
    BY <1>1, <1>2
  <1> HIDE DEF d
  <1>5. ASSUME NEW i \in 0 .. n + 2, NEW h \in 0 .. n + 2, d[i] = d[h]
        PROVE  i = h
    <2>1. ASSUME NEW m \in 0 .. n + 2
          PROVE  \/ m <= j /\ m \in 0 .. n + 1 /\ d[m] = c[m] /\ d[m] \in used
                 \/ m = j + 1 /\ d[m] = p
                 \/ m > j + 1 /\ m - 1 \in 0 .. n + 1 /\ d[m] = c[m - 1] /\ d[m] \in used
      <3>1. CASE m <= j
        BY <1>1, <1>2, <3>1
      <3>2. CASE m = j + 1
        BY <1>2, <3>2
      <3>3. CASE m > j + 1
        <4>1. m \in j + 2 .. n + 2 /\ m - 1 \in 0 .. n + 1
          BY <3>3
        <4> QED
          BY <1>1, <1>2, <3>3, <4>1
      <3> QED
        BY <3>1, <3>2, <3>3
    <2> QED
      BY <1>1, <1>5, <2>1
  <1>6. ASSUME NEW q \in used \cup {p}
        PROVE  \E i \in 0 .. n + 2 : d[i] = q
    <2>1. CASE q = p
      BY <1>2, <2>1
    <2>2. CASE q # p
      <3>1. PICK i \in 0 .. n + 1 : c[i] = q
        BY <1>1, <2>2
      <3>2. CASE i <= j
        BY <1>2, <3>1, <3>2
      <3>3. CASE i > j
        <4>1. i + 1 \in j + 2 .. n + 2 /\ i + 1 \in 0 .. n + 2 /\ i + 1 - 1 = i
          BY <3>3
        <4> QED
          BY <1>2, <3>1, <4>1
      <3> QED
        BY <3>2, <3>3
    <2> QED
      BY <2>1, <2>2
  <1>7. /\ k.m_next = [l.m_next EXCEPT ![c[j]] = p, ![p] = c[j + 1]]
        /\ k.m_prev = [l.m_prev EXCEPT ![p] = c[j], ![c[j + 1]] = p]
        /\ DOMAIN l.m_next = Places /\ DOMAIN l.m_prev = Places
    BY DEF Link, ListType
  <1>8. j \in 0 .. n + 1 /\ j + 1 \in 0 .. n + 1 /\ c[j] \in used /\ c[j + 1] \in used
    BY <1>1
  <1>9. /\ k.m_next[c[j]] = p /\ k.m_next[p] = c[j + 1]
        /\ \A q \in used : q # c[j] => k.m_next[q] = l.m_next[q]
        /\ k.m_prev[c[j + 1]] = p /\ k.m_prev[p] = c[j]
        /\ \A q \in used : q # c[j + 1] => k.m_prev[q] = l.m_prev[q]
    BY <1>7, <1>8
  <1>10. ASSUME NEW i \in 0 .. n + 1
         PROVE  k.m_next[d[i]] = d[i + 1] /\ k.m_prev[d[i + 1]] = d[i]
    <2>1. CASE i < j
      <3>1. /\ d[i] = c[i] /\ d[i + 1] = c[i + 1] /\ i \in 0 .. n /\ i \in 0 .. n + 1
            /\ i + 1 \in 0 .. n + 1 /\ i # j /\ i + 1 # j + 1
        BY <1>2, <2>1
      <3>2. c[i] # c[j] /\ c[i + 1] # c[j + 1] /\ c[i] \in used /\ c[i + 1] \in used
        BY <1>1, <1>8, <3>1
      <3> QED
        BY <1>1, <1>9, <3>1, <3>2
    <2>2. CASE i = j
      <3>1. d[i] = c[j] /\ d[i + 1] = p
        BY <1>2, <2>2
      <3> QED
        BY <1>9, <3>1
    <2>3. CASE i = j + 1
      <3>1. i + 1 \in j + 2 .. n + 2 /\ i + 1 - 1 = j + 1
        BY <2>3
      <3>2. d[i] = p /\ d[i + 1] = c[j + 1]
        BY <1>2, <2>3, <3>1
      <3> QED
        BY <1>9, <3>2
    <2>4. CASE i > j + 1
      <3>1. /\ i \in j + 2 .. n + 2 /\ i + 1 \in j + 2 .. n + 2 /\ i + 1 - 1 = i
            /\ i - 1 \in 0 .. n /\ i - 1 + 1 = i /\ i \in 0 .. n + 1 /\ i - 1 \in 0 .. n + 1
            /\ i - 1 # j /\ i # j + 1
        BY <2>4
      <3>2. d[i] = c[i - 1] /\ d[i + 1] = c[i]
        BY <1>2, <3>1
      <3>3. c[i - 1] # c[j] /\ c[i] # c[j + 1] /\ c[i - 1] \in used /\ c[i] \in used
        BY <1>1, <1>8, <3>1
      <3>4. l.m_next[c[i - 1]] = c[i] /\ l.m_prev[c[i]] = c[i - 1]
        BY <1>1, <3>1
      <3> QED
        BY <1>9, <3>2, <3>3, <3>4
    <2> QED
      BY <2>1, <2>2, <2>3, <2>4
  <1>11. k.m_next[tail] = tail
    <2>1. n + 1 \in 0 .. n + 1 /\ tail \in used /\ tail # c[j]
      BY <1>1, <1>8
    <2> QED
      BY <1>1, <1>9, <2>1
  <1>12. k.m_prev[head] = NULL
    <2>1. 0 \in 0 .. n + 1 /\ j + 1 # 0
      OBVIOUS
    <2>2. head \in used /\ head # c[j + 1]
      BY <1>1, <1>8, <2>1
    <2> QED
      BY <1>1, <1>9, <2>2
  <1>13. n + 1 + 1 = n + 2
    OBVIOUS
  <1> QED
    BY <1>3, <1>4, <1>5, <1>6, <1>10, <1>11, <1>12, <1>13
       DEF IsChain, ChainWith, d

\* A node that is taken out leaves its neighbours next to each other.
LEMMA UnlinkKeepsChain ==
  ASSUME NEW l \in ListType, NEW used, used \subseteq Places, NEW n \in Nat, NEW c,
         IsChain(l, used, n, c),
         NEW j \in 1 .. n, NEW k, k = Unlink(l, c[j])
  PROVE  IsChain(k, used \ {c[j]}, n - 1, ChainWithout(c, n, j))
  <1> DEFINE d == [i \in 0 .. n |-> IF i < j THEN c[i] ELSE c[i + 1]]
             rest == used \ {c[j]}
  <1>1. /\ \A i \in 0 .. n + 1 : c[i] \in used
        /\ \A i, h \in 0 .. n + 1 : c[i] = c[h] => i = h
        /\ \A q \in used : \E i \in 0 .. n + 1 : c[i] = q
        /\ \A i \in 0 .. n : l.m_next[c[i]] = c[i + 1] /\ l.m_prev[c[i + 1]] = c[i]
        /\ c[0] = head /\ c[n + 1] = tail
        /\ l.m_next[tail] = tail /\ l.m_prev[head] = NULL
    BY DEF IsChain
  <1>2. /\ \A i \in 0 .. j - 1 : d[i] = c[i]
        /\ \A i \in j .. n : d[i] = c[i + 1]
    OBVIOUS
  <1> HIDE DEF d
  <1>3. j \in 0 .. n + 1 /\ j - 1 \in 0 .. n + 1 /\ j + 1 \in 0 .. n + 1 /\ j - 1 + 1 = j
        /\ 0 \in 0 .. j - 1 /\ n \in j .. n /\ j - 1 \in 0 .. n /\ j \in 0 .. n
    OBVIOUS
  <1>4. ASSUME NEW m \in 0 .. n
        PROVE  \/ m < j /\ m \in 0 .. n + 1 /\ d[m] = c[m] /\ d[m] \in rest
               \/ m >= j /\ m + 1 \in 0 .. n + 1 /\ d[m] = c[m + 1] /\ d[m] \in rest
    <2>1. CASE m < j
      <3>1. m \in 0 .. j - 1 /\ m \in 0 .. n + 1 /\ m # j
        BY <2>1
      <3>2. d[m] = c[m] /\ c[m] \in used /\ c[m] # c[j]
        BY <1>1, <1>2, <1>3, <3>1
      <3> QED
        BY <2>1, <3>1, <3>2
    <2>2. CASE m >= j
      <3>1. m \in j .. n /\ m + 1 \in 0 .. n + 1 /\ m + 1 # j
        BY <2>2
      <3>2. d[m] = c[m + 1] /\ c[m + 1] \in used /\ c[m + 1] # c[j]
        BY <1>1, <1>2, <1>3, <3>1
      <3> QED
        BY <2>2, <3>1, <3>2
    <2> QED
      BY <2>1, <2>2
  <1>5. d \in [0 .. n -> rest]
    <2>1. d = [i \in 0 .. n |-> d[i]]
      BY DEF d
    <2>2. \A m \in 0 .. n : d[m] \in rest
      BY <1>4
    <2> QED
      BY <2>1, <2>2
  <1>6. d[0] = head /\ d[n] = tail
    BY <1>1, <1>2, <1>3
  <1>7. ASSUME NEW i \in 0 .. n, NEW h \in 0 .. n, d[i] = d[h]
        PROVE  i = h
    <2> DEFINE u == IF i < j THEN i ELSE i + 1
               v == IF h < j THEN h ELSE h + 1
    <2>1. u \in 0 .. n + 1 /\ v \in 0 .. n + 1 /\ d[i] = c[u] /\ d[h] = c[v]
      BY <1>4
    <2>2. u = v => i = h
      OBVIOUS
    <2> HIDE DEF u, v
    <2>3. c[u] = c[v]
      BY <1>7, <2>1
    <2> QED
      BY <1>1, <2>1, <2>2, <2>3
  <1>8. ASSUME NEW q \in rest
        PROVE  \E i \in 0 .. n : d[i] = q
    <2>1. PICK i \in 0 .. n + 1 : c[i] = q
      BY <1>1
    <2>2. i # j
      BY <2>1
    <2>3. CASE i < j
      <3>1. i \in 0 .. j - 1 /\ i \in 0 .. n
        BY <2>3
      <3> QED
        BY <1>2, <2>1, <3>1
    <2>4. CASE i > j
      <3>1. i - 1 \in j .. n /\ i - 1 \in 0 .. n /\ i - 1 + 1 = i
        BY <2>4
      <3> QED
        BY <1>2, <2>1, <3>1
    <2> QED
      BY <2>2, <2>3, <2>4
  <1>9. l.m_prev[c[j]] = c[j - 1] /\ l.m_next[c[j]] = c[j + 1]
    BY <1>1, <1>3
  <1>10. /\ k.m_next = [l.m_next EXCEPT ![c[j - 1]] = c[j + 1], ![c[j]] = NULL]
         /\ k.m_prev = [l.m_prev EXCEPT ![c[j + 1]] = c[j - 1], ![c[j]] = NULL]
         /\ DOMAIN l.m_next = Places /\ DOMAIN l.m_prev = Places
    BY <1>9 DEF Unlink, ListType
  <1>11. /\ c[j] \in used /\ c[j - 1] \in rest /\ c[j + 1] \in rest
    BY <1>1, <1>3
  <1>12. /\ k.m_next[c[j - 1]] = c[j + 1]
         /\ \A q \in rest : q # c[j - 1] => k.m_next[q] = l.m_next[q]
         /\ k.m_prev[c[j + 1]] = c[j - 1]
         /\ \A q \in rest : q # c[j + 1] => k.m_prev[q] = l.m_prev[q]
    BY <1>10, <1>11
  <1>13. ASSUME NEW i \in 0 .. n - 1
         PROVE  k.m_next[d[i]] = d[i + 1] /\ k.m_prev[d[i + 1]] = d[i]
    <2>0. i \in 0 .. n /\ i + 1 \in 0 .. n
      OBVIOUS
    <2>1. d[i] \in rest /\ d[i + 1] \in rest
      BY <1>4, <2>0
    <2>2. CASE i + 1 < j
      <3>1. /\ i \in 0 .. j - 1 /\ i + 1 \in 0 .. j - 1 /\ i \in 0 .. n + 1
            /\ i + 1 \in 0 .. n + 1 /\ i # j - 1 /\ i + 1 # j + 1
        BY <2>2
      <3>2. d[i] = c[i] /\ d[i + 1] = c[i + 1]
        BY <1>2, <3>1
      <3>3. c[i] # c[j - 1] /\ c[i + 1] # c[j + 1]
        BY <1>1, <1>3, <3>1
      <3>4. l.m_next[c[i]] = c[i + 1] /\ l.m_prev[c[i + 1]] = c[i]
        BY <1>1, <2>0
      <3> QED
        BY <1>12, <2>1, <3>2, <3>3, <3>4
    <2>3. CASE i + 1 = j
      <3>1. i = j - 1 /\ i \in 0 .. j - 1 /\ i + 1 \in j .. n
        BY <2>3
      <3>2. d[i] = c[j - 1] /\ d[i + 1] = c[j + 1]
        BY <1>2, <2>3, <3>1
      <3> QED
        BY <1>12, <3>2
    <2>4. CASE i + 1 > j
      <3>1. /\ i \in j .. n /\ i + 1 \in j .. n /\ i + 1 \in 0 .. n + 1
            /\ i + 1 + 1 \in 0 .. n + 1 /\ i + 1 # j - 1 /\ i + 1 + 1 # j + 1
        BY <2>4
      <3>2. d[i] = c[i + 1] /\ d[i + 1] = c[i + 1 + 1]
        BY <1>2, <3>1
      <3>3. c[i + 1] # c[j - 1] /\ c[i + 1 + 1] # c[j + 1]
        BY <1>1, <1>3, <3>1
      <3>4. l.m_next[c[i + 1]] = c[i + 1 + 1] /\ l.m_prev[c[i + 1 + 1]] = c[i + 1]
        BY <1>1, <2>0
      <3> QED
        BY <1>12, <2>1, <3>2, <3>3, <3>4
    <2> QED
      BY <2>2, <2>3, <2>4
  <1>14. k.m_next[tail] = tail
    <2>1. tail \in rest /\ tail # c[j - 1]
      <3>1. n + 1 \in 0 .. n + 1 /\ n + 1 # j /\ n + 1 # j - 1
        OBVIOUS
      <3> QED
        BY <1>1, <1>3, <3>1
    <2> QED
      BY <1>1, <1>12, <2>1
  <1>15. k.m_prev[head] = NULL
    <2>1. head \in rest /\ head # c[j + 1]
      <3>1. 0 \in 0 .. n + 1 /\ 0 # j /\ 0 # j + 1
        OBVIOUS
      <3> QED
        BY <1>1, <1>3, <3>1
    <2> QED
      BY <1>1, <1>12, <2>1
  <1>16. n - 1 + 1 = n
    OBVIOUS
  <1> QED
    BY <1>5, <1>6, <1>7, <1>8, <1>13, <1>14, <1>15, <1>16
       DEF IsChain, ChainWithout, d
-----------------------------------------------------------------------------
(***************************************************************************)
(* What loops over the list read.                                          *)
(***************************************************************************)

\* The heap's nodes are enough to number the places of a chain.
LEMMA ChainCounts ==
  ASSUME NEW l, NEW used, used \subseteq Places, NEW n \in Nat, NEW c,
         IsChain(l, used, n, c)
  PROVE  n <= Cardinality(Nodes) /\ Cardinality(used) = n + 2
  <1>1. /\ \A i \in 0 .. n + 1 : c[i] \in used
        /\ \A i, h \in 0 .. n + 1 : c[i] = c[h] => i = h
        /\ \A q \in used : \E i \in 0 .. n + 1 : c[i] = q
        /\ c[0] = head /\ c[n + 1] = tail
    BY DEF IsChain
  <1>2. n <= Cardinality(Nodes)
    <2> DEFINE f == [i \in 1 .. n |-> c[i]]
    <2>1. ASSUME NEW i \in 1 .. n
          PROVE  f[i] \in Nodes
      <3>1. i \in 0 .. n + 1 /\ 0 \in 0 .. n + 1 /\ n + 1 \in 0 .. n + 1 /\ i # 0 /\ i # n + 1
        OBVIOUS
      <3>2. c[i] # c[0] /\ c[i] # c[n + 1] /\ c[i] \in used
        BY <1>1, <3>1
      <3> QED
        BY <1>1, <3>2 DEF Places
    <2>2. \A i, h \in 1 .. n : f[i] = f[h] => i = h
      BY <1>1
    <2>3. f \in Injection(1 .. n, Nodes)
      BY <2>1, <2>2 DEF Injection, IsInjective
    <2>4. Cardinality(1 .. n) <= Cardinality(Nodes)
      <3> HIDE DEF f
      <3> QED
        BY <2>3, NodesAssumption, FS_Injection
    <2>5. Cardinality(1 .. n) = n
      BY FS_Interval
    <2> QED
      BY <2>4, <2>5
  <1>3. Cardinality(used) = n + 2
    <2> DEFINE f == [i \in 1 .. n + 2 |-> c[i - 1]]
    <2>1. f \in [1 .. n + 2 -> used]
      BY <1>1
    <2>2. \A i, h \in 1 .. n + 2 : f[i] = f[h] => i = h
      <3> SUFFICES ASSUME NEW i \in 1 .. n + 2, NEW h \in 1 .. n + 2, f[i] = f[h]
                   PROVE  i = h
        OBVIOUS
      <3>1. i - 1 \in 0 .. n + 1 /\ h - 1 \in 0 .. n + 1
        OBVIOUS
      <3>2. i - 1 = h - 1
        BY <1>1, <3>1
      <3> QED
        BY <3>2
    <2>3. \A q \in used : \E i \in 1 .. n + 2 : f[i] = q
      <3> SUFFICES ASSUME NEW q \in used
                   PROVE  \E i \in 1 .. n + 2 : f[i] = q
        OBVIOUS
      <3>1. PICK i \in 0 .. n + 1 : c[i] = q
        BY <1>1
      <3>2. i + 1 \in 1 .. n + 2 /\ i + 1 - 1 = i
        OBVIOUS
      <3>3. f[i + 1] = q
        BY <3>1, <3>2
      <3> QED
        BY <3>2, <3>3
    <2> HIDE DEF f
    <2>4. f \in Bijection(1 .. n + 2, used)
      BY <2>1, <2>2, <2>3 DEF Bijection, Injection, IsInjective, Surjection
    <2>5. ExistsBijection(1 .. n + 2, used)
      BY <2>4 DEF ExistsBijection
    <2> QED
      BY <2>5, FS_CountingElements
  <1> QED
    BY <1>2, <1>3

\* The place with number i; the walk that has reached the tail stays there.
PlaceAt(n, c, i) == IF i <= n + 1 THEN c[i] ELSE tail

\* A walk from a place passes through the places that follow, and stays at the
\* tail.
LEMMA WalkOnChain ==
  ASSUME NEW l, NEW used, NEW n \in Nat, NEW c, IsChain(l, used, n, c),
         NEW j \in 0 .. n + 1
  PROVE  \A i \in Steps : Ahead(l, c[j])[i] = PlaceAt(n, c, i + j)
  <1> DEFINE w == Ahead(l, c[j])
             At(i) == PlaceAt(n, c, i + j)
             Wrong == {i \in Steps : w[i] # At(i)}
  <1>1. /\ \A i \in 0 .. n : l.m_next[c[i]] = c[i + 1]
        /\ c[n + 1] = tail /\ l.m_next[tail] = tail
        /\ c[j] \in used
    BY DEF IsChain
  <1>2. w[0] = c[j] /\ \A i \in Steps \ {0} : w[i] = l.m_next[w[i - 1]]
    <2>1. \A q \in used : l.m_next[q] \in used
      BY LinksStay
    <2> QED
      BY <1>1, <2>1, Walks
  <1>3. Steps \subseteq Nat /\ \A i \in Steps : i # 0 => i - 1 \in Steps
    BY StepsFacts DEF Steps
  <1> HIDE DEF w
  <1>4. ASSUME NEW i \in Steps, i # 0, w[i - 1] = At(i - 1)
        PROVE  w[i] = At(i)
    <2>1. w[i] = l.m_next[At(i - 1)] /\ i - 1 \in Nat /\ i \in Nat
      BY <1>2, <1>3, <1>4
    <2>2. CASE i + j <= n + 1
      <3>1. i - 1 + j \in 0 .. n /\ i - 1 + j + 1 = i + j /\ i - 1 + j <= n + 1
        BY <2>1, <2>2
      <3>2. At(i - 1) = c[i - 1 + j] /\ At(i) = c[i + j]
        BY <2>2, <3>1 DEF PlaceAt
      <3>3. l.m_next[c[i - 1 + j]] = c[i + j]
        BY <1>1, <3>1
      <3> QED
        BY <2>1, <3>2, <3>3
    <2>3. CASE ~ (i + j <= n + 1)
      <3>1. At(i) = tail
        BY <2>3 DEF PlaceAt
      <3>2. At(i - 1) = tail
        <4>1. CASE i - 1 + j <= n + 1
          <5>1. i - 1 + j = n + 1
            BY <2>1, <2>3, <4>1
          <5> QED
            BY <1>1, <4>1, <5>1 DEF PlaceAt
        <4>2. CASE ~ (i - 1 + j <= n + 1)
          BY <4>2 DEF PlaceAt
        <4> QED
          BY <4>1, <4>2
      <3> QED
        BY <1>1, <2>1, <3>1, <3>2
    <2> QED
      BY <2>2, <2>3
  <1>5. w[0] = At(0)
    BY <1>2 DEF PlaceAt
  <1> HIDE DEF At
  <1>6. Wrong = {}
    <2> SUFFICES ASSUME Wrong # {}
                 PROVE  FALSE
      OBVIOUS
    <2>1. Wrong \subseteq Nat
      BY <1>3
    <2>2. PICK m \in Wrong : \A i \in Wrong : m <= i
      <3> HIDE DEF Wrong
      <3> QED
        BY <2>1, LeastNumber
    <2>3. m # 0 /\ m \in Nat
      BY <1>5, <2>1
    <2>4. m - 1 \in Steps /\ ~ m <= m - 1
      BY <1>3, <2>3
    <2>5. w[m - 1] = At(m - 1)
      BY <2>2, <2>4
    <2> QED
      BY <1>4, <2>3, <2>5
  <1> QED
    BY <1>6 DEF w, At

\* A loop from the place with number j stops at the one with number m.
StopsAt(c, j, m, stops) == c[m] \in stops /\ \A h \in j .. m - 1 : c[h] \notin stops

\* The places it leaves behind.
Between(c, j, m) == [i \in 1 .. m - j |-> c[i + j - 1]]

\* A loop that can stop at the tail stops at a first place.
LEMMA LoopStops ==
  ASSUME NEW l, NEW used, NEW n \in Nat, NEW c, IsChain(l, used, n, c),
         NEW j \in 0 .. n + 1, NEW stops, tail \in stops
  PROVE  \E m \in j .. n + 1 : StopsAt(c, j, m, stops)
  <1> DEFINE M == {m \in j .. n + 1 : c[m] \in stops}
  <1>1. M \subseteq Nat /\ n + 1 \in M
    BY DEF IsChain
  <1>2. PICK m \in M : \A h \in M : m <= h
    <2> HIDE DEF M
    <2> QED
      BY <1>1, LeastNumber
  <1>3. ASSUME NEW h \in j .. m - 1
        PROVE  c[h] \notin stops
    <2>1. h \in j .. n + 1 /\ ~ m <= h
      OBVIOUS
    <2> QED
      BY <1>2, <2>1
  <1> QED
    BY <1>2, <1>3 DEF StopsAt

\* A loop from a place of the chain leaves the places before its stop behind.
LEMMA LoopOnChain ==
  ASSUME NEW l, NEW used, used \subseteq Places, NEW n \in Nat, NEW c,
         IsChain(l, used, n, c),
         NEW j \in 0 .. n + 1, NEW stops, NEW m \in j .. n + 1,
         StopsAt(c, j, m, stops)
  PROVE  /\ StepsTo(l, c[j], stops) = m - j
         /\ Stretch(l, c[j], stops) = Between(c, j, m)
  <1> DEFINE w == Ahead(l, c[j])
             M == {i \in Steps : w[i] \in stops}
  <1>1. \A i \in Steps : i + j <= n + 1 => w[i] = c[i + j]
    <2>1. \A i \in Steps : w[i] = PlaceAt(n, c, i + j)
      BY WalkOnChain
    <2> HIDE DEF w
    <2> QED
      BY <2>1 DEF PlaceAt
  <1>2. m - j \in Steps /\ \A i \in 0 .. m - j : i \in Steps
    BY ChainCounts, StepsFacts DEF Steps
  <1> HIDE DEF w
  <1>3. m - j \in M
    BY <1>1, <1>2 DEF StopsAt
  <1>4. ASSUME NEW i \in M
        PROVE  m - j <= i
    <2> SUFFICES ASSUME i < m - j
                 PROVE  FALSE
      BY StepsFacts
    <2>1. i \in Steps /\ i \in Nat /\ i + j <= n + 1 /\ i + j \in j .. m - 1
      BY StepsFacts
    <2> QED
      BY <1>1, <2>1 DEF StopsAt
  <1>5. Min(M) = m - j
    <2>1. M \subseteq Nat
      BY StepsFacts
    <2> HIDE DEF M
    <2>2. \A x \in M : (\A y \in M : x =< y) => x = m - j
      BY <1>3, <1>4, <2>1
    <2> QED
      BY <1>3, <1>4, <2>2 DEF Min
  <1>6. StepsTo(l, c[j], stops) = m - j
    BY <1>5 DEF StepsTo, w
  <1>7. ASSUME NEW i \in 1 .. m - j
        PROVE  w[i - 1] = c[i + j - 1]
    <2>1. i - 1 \in Steps /\ i - 1 + j <= n + 1 /\ i - 1 + j = i + j - 1
      BY <1>2
    <2> QED
      BY <1>1, <2>1
  <1>8. Stretch(l, c[j], stops) = [i \in 1 .. m - j |-> w[i - 1]]
    BY <1>6 DEF Stretch, w
  <1> QED
    BY <1>6, <1>7, <1>8 DEF Between
-----------------------------------------------------------------------------
(***************************************************************************)
(* The sort changes no link, and the items change places.                  *)
(***************************************************************************)
Orders(n) == Bijection(1 .. n, 1 .. n)

LEMMA OrderFacts ==
  ASSUME NEW n \in Nat, NEW f
  PROVE  f \in Orders(n) <=>
           /\ f \in [1 .. n -> 1 .. n]
           /\ \A i, j \in 1 .. n : f[i] = f[j] => i = j
           /\ \A j \in 1 .. n : \E i \in 1 .. n : f[i] = j
  BY DEF Orders, Bijection, Injection, IsInjective, Surjection

\* The list l with its items in other nodes.
Resorted(l, n, c) ==
  {k \in ListType :
     /\ k.m_next = l.m_next /\ k.m_prev = l.m_prev
     /\ \E f \in Orders(n) : \A i \in 1 .. n : k.m_data[c[i]] = l.m_data[c[f[i]]]}

\* No item is lost to the end, whose NULL ListItr_Set refuses.
LEMMA SwapResorts ==
  ASSUME NEW l \in ListType, NEW used, used \subseteq Places, NEW n \in Nat, NEW c,
         IsChain(l, used, n, c), \A i \in 1 .. n : l.m_data[c[i]] \in Items,
         NEW k \in Resorted(l, n, c), NEW i \in 1 .. n
  PROVE  SwapWithNext(k, c[i]) \in Resorted(l, n, c)
  <1>1. /\ k \in ListType /\ k.m_next = l.m_next /\ k.m_prev = l.m_prev
        /\ NULL \notin Items
    BY PointerAssumption DEF Resorted
  <1>2. PICK f \in Orders(n) : \A h \in 1 .. n : k.m_data[c[h]] = l.m_data[c[f[h]]]
    BY DEF Resorted
  <1>3. /\ f \in [1 .. n -> 1 .. n]
        /\ \A h, m \in 1 .. n : f[h] = f[m] => h = m
        /\ \A m \in 1 .. n : \E h \in 1 .. n : f[h] = m
    BY <1>2, OrderFacts
  <1>4. /\ \A h \in 0 .. n + 1 : c[h] \in Places
        /\ \A h, m \in 0 .. n + 1 : c[h] = c[m] => h = m
        /\ \A h \in 0 .. n : k.m_next[c[h]] = c[h + 1]
        /\ c[n + 1] = tail /\ k.m_next[tail] = tail
    BY <1>1 DEF IsChain
  <1> DEFINE p == c[i]
             q == c[i + 1]
  <1>5. i \in 0 .. n /\ i \in 0 .. n + 1 /\ i + 1 \in 0 .. n + 1 /\ i # i + 1
    OBVIOUS
  <1>6. p \in Places /\ q \in Places /\ p # q /\ k.m_next[p] = q
    BY <1>4, <1>5
  <1>7. k.m_data[p] \in Items
    BY <1>2, <1>3
  <1>8. ListItr_Get(k, p) = k.m_data[p] /\ ListItr_Next(k, p) = q
    BY <1>6 DEF ListItr_Get, ListItr_Next
  <1>9. /\ k = [m_next |-> k.m_next, m_prev |-> k.m_prev, m_data |-> k.m_data]
        /\ k.m_data \in [Places -> Items \cup {NULL}]
    BY <1>1 DEF ListType
  <1> HIDE DEF p, q
  <1>10. ASSUME NEW m \in ListType, NEW r \in Places, NEW x \in Items \cup {NULL}
         PROVE  /\ ListItr_Set(m, r, x) \in ListType
                /\ ListItr_Set(m, r, x).m_next = m.m_next
                /\ ListItr_Set(m, r, x).m_prev = m.m_prev
                /\ ListItr_Set(m, r, x).m_data
                     = IF x = NULL THEN m.m_data ELSE [m.m_data EXCEPT ![r] = x]
    BY DEF ListItr_Set, ListType
  <1> DEFINE x == ListItr_Get(k, q)
             first == ListItr_Set(k, p, x)
             both == ListItr_Set(first, q, k.m_data[p])
  <1>11. x \in Items \cup {NULL}
    BY <1>6, <1>9 DEF ListItr_Get
  <1>12. /\ first \in ListType /\ first.m_next = k.m_next /\ first.m_prev = k.m_prev
         /\ first.m_data = IF x = NULL THEN k.m_data ELSE [k.m_data EXCEPT ![p] = x]
    BY <1>1, <1>6, <1>10, <1>11
  <1>13. SwapWithNext(k, p) = both
    <2>1. ListItr_Next(first, p) = q
      BY <1>6, <1>12 DEF ListItr_Next
    <2> QED
      BY <1>8, <2>1 DEF SwapWithNext
  <1> HIDE DEF x, first
  <1>14. /\ both \in ListType /\ both.m_next = k.m_next /\ both.m_prev = k.m_prev
         /\ both.m_data = [first.m_data EXCEPT ![q] = k.m_data[p]]
    BY <1>1, <1>6, <1>7, <1>10, <1>12
  <1> HIDE DEF both
  <1>15. CASE i = n
    <2>1. q = tail
      BY <1>4, <1>15 DEF q
    <2>2. x = NULL
      BY <1>4, <2>1 DEF x, ListItr_Get
    <2>3. \A h \in 1 .. n : c[h] # q /\ c[h] \in Places
      <3> SUFFICES ASSUME NEW h \in 1 .. n
                   PROVE  c[h] # q /\ c[h] \in Places
        OBVIOUS
      <3>1. h \in 0 .. n + 1 /\ h # i + 1
        BY <1>15
      <3> QED
        BY <1>4, <1>5, <3>1 DEF q
    <2>4. \A h \in 1 .. n : both.m_data[c[h]] = k.m_data[c[h]]
      BY <1>9, <1>12, <1>14, <2>2, <2>3
    <2>5. \A h \in 1 .. n : both.m_data[c[h]] = l.m_data[c[f[h]]]
      BY <1>2, <2>4
    <2>6. both \in Resorted(l, n, c)
      BY <1>1, <1>2, <1>14, <2>5 DEF Resorted
    <2> QED
      BY <1>13, <2>6 DEF p
  <1>16. CASE i # n
    <2>1. i + 1 \in 1 .. n /\ i + 1 \in 0 .. n /\ i + 1 + 1 \in 0 .. n + 1 /\ i + 1 # i + 1 + 1
      BY <1>16
    <2>2. k.m_next[q] # q
      BY <1>4, <1>5, <2>1 DEF q
    <2>3. k.m_data[q] \in Items
      BY <1>2, <1>3, <2>1 DEF q
    <2>4. x = k.m_data[q] /\ x # NULL
      BY <1>1, <2>2, <2>3 DEF x, ListItr_Get
    <2>5. /\ both.m_data[p] = k.m_data[q] /\ both.m_data[q] = k.m_data[p]
          /\ \A r \in Places : r # p /\ r # q => both.m_data[r] = k.m_data[r]
      BY <1>6, <1>9, <1>12, <1>14, <2>4
    <2> DEFINE g == [h \in 1 .. n |->
                       IF h = i THEN f[i + 1] ELSE IF h = i + 1 THEN f[i] ELSE f[h]]
    <2>6. g \in Orders(n)
      <3>1. g \in [1 .. n -> 1 .. n]
        BY <1>3, <2>1
      <3>2. \A h, m \in 1 .. n : g[h] = g[m] => h = m
        BY <1>3, <2>1
      <3>3. \A m \in 1 .. n : \E h \in 1 .. n : g[h] = m
        <4> SUFFICES ASSUME NEW m \in 1 .. n
                     PROVE  \E h \in 1 .. n : g[h] = m
          OBVIOUS
        <4>1. PICK h \in 1 .. n : f[h] = m
          BY <1>3
        <4>2. CASE h = i
          <5>1. g[i + 1] = m
            BY <2>1, <4>1, <4>2
          <5> QED
            BY <2>1, <5>1
        <4>3. CASE h = i + 1
          <5>1. g[i] = m
            BY <4>1, <4>3
          <5> QED
            BY <5>1
        <4>4. CASE h # i /\ h # i + 1
          <5>1. g[h] = m
            BY <4>1, <4>4
          <5> QED
            BY <5>1
        <4> QED
          BY <4>2, <4>3, <4>4
      <3> HIDE DEF g
      <3> QED
        BY <3>1, <3>2, <3>3, OrderFacts
    <2>7. ASSUME NEW h \in 1 .. n
          PROVE  both.m_data[c[h]] = l.m_data[c[g[h]]]
      <3>1. CASE h = i
        <4>1. g[h] = f[i + 1]
          BY <3>1
        <4> QED
          BY <1>2, <2>1, <2>5, <3>1, <4>1 DEF p, q
      <3>2. CASE h = i + 1
        <4>1. g[h] = f[i]
          BY <3>2
        <4> QED
          BY <1>2, <2>5, <3>2, <4>1 DEF p, q
      <3>3. CASE h # i /\ h # i + 1
        <4>1. g[h] = f[h]
          BY <3>3
        <4>2. h \in 0 .. n + 1
          OBVIOUS
        <4>3. c[h] \in Places /\ c[h] # p /\ c[h] # q
          BY <1>4, <1>5, <3>3, <4>2 DEF p, q
        <4> QED
          BY <1>2, <2>5, <4>1, <4>3
      <3> QED
        BY <3>1, <3>2, <3>3
    <2> HIDE DEF g
    <2>8. both \in Resorted(l, n, c)
      BY <1>1, <1>14, <2>6, <2>7 DEF Resorted
    <2> QED
      BY <1>13, <2>8 DEF p
  <1> QED
    BY <1>15, <1>16

\* The whole pass.
LEMMA SortResorts ==
  ASSUME NEW l \in ListType, NEW used, used \subseteq Places, NEW n \in Nat, NEW c,
         IsChain(l, used, n, c), \A i \in 1 .. n : l.m_data[c[i]] \in Items,
         NEW end, NEW less
  PROVE  ListItr_Sort(l, c[1], end, less) \in Resorted(l, n, c)
  <1> DEFINE chain == Stretch(l, c[1], {tail})
             S == [l : Resorted(l, n, c), done : BOOLEAN]
             b == [l |-> l, done |-> FALSE]
             Pass(a) == a = [i \in 0 .. Len(chain) |->
                               IF i = 0 THEN b ELSE SortStep(a[i - 1], chain[i], end, less)]
             step == [i \in 1 .. n |-> [acc \in S |-> SortStep(acc, c[i], end, less)]]
  <1>1. chain = [i \in 1 .. n |-> c[i]]
    <2>1. StopsAt(c, 1, n + 1, {tail})
      BY DEF IsChain, StopsAt
    <2>2. 1 \in 0 .. n + 1 /\ n + 1 \in 1 .. n + 1
      OBVIOUS
    <2>3. chain = Between(c, 1, n + 1)
      BY <2>1, <2>2, LoopOnChain
    <2> HIDE DEF chain
    <2>4. n + 1 - 1 = n /\ \A i \in 1 .. n : i + 1 - 1 = i
      OBVIOUS
    <2> QED
      BY <2>3, <2>4 DEF Between
  <1>2. Len(chain) = n
    <2> HIDE DEF chain
    <2> QED
      BY <1>1
  <1>3. b \in S
    <2> DEFINE id == [i \in 1 .. n |-> i]
    <2>1. id \in Orders(n)
      BY OrderFacts
    <2>2. \A i \in 1 .. n : l.m_data[c[i]] = l.m_data[c[id[i]]]
      OBVIOUS
    <2>3. l \in Resorted(l, n, c)
      BY <2>1, <2>2 DEF Resorted
    <2> QED
      BY <2>3
  <1>4. ASSUME NEW acc \in S, NEW i \in 1 .. n
        PROVE  SortStep(acc, c[i], end, less) \in S
    <2>1. acc.l \in Resorted(l, n, c) /\ acc.done \in BOOLEAN
      OBVIOUS
    <2>2. SwapWithNext(acc.l, c[i]) \in Resorted(l, n, c)
      BY <2>1, SwapResorts
    <2>3. /\ [acc EXCEPT !.done = TRUE] \in S
          /\ [acc EXCEPT !.l = SwapWithNext(acc.l, c[i])] \in S
      BY <2>1, <2>2
    <2> HIDE DEF S
    <2> QED
      BY <2>3 DEF SortStep
  <1>5. step \in [1 .. n -> [S -> S]]
    BY <1>4
  <1> HIDE DEF b, S, chain
  <1>6. PICK f : AreResults(f, S, b, n, step)
    <2> HIDE DEF step
    <2> QED
      BY <1>3, <1>5, LoopResults
  <1>7. Pass(f)
    <2>1. ASSUME NEW i \in 0 .. n
          PROVE  f[i] = IF i = 0 THEN b ELSE SortStep(f[i - 1], chain[i], end, less)
      <3>1. CASE i = 0
        BY <1>6, <3>1 DEF AreResults
      <3>2. CASE i # 0
        <4>1. i \in 1 .. n /\ i - 1 \in 0 .. n
          BY <3>2
        <4>2. f[i] = step[i][f[i - 1]] /\ f[i - 1] \in S /\ chain[i] = c[i]
          BY <1>1, <1>6, <4>1 DEF AreResults
        <4> QED
          BY <3>2, <4>1, <4>2
      <3> QED
        BY <3>1, <3>2
    <2>2. f = [i \in 0 .. n |-> f[i]]
      BY <1>6 DEF AreResults
    <2> QED
      BY <1>2, <2>1, <2>2
  <1> DEFINE a == CHOOSE h : Pass(h)
  <1>8. Pass(a)
    <2> HIDE DEF Pass
    <2> QED
      BY <1>7
  <1>9. ListItr_Sort(l, c[1], end, less) = a[n].l
    BY <1>2 DEF ListItr_Sort, chain, b
  <1> HIDE DEF a
  <1>10. a[0] = b /\ \A i \in 1 .. n : a[i] = SortStep(a[i - 1], c[i], end, less)
    <2>1. a = [i \in 0 .. n |->
                 IF i = 0 THEN b ELSE SortStep(a[i - 1], chain[i], end, less)]
      BY <1>2, <1>8
    <2>2. a[0] = b
      BY <2>1
    <2>3. ASSUME NEW i \in 1 .. n
          PROVE  a[i] = SortStep(a[i - 1], c[i], end, less)
      <3>1. i \in 0 .. n /\ i # 0 /\ chain[i] = c[i]
        BY <1>1
      <3> QED
        BY <2>1, <3>1
    <2> QED
      BY <2>2, <2>3
  <1>11. \A i \in 0 .. n : a[i] \in S
    <2>1. a[0] \in S
      BY <1>3, <1>10
    <2>2. \A i \in 1 .. n : a[i - 1] \in S => a[i] \in S
      BY <1>4, <1>10
    <2> QED
      BY <2>1, <2>2, LoopKeeps
  <1>12. a[n] \in S
    BY <1>11
  <1> QED
    BY <1>9, <1>12 DEF S
-----------------------------------------------------------------------------
(***************************************************************************)
(* A splice is a sequence of moves, each of them Unlink and Link.          *)
(***************************************************************************)

\* The list l with its nodes linked in another order.
Relinked(l, used, n) ==
  {k \in ListType : k.m_data = l.m_data /\ \E d : IsChain(k, used, n, d)}

\* The node comes before its new neighbour, with its item.
LEMMA MoveRelinks ==
  ASSUME NEW l \in ListType, NEW used, used \subseteq Places, NEW n \in Nat, NEW c,
         IsChain(l, used, n, c),
         NEW p \in used \ {head, tail}, NEW dest \in used \ {head, p}
  PROVE  MoveBefore(l, dest, p) \in Relinked(l, used, n)
  <1>1. /\ \A i \in 0 .. n + 1 : c[i] \in used
        /\ \A q \in used : \E i \in 0 .. n + 1 : c[i] = q
        /\ c[0] = head /\ c[n + 1] = tail
    BY DEF IsChain
  <1>2. PICK a \in 0 .. n + 1 : c[a] = p
    BY <1>1
  <1>3. a # 0 /\ a # n + 1
    BY <1>1, <1>2
  <1>4. a \in 1 .. n
    BY <1>3
  <1> DEFINE without == Unlink(l, p)
             rest == used \ {p}
             d == ChainWithout(c, n, a)
  <1>5. n - 1 \in Nat /\ n - 1 + 1 = n
    BY <1>4
  <1>6. IsChain(without, rest, n - 1, d)
    BY <1>2, <1>4, UnlinkKeepsChain
  <1>7. /\ without \in ListType /\ without.m_data = [l.m_data EXCEPT ![p] = NULL]
    BY DEF Unlink, ListType
  <1> HIDE DEF d, without
  <1>8. /\ \A i \in 0 .. n : d[i] \in rest
        /\ \A q \in rest : \E i \in 0 .. n : d[i] = q
        /\ d[0] = head
        /\ \A i \in 0 .. n - 1 : without.m_prev[d[i + 1]] = d[i]
    BY <1>5, <1>6 DEF IsChain
  <1>9. PICK b \in 0 .. n : d[b] = dest
    BY <1>8
  <1>10. b # 0
    BY <1>8, <1>9
  <1> DEFINE j == b - 1
  <1>11. j \in 0 .. n - 1 /\ j + 1 = b
    BY <1>10
  <1> HIDE DEF j
  <1>12. dest = d[j + 1] /\ without.m_prev[dest] = d[j]
    BY <1>8, <1>9, <1>11
  <1> DEFINE k == Link(without, d[j], p, d[j + 1], l.m_data[p])
  <1>13. MoveBefore(l, dest, p) = k
    BY <1>12 DEF MoveBefore, without
  <1>14. rest \subseteq Places /\ p \in Places \ rest /\ rest \cup {p} = used
    OBVIOUS
  <1>15. \E e : IsChain(k, used, n, e)
    <2>1. IsChain(k, rest \cup {p}, n - 1 + 1, ChainWith(d, n - 1, j, p))
      <3> HIDE DEF k, rest
      <3>1. k = Link(without, d[j], p, d[j + 1], l.m_data[p])
        BY DEF k
      <3> QED
        BY <1>5, <1>6, <1>7, <1>11, <1>14, <3>1, LinkKeepsChain
    <2> HIDE DEF k
    <2> QED
      BY <1>5, <1>14, <2>1
  <1>16. k \in ListType /\ k.m_data = l.m_data
    <2>1. /\ k.m_next = [without.m_next EXCEPT ![d[j]] = p, ![p] = d[j + 1]]
          /\ k.m_prev = [without.m_prev EXCEPT ![p] = d[j], ![d[j + 1]] = p]
          /\ k.m_data = [without.m_data EXCEPT ![p] = l.m_data[p]]
          /\ k = [m_next |-> k.m_next, m_prev |-> k.m_prev, m_data |-> k.m_data]
      BY DEF Link
    <2>2. d[j] \in Places /\ d[j + 1] \in Places /\ p \in Places
      BY <1>8, <1>11
    <2> HIDE DEF k
    <2>3. k.m_data = l.m_data
      BY <1>7, <2>1 DEF ListType
    <2>4. /\ k.m_next \in [Places -> Places \cup {NULL}]
          /\ k.m_prev \in [Places -> Places \cup {NULL}]
      BY <1>7, <2>1, <2>2 DEF ListType
    <2> QED
      BY <2>1, <2>3, <2>4 DEF ListType
  <1> QED
    BY <1>13, <1>15, <1>16 DEF Relinked

\* The whole range.
LEMMA SpliceRelinks ==
  ASSUME NEW l \in ListType, NEW used, used \subseteq Places, NEW n \in Nat, NEW c,
         IsChain(l, used, n, c),
         NEW dest \in used \ {head}, NEW begin, NEW end, NEW m \in Nat,
         NEW range \in [1 .. m -> used \ {head, tail, dest}],
         Visited(l, begin, end) = range
  PROVE  ListItr_Splice(l, dest, begin, end) \in Relinked(l, used, n)
  <1> DEFINE S == Relinked(l, used, n)
             Moves(a) == a = [i \in 0 .. Len(range) |->
                                IF i = 0 THEN l ELSE MoveBefore(a[i - 1], dest, range[i])]
             step == [i \in 1 .. m |-> [k \in S |-> MoveBefore(k, dest, range[i])]]
  <1>1. Len(range) = m
    OBVIOUS
  <1>2. l \in S
    BY DEF Relinked
  <1>3. ASSUME NEW k \in S, NEW i \in 1 .. m
        PROVE  MoveBefore(k, dest, range[i]) \in S
    <2>1. k \in ListType /\ k.m_data = l.m_data
      BY DEF Relinked
    <2>2. PICK d : IsChain(k, used, n, d)
      BY DEF Relinked
    <2>3. range[i] \in used \ {head, tail} /\ dest \in used \ {head, range[i]}
      OBVIOUS
    <2>4. MoveBefore(k, dest, range[i]) \in Relinked(k, used, n)
      BY <2>1, <2>2, <2>3, MoveRelinks
    <2> QED
      BY <2>1, <2>4 DEF Relinked
  <1>4. step \in [1 .. m -> [S -> S]]
    BY <1>3
  <1> HIDE DEF S
  <1>5. PICK f : AreResults(f, S, l, m, step)
    <2> HIDE DEF step
    <2> QED
      BY <1>2, <1>4, LoopResults
  <1>6. Moves(f)
    <2>1. ASSUME NEW i \in 0 .. m
          PROVE  f[i] = IF i = 0 THEN l ELSE MoveBefore(f[i - 1], dest, range[i])
      <3>1. CASE i = 0
        BY <1>5, <3>1 DEF AreResults
      <3>2. CASE i # 0
        <4>1. i \in 1 .. m /\ i - 1 \in 0 .. m
          BY <3>2
        <4>2. f[i] = step[i][f[i - 1]] /\ f[i - 1] \in S
          BY <1>5, <4>1 DEF AreResults
        <4> QED
          BY <3>2, <4>1, <4>2
      <3> QED
        BY <3>1, <3>2
    <2>2. f = [i \in 0 .. m |-> f[i]]
      BY <1>5 DEF AreResults
    <2> QED
      BY <1>1, <2>1, <2>2
  <1> DEFINE a == CHOOSE h : Moves(h)
  <1>7. Moves(a)
    <2> HIDE DEF Moves
    <2> QED
      BY <1>6
  <1>8. ListItr_Splice(l, dest, begin, end) = a[m]
    BY <1>1 DEF ListItr_Splice
  <1> HIDE DEF a
  <1>9. a[0] = l /\ \A i \in 1 .. m : a[i] = MoveBefore(a[i - 1], dest, range[i])
    <2>1. a = [i \in 0 .. m |-> IF i = 0 THEN l ELSE MoveBefore(a[i - 1], dest, range[i])]
      BY <1>1, <1>7
    <2>2. a[0] = l
      BY <2>1
    <2>3. ASSUME NEW i \in 1 .. m
          PROVE  a[i] = MoveBefore(a[i - 1], dest, range[i])
      <3>1. i \in 0 .. m /\ i # 0
        OBVIOUS
      <3> QED
        BY <2>1, <3>1
    <2> QED
      BY <2>2, <2>3
  <1>10. \A i \in 0 .. m : a[i] \in S
    <2>1. a[0] \in S
      BY <1>2, <1>9
    <2>2. \A i \in 1 .. m : a[i - 1] \in S => a[i] \in S
      BY <1>3, <1>9
    <2> QED
      BY <2>1, <2>2, LoopKeeps
  <1> QED
    BY <1>8, <1>10 DEF S
-----------------------------------------------------------------------------
(***************************************************************************)
(* The list's nodes, and what its size and order read.                     *)
(***************************************************************************)
LEMMA ChainNodes ==
  ASSUME NEW l, NEW used, NEW n \in Nat, NEW c, IsChain(l, used, n, c)
  PROVE  /\ l.m_next[head] = c[1] /\ l.m_prev[tail] = c[n]
         /\ c[1] = tail <=> n = 0
         /\ \A i \in 1 .. n : c[i] \in used \ {head, tail}
         /\ \A p \in used \ {head, tail} : \E i \in 1 .. n : c[i] = p
  <1>1. /\ 0 \in 0 .. n /\ n \in 0 .. n /\ 0 + 1 = 1
        /\ 0 \in 0 .. n + 1 /\ 1 \in 0 .. n + 1 /\ n + 1 \in 0 .. n + 1
    OBVIOUS
  <1>2. l.m_next[head] = c[1] /\ l.m_prev[tail] = c[n]
    BY <1>1 DEF IsChain
  <1>3. c[1] = tail <=> n = 0
    BY <1>1 DEF IsChain
  <1>4. ASSUME NEW i \in 1 .. n
        PROVE  c[i] \in used \ {head, tail}
    <2>1. i \in 0 .. n + 1 /\ i # 0 /\ i # n + 1
      OBVIOUS
    <2> QED
      BY <1>1, <2>1 DEF IsChain
  <1>5. ASSUME NEW p \in used \ {head, tail}
        PROVE  \E i \in 1 .. n : c[i] = p
    <2>1. PICK i \in 0 .. n + 1 : c[i] = p
      BY DEF IsChain
    <2>2. i # 0 /\ i # n + 1
      BY <2>1 DEF IsChain
    <2>3. i \in 1 .. n
      BY <2>2
    <2> QED
      BY <2>1, <2>3
  <1> QED
    BY <1>2, <1>3, <1>4, <1>5

\* The nodes in their order, and their items.
NodesOf(c, n) == [i \in 1 .. n |-> c[i]]
ItemsOf(l, c, n) == [i \in 1 .. n |-> l.m_data[c[i]]]

\* The numbering counts the links from the head's place.
LinksTo(l, p) == StepsTo(l, head, {p})
CountsLinks(l, n, c) == \A h \in 0 .. n + 1 : LinksTo(l, c[h]) = h

LEMMA LinksOnChain ==
  ASSUME NEW l, NEW used, used \subseteq Places, NEW n \in Nat, NEW c,
         IsChain(l, used, n, c)
  PROVE  CountsLinks(l, n, c)
  <1>1. c[0] = head /\ 0 \in 0 .. n + 1
    BY DEF IsChain
  <1>2. ASSUME NEW h \in 0 .. n + 1
        PROVE  LinksTo(l, c[h]) = h
    <2>1. StopsAt(c, 0, h, {c[h]})
      <3>1. ASSUME NEW i \in 0 .. h - 1
            PROVE  c[i] # c[h]
        <4>1. i \in 0 .. n + 1 /\ i # h
          OBVIOUS
        <4> QED
          BY <4>1 DEF IsChain
      <3> QED
        BY <3>1 DEF StopsAt
    <2>2. h - 0 = h
      OBVIOUS
    <2> QED
      BY <1>1, <2>1, <2>2, LoopOnChain DEF LinksTo
  <1> QED
    BY <1>2 DEF CountsLinks

LEMMA ReadsOnChain ==
  ASSUME NEW l, NEW used, used \subseteq Places, NEW n \in Nat, NEW c,
         IsChain(l, used, n, c)
  PROVE  /\ List_Size(l) = n
         /\ InOrder(l) = NodesOf(c, n)
         /\ Contents(l) = ItemsOf(l, c, n)
  <1>1. c[0] = head /\ 0 \in 0 .. n + 1 /\ n + 1 \in 0 .. n + 1
    BY DEF IsChain
  <1>2. List_Size(l) = n
    <2>1. c[n + 1] = tail /\ n + 1 \in 0 .. n + 1
      BY DEF IsChain
    <2>2. CountsLinks(l, n, c)
      BY LinksOnChain
    <2>3. LinksTo(l, tail) = n + 1
      BY <2>1, <2>2 DEF CountsLinks
    <2> QED
      BY <2>3 DEF LinksTo, List_Size
  <1>3. ASSUME NEW i \in 1 .. n
        PROVE  Ahead(l, head)[i] = c[i]
    <2>1. i \in Steps
      BY ChainCounts, StepsFacts DEF Steps
    <2>2. Ahead(l, c[0])[i] = PlaceAt(n, c, i + 0)
      BY <1>1, <2>1, WalkOnChain
    <2>3. i + 0 = i /\ i <= n + 1
      OBVIOUS
    <2> QED
      BY <1>1, <2>2, <2>3 DEF PlaceAt
  <1> QED
    BY <1>2, <1>3 DEF InOrder, Contents, NodesOf, ItemsOf

\* The places at which ListItr_Equals ends a loop to e.
EndsLoop(l, e) == {p \in Places : ListItr_Equals(l, p, e)}

\* The loop from c[j] that is to end at c[e] ends at c[m].
LoopEnds(l, c, j, e, m) ==
  /\ StopsAt(c, j, m, EndsLoop(l, c[e]))
  /\ Visited(l, c[j], c[e]) = Between(c, j, m)

\* A loop ends at the place it was given or before it.
LEMMA VisitedOnChain ==
  ASSUME NEW l \in ListType, NEW used, used \subseteq Places, NEW n \in Nat, NEW c,
         IsChain(l, used, n, c),
         NEW j \in 0 .. n + 1, NEW e \in j .. n + 1
  PROVE  \E m \in j .. e : LoopEnds(l, c, j, e, m)
  <1> DEFINE stops == EndsLoop(l, c[e])
             M == {m \in j .. e : c[m] \in stops}
  <1>1. \A i \in 0 .. n + 1 : c[i] \in Places
    BY DEF IsChain
  <1>2. e \in M /\ M \subseteq Nat
    BY <1>1 DEF EndsLoop, ListItr_Equals
  <1>3. PICK m \in M : \A h \in M : m <= h
    <2> HIDE DEF M
    <2> QED
      BY <1>2, LeastNumber
  <1>4. StopsAt(c, j, m, stops)
    <2>1. ASSUME NEW h \in j .. m - 1
          PROVE  c[h] \notin stops
      <3>1. h \in j .. e /\ ~ m <= h
        OBVIOUS
      <3> QED
        BY <1>3, <3>1
    <2> HIDE DEF stops
    <2> QED
      BY <1>3, <2>1 DEF StopsAt
  <1>5. m \in j .. n + 1
    OBVIOUS
  <1>6. Stretch(l, c[j], stops) = Between(c, j, m)
    <2> HIDE DEF stops, M
    <2> QED
      BY <1>4, <1>5, LoopOnChain
  <1>7. LoopEnds(l, c, j, e, m)
    BY <1>4, <1>6 DEF LoopEnds, Visited, EndsLoop
  <1>8. m \in j .. e
    BY <1>3
  <1> QED
    BY <1>7, <1>8

-----------------------------------------------------------------------------
(***************************************************************************)
(* The invariant.                                                          *)
(***************************************************************************)

\* The blocks that are not free make up one list (list.h).
Linked == \E n \in Nat : \E c : IsChain(list, Places \ free, n, c)

\* Its nodes hold items: List_PushHead, List_PushTail, ListItr_InsertBefore and
\* ListItr_Set refuse NULL.
NodesFull == \A p \in Nodes \ free : list.m_data[p] \in Items

ListOK ==
  /\ list \in ListType /\ free \subseteq Nodes
  /\ Linked /\ NodesFull

IInv == TypeOK /\ Linked /\ NodesFull

LEMMA InvParts ==
  IInv <=> /\ ListOK
           /\ itr \in (Places \cup {NULL}) \ free
           /\ reply \in Items \cup {NULL, "LIST_SUCCESS", "LIST_IS_EMPTY",
                                    "LIST_ALLOCATION_ERROR"}
           /\ count \in 0 .. Cardinality(Nodes)
           /\ status \in {"live", "destroyed", "crashed"}
  BY DEF IInv, TypeOK, ListOK, ListType

\* A list that was just created has its two sentinels and no node.
LEMMA CreatedIsLinked ==
  ASSUME NEW atHead \in Items \cup {NULL}, NEW atTail \in Items \cup {NULL},
         NEW l, l = List_Create(atHead, atTail)
  PROVE  /\ l \in ListType
         /\ IsChain(l, Places \ Nodes, 0, [i \in 0 .. 1 |-> IF i = 0 THEN head ELSE tail])
  <1>1. /\ head \in Places /\ tail \in Places /\ head # tail
        /\ Places \ Nodes = {head, tail}
    BY PointerAssumption DEF Places
  <1>2. l \in ListType
    BY <1>1 DEF List_Create, ListType
  <1>3. /\ l.m_next[head] = tail /\ l.m_next[tail] = tail
        /\ l.m_prev[tail] = head /\ l.m_prev[head] = NULL
    BY <1>1 DEF List_Create
  <1> DEFINE c == [i \in 0 .. 1 |-> IF i = 0 THEN head ELSE tail]
  <1>4. /\ c \in [0 .. 0 + 1 -> Places \ Nodes] /\ c[0] = head /\ c[1] = tail
        /\ 0 + 1 = 1 /\ \A i \in 0 .. 1 : i = 0 \/ i = 1
    BY <1>1
  <1> HIDE DEF c
  <1>5. IsChain(l, Places \ Nodes, 0, c)
    BY <1>1, <1>3, <1>4 DEF IsChain
  <1> QED
    BY <1>2, <1>5 DEF c

LEMMA InitIInv ==
  Init => IInv
  <1> SUFFICES ASSUME Init
               PROVE  IInv
    OBVIOUS
  <1>1. PICK atHead, atTail \in Leftover : list = List_Create(atHead, atTail)
    BY DEF Init
  <1>2. atHead \in Items \cup {NULL} /\ atTail \in Items \cup {NULL}
    BY LeftoverAssumption
  <1>3. free = Nodes /\ itr = NULL /\ reply = NULL /\ count = 0 /\ status = "live"
    BY DEF Init
  <1>4. list \in ListType /\ Linked
    BY <1>1, <1>2, <1>3, CreatedIsLinked DEF Linked
  <1>5. NULL \notin Nodes /\ Cardinality(Nodes) \in Nat
    BY PointerAssumption, StepsFacts
  <1> QED
    BY <1>3, <1>4, <1>5, InvParts DEF ListOK, NodesFull
-----------------------------------------------------------------------------
(***************************************************************************)
(* What the calls do to the list.                                          *)
(***************************************************************************)
LEMMA PlacesInUse ==
  ASSUME ListOK
  PROVE  /\ Places \ free \subseteq Places
         /\ head \in Places \ free /\ tail \in Places \ free
         /\ (Places \ free) \ {head, tail} = Nodes \ free
         /\ NULL \notin Places /\ NULL \notin Items
  BY PointerAssumption DEF Places, ListOK

\* A new node (List_PushHead, List_PushTail, ListItr_InsertBefore).
LEMMA InsertKeeps ==
  ASSUME ListOK, NEW n \in Nat, NEW c, IsChain(list, Places \ free, n, c),
         NEW j \in 0 .. n, NEW p \in free, NEW x \in Items,
         Insert(x, c[j], c[j + 1], p)
  PROVE  /\ ListOK' /\ IsChain(list', Places \ free', n + 1, ChainWith(c, n, j, p))
         /\ free' = free \ {p}
         /\ list'.m_data = [list.m_data EXCEPT ![p] = x]
  <1> DEFINE used == Places \ free
  <1>1. /\ list' = Link(list, c[j], p, c[j + 1], x) /\ free' = free \ {p}
        /\ list \in ListType /\ used \subseteq Places /\ free \subseteq Nodes
        /\ p \in Places \ used /\ Places \ free' = used \cup {p}
    BY PlacesInUse DEF Insert, ListOK, Places
  <1>2. j \in 0 .. n + 1 /\ j + 1 \in 0 .. n + 1
    OBVIOUS
  <1>3. c[j] \in Places /\ c[j + 1] \in Places
    BY <1>2 DEF IsChain
  <1>4. IsChain(list', used \cup {p}, n + 1, ChainWith(c, n, j, p))
    <2> HIDE DEF used
    <2>1. IsChain(list, used, n, c)
      BY DEF used
    <2> QED
      BY <1>1, <2>1, LinkKeepsChain
  <1>5. list' \in ListType /\ list'.m_data = [list.m_data EXCEPT ![p] = x]
    BY <1>1, <1>3 DEF Link, ListType
  <1>6. NodesFull'
    BY <1>1, <1>5 DEF NodesFull, ListOK, ListType
  <1>7. n + 1 \in Nat
    OBVIOUS
  <1>8. Linked'
    BY <1>1, <1>4, <1>7 DEF Linked
  <1> QED
    BY <1>1, <1>4, <1>5, <1>6, <1>8 DEF ListOK

\* A freed node (List_PopHead, List_PopTail, ListItr_Remove).
LEMMA FreeKeeps ==
  ASSUME ListOK, NEW n \in Nat, NEW c, IsChain(list, Places \ free, n, c),
         NEW a \in 1 .. n, Free(c[a])
  PROVE  /\ ListOK' /\ IsChain(list', Places \ free', n - 1, ChainWithout(c, n, a))
         /\ free' = free \cup {c[a]}
         /\ list'.m_data = [list.m_data EXCEPT ![c[a]] = NULL]
  <1> DEFINE used == Places \ free
  <1>1. c[a] \in Nodes \ free
    BY ChainNodes, PlacesInUse
  <1>2. /\ list' = Unlink(list, c[a]) /\ free' = free \cup {c[a]}
        /\ list \in ListType /\ used \subseteq Places /\ free \subseteq Nodes
        /\ Places \ free' = used \ {c[a]}
    BY PlacesInUse DEF Free, ListOK, Places
  <1>3. IsChain(list', used \ {c[a]}, n - 1, ChainWithout(c, n, a))
    <2> HIDE DEF used
    <2>1. IsChain(list, used, n, c)
      BY DEF used
    <2> QED
      BY <1>2, <2>1, UnlinkKeepsChain
  <1>4. /\ list.m_next[c[a]] \in Places /\ list.m_prev[c[a]] \in Places
    <2>1. c[a] \in used \ {head}
      BY <1>1, ChainNodes, PlacesInUse
    <2>2. list.m_next[c[a]] \in used /\ list.m_prev[c[a]] \in used
      <3> HIDE DEF used
      <3>1. IsChain(list, used, n, c)
        BY DEF used
      <3> QED
        BY <2>1, <3>1, LinksStay
    <2> QED
      BY <2>2
  <1>5. list' \in ListType /\ list'.m_data = [list.m_data EXCEPT ![c[a]] = NULL]
    BY <1>2, <1>4 DEF Unlink, ListType
  <1>6. NodesFull'
    BY <1>1, <1>2, <1>5 DEF NodesFull, ListOK, ListType
  <1>7. n - 1 \in Nat
    OBVIOUS
  <1>8. Linked'
    BY <1>2, <1>3, <1>7 DEF Linked
  <1>9. free' \subseteq Nodes
    BY <1>1, <1>2
  <1> QED
    BY <1>2, <1>3, <1>5, <1>6, <1>8, <1>9 DEF ListOK

\* A sort moves items among the nodes.
LEMMA SortKeeps ==
  ASSUME ListOK, NEW n \in Nat, NEW c, IsChain(list, Places \ free, n, c),
         NEW end, NEW less,
         list' = ListItr_Sort(list, ListItr_Begin(list), end, less), free' = free
  PROVE  /\ ListOK' /\ IsChain(list', Places \ free', n, c)
         /\ list' \in Resorted(list, n, c)
  <1> DEFINE used == Places \ free
  <1>1. /\ list \in ListType /\ used \subseteq Places
        /\ ListItr_Begin(list) = c[1] /\ \A i \in 1 .. n : c[i] \in Nodes \ free
        /\ \A p \in Nodes \ free : \E i \in 1 .. n : c[i] = p
    <2>1. /\ (Places \ free) \ {head, tail} = Nodes \ free /\ used \subseteq Places
          /\ list \in ListType
      BY PlacesInUse DEF ListOK
    <2>2. /\ list.m_next[head] = c[1]
          /\ \A i \in 1 .. n : c[i] \in (Places \ free) \ {head, tail}
          /\ \A p \in (Places \ free) \ {head, tail} : \E i \in 1 .. n : c[i] = p
      BY ChainNodes
    <2> QED
      BY <2>1, <2>2 DEF ListItr_Begin
  <1>2. \A i \in 1 .. n : list.m_data[c[i]] \in Items
    BY <1>1 DEF ListOK, NodesFull
  <1>3. list' \in Resorted(list, n, c)
    <2> HIDE DEF used
    <2>1. IsChain(list, used, n, c)
      BY DEF used
    <2>2. list \in ListType /\ used \subseteq Places
      BY <1>1
    <2>3. ListItr_Sort(list, c[1], end, less) \in Resorted(list, n, c)
      BY <1>2, <2>1, <2>2, SortResorts
    <2> QED
      BY <1>1, <2>3
  <1>4. PICK f \in Orders(n) : \A i \in 1 .. n : list'.m_data[c[i]] = list.m_data[c[f[i]]]
    BY <1>3 DEF Resorted
  <1>5. f \in [1 .. n -> 1 .. n]
    BY OrderFacts
  <1>6. NodesFull'
    <2> SUFFICES ASSUME NEW p \in Nodes \ free
                 PROVE  list'.m_data[p] \in Items
      BY DEF NodesFull
    <2>1. PICK i \in 1 .. n : c[i] = p
      BY <1>1
    <2>2. f[i] \in 1 .. n
      BY <1>5
    <2> QED
      BY <1>2, <1>4, <2>1, <2>2
  <1>7. list' \in ListType /\ list'.m_next = list.m_next /\ list'.m_prev = list.m_prev
    BY <1>3 DEF Resorted
  <1>8. IsChain(list', Places \ free', n, c)
    BY <1>7, SameLinks
  <1>9. Linked'
    BY <1>8 DEF Linked
  <1> QED
    BY <1>3, <1>6, <1>7, <1>8, <1>9 DEF ListOK

\* A splice links the nodes in another order.
LEMMA SpliceKeeps ==
  ASSUME ListOK, NEW n \in Nat, NEW c, IsChain(list, Places \ free, n, c),
         NEW a \in 2 .. n, itr = c[a], free' = free,
         \/ list' = ListItr_Splice(list, ListItr_End(list), ListItr_Begin(list), itr)
         \/ list' = ListItr_Splice(list, ListItr_Begin(list), itr, ListItr_End(list))
  PROVE  ListOK' /\ list' \in Relinked(list, Places \ free, n)
  <1> DEFINE used == Places \ free
  <1>1. /\ list \in ListType /\ used \subseteq Places
        /\ ListItr_Begin(list) = c[1] /\ ListItr_End(list) = tail /\ c[n + 1] = tail
        /\ \A i \in 0 .. n + 1 : c[i] \in used
        /\ \A i, h \in 0 .. n + 1 : c[i] = c[h] => i = h
        /\ \A i \in 1 .. n : c[i] \in used \ {head, tail}
    BY ChainNodes, PlacesInUse DEF ListOK, ListItr_Begin, ListItr_End, IsChain
  <1>2. 1 \in 0 .. n + 1 /\ a \in 1 .. n + 1 /\ a \in 0 .. n + 1 /\ n + 1 \in a .. n + 1
        /\ 1 \in 1 .. n /\ n + 1 \in 0 .. n + 1
    OBVIOUS
  <1>3. IsChain(list, used, n, c)
    OBVIOUS
  <1> HIDE DEF used
  <1>4. list' \in Relinked(list, used, n)
    <2>1. CASE list' = ListItr_Splice(list, ListItr_End(list), ListItr_Begin(list), itr)
      <3>0. PICK m \in 1 .. a : LoopEnds(list, c, 1, a, m)
        BY <1>1, <1>2, <1>3, VisitedOnChain
      <3>1. Visited(list, c[1], c[a]) = Between(c, 1, m)
        BY <3>0 DEF LoopEnds
      <3> DEFINE range == Between(c, 1, m)
      <3>2. m - 1 \in Nat
        OBVIOUS
      <3>3. range \in [1 .. m - 1 -> used \ {head, tail, tail}]
        <4>1. ASSUME NEW i \in 1 .. m - 1
              PROVE  c[i + 1 - 1] \in used \ {head, tail, tail}
          <5>1. i + 1 - 1 \in 1 .. n
            OBVIOUS
          <5> QED
            BY <1>1, <5>1
        <4> QED
          BY <4>1 DEF Between
      <3>4. tail \in used \ {head}
        BY <1>1, <1>2, PointerAssumption
      <3> HIDE DEF range
      <3>5. Visited(list, c[1], c[a]) = range
        BY <3>1 DEF range
      <3>6. ListItr_Splice(list, tail, c[1], c[a]) \in Relinked(list, used, n)
        BY <1>1, <1>3, <3>2, <3>3, <3>4, <3>5, SpliceRelinks
      <3> QED
        BY <1>1, <2>1, <3>6
    <2>2. CASE list' = ListItr_Splice(list, ListItr_Begin(list), itr, ListItr_End(list))
      <3>0. PICK m \in a .. n + 1 : LoopEnds(list, c, a, n + 1, m)
        BY <1>1, <1>2, <1>3, VisitedOnChain
      <3>1. Visited(list, c[a], c[n + 1]) = Between(c, a, m)
        BY <3>0 DEF LoopEnds
      <3> DEFINE range == Between(c, a, m)
      <3>2. m - a \in Nat
        OBVIOUS
      <3>3. range \in [1 .. m - a -> used \ {head, tail, c[1]}]
        <4>1. ASSUME NEW i \in 1 .. m - a
              PROVE  c[i + a - 1] \in used \ {head, tail, c[1]}
          <5>1. i + a - 1 \in 1 .. n /\ i + a - 1 \in 0 .. n + 1 /\ i + a - 1 # 1
            OBVIOUS
          <5> QED
            BY <1>1, <1>2, <5>1
        <4> QED
          BY <4>1 DEF Between
      <3>4. c[1] \in used \ {head}
        BY <1>1, <1>2
      <3> HIDE DEF range
      <3>5. Visited(list, c[a], c[n + 1]) = range
        BY <3>1 DEF range
      <3>6. ListItr_Splice(list, c[1], c[a], c[n + 1]) \in Relinked(list, used, n)
        BY <1>1, <1>3, <3>2, <3>3, <3>4, <3>5, SpliceRelinks
      <3> QED
        BY <1>1, <2>2, <3>6
    <2> QED
      BY <2>1, <2>2
  <1>5. list' \in ListType /\ list'.m_data = list.m_data /\ \E d : IsChain(list', used, n, d)
    BY <1>4 DEF Relinked
  <1>6. Linked'
    BY <1>5 DEF Linked, used
  <1>7. NodesFull'
    BY <1>5 DEF NodesFull, ListOK
  <1> QED
    BY <1>4, <1>5, <1>6, <1>7 DEF ListOK, used

\* List_Destroy frees every node, each one from its neighbour.
LEMMA DestroyKeeps ==
  ASSUME ListOK, List_Destroy
  PROVE  /\ ListOK' /\ free' = Nodes
         /\ IsChain(list', Places \ free', 0, [i \in 0 .. 1 |-> IF i = 0 THEN head ELSE tail])
  <1>1. PICK n \in Nat : \E c : IsChain(list, Places \ free, n, c)
    BY DEF ListOK, Linked
  <1>2. PICK c : IsChain(list, Places \ free, n, c)
    BY <1>1
  <1>3. InOrder(list) = [i \in 1 .. n |-> c[i]]
    <2>1. Places \ free \subseteq Places
      OBVIOUS
    <2>2. InOrder(list) = NodesOf(c, n)
      BY <1>2, <2>1, ReadsOnChain
    <2> QED
      BY <2>2 DEF NodesOf
  <1>4. ASSUME NEW i \in 1 .. n
        PROVE  list.m_prev[list.m_next[InOrder(list)[i]]] = c[i]
    <2>1. i \in 0 .. n
      OBVIOUS
    <2> QED
      BY <1>2, <1>3, <2>1 DEF IsChain
  <1>5. /\ \A i \in 1 .. n : c[i] \in Nodes \ free
        /\ \A p \in Nodes \ free : \E i \in 1 .. n : c[i] = p
    <2>1. (Places \ free) \ {head, tail} = Nodes \ free
      BY PlacesInUse
    <2>2. /\ \A i \in 1 .. n : c[i] \in (Places \ free) \ {head, tail}
          /\ \A p \in (Places \ free) \ {head, tail} : \E i \in 1 .. n : c[i] = p
      BY <1>2, ChainNodes
    <2> QED
      BY <2>1, <2>2
  <1>6. free' = Nodes
    BY <1>3, <1>4, <1>5 DEF List_Destroy, ListOK
  <1>7. list' = List_Create(NULL, NULL)
    BY DEF List_Destroy
  <1>8. /\ list' \in ListType
        /\ IsChain(list', Places \ Nodes, 0, [i \in 0 .. 1 |-> IF i = 0 THEN head ELSE tail])
    BY <1>7, CreatedIsLinked
  <1>9. Linked' /\ NodesFull'
    BY <1>6, <1>8 DEF Linked, NodesFull
  <1> QED
    BY <1>6, <1>8, <1>9 DEF ListOK
-----------------------------------------------------------------------------
(***************************************************************************)
(* Every call keeps the invariant.                                         *)
(***************************************************************************)
Replies == Items \cup {NULL, "LIST_SUCCESS", "LIST_IS_EMPTY", "LIST_ALLOCATION_ERROR"}

\* The iterator and the answers.
CallerOK ==
  /\ itr \in (Places \cup {NULL}) \ free
  /\ reply \in Replies /\ count \in 0 .. Cardinality(Nodes)
  /\ status \in {"live", "destroyed", "crashed"}

LEMMA InvIsBoth ==
  IInv <=> ListOK /\ CallerOK
  BY InvParts DEF CallerOK, Replies

\* A numbering of the places in use, its ends and every place's neighbours.
StateChain(n, c) ==
  /\ IsChain(list, Places \ free, n, c)
  /\ list.m_next[head] = c[1] /\ list.m_prev[tail] = c[n]
  /\ c[0] = head /\ c[n + 1] = tail
  /\ Empty <=> n = 0
  /\ \A i \in 1 .. n : c[i] \in Nodes \ free
  /\ \A p \in Nodes \ free : \E i \in 1 .. n : c[i] = p
  /\ \A p \in (Places \ free) \ {head} : \E i \in 0 .. n :
       p = c[i + 1] /\ list.m_prev[p] = c[i] /\ c[i] \in Places \ free
  /\ \A p \in Places \ free : list.m_next[p] \in Places \ free

LEMMA ChainOfState ==
  ASSUME IInv
  PROVE  \E n \in Nat : \E c : StateChain(n, c)
  <1>1. ListOK
    BY InvIsBoth
  <1>2. PICK n \in Nat : \E c : IsChain(list, Places \ free, n, c)
    BY <1>1 DEF ListOK, Linked
  <1>0. PICK used : used = Places \ free
    OBVIOUS
  <1>3. PICK c : IsChain(list, used, n, c)
    BY <1>0, <1>2
  <1>4. c[0] = head /\ c[n + 1] = tail
    BY <1>3 DEF IsChain
  <1>5. /\ list.m_next[head] = c[1] /\ list.m_prev[tail] = c[n]
        /\ c[1] = tail <=> n = 0
        /\ \A i \in 1 .. n : c[i] \in used \ {head, tail}
        /\ \A p \in used \ {head, tail} : \E i \in 1 .. n : c[i] = p
    <2>1. list.m_next[head] = c[1] /\ list.m_prev[tail] = c[n] /\ (c[1] = tail <=> n = 0)
      BY <1>3, ChainNodes
    <2>2. /\ \A i \in 1 .. n : c[i] \in used \ {head, tail}
          /\ \A p \in used \ {head, tail} : \E i \in 1 .. n : c[i] = p
      BY <1>3, ChainNodes
    <2> QED
      BY <2>1, <2>2
  <1>6. Empty <=> n = 0
    BY <1>5 DEF Empty
  <1>7. used \ {head, tail} = Nodes \ free
    BY <1>0, <1>1, PlacesInUse
  <1>8. ASSUME NEW p \in used \ {head}
        PROVE  \E i \in 0 .. n :
                 p = c[i + 1] /\ list.m_prev[p] = c[i] /\ c[i] \in used
    <2>1. PICK h \in 0 .. n + 1 : c[h] = p
      BY <1>3 DEF IsChain
    <2>2. h # 0
      BY <1>4, <2>1
    <2>3. h - 1 \in 0 .. n /\ h - 1 + 1 = h /\ h - 1 \in 0 .. n + 1
      BY <2>2
    <2>4. list.m_prev[c[h]] = c[h - 1] /\ c[h - 1] \in used
      BY <1>3, <2>3 DEF IsChain
    <2> QED
      BY <2>1, <2>3, <2>4
  <1>9. \A p \in used : list.m_next[p] \in used
    BY <1>3, LinksStay
  <1> QED
    BY <1>0, <1>3, <1>4, <1>5, <1>6, <1>7, <1>8, <1>9 DEF StateChain

LEMMA UntouchedKeeps ==
  ASSUME ListOK, UNCHANGED <<list, free>>
  PROVE  ListOK'
  BY DEF ListOK, Linked, NodesFull

LEMMA AnswerTyped ==
  ASSUME CallerOK, NEW r \in Replies, Answer(r)
  PROVE  /\ reply' \in Replies /\ count' \in 0 .. Cardinality(Nodes)
         /\ status' \in {"live", "destroyed", "crashed"}
  BY StepsFacts DEF Answer, Counts, CallerOK

LEMMA DiesKeeps ==
  ASSUME IInv, Dies
  PROVE  IInv'
  <1>1. ListOK' /\ CallerOK'
    BY InvIsBoth, UntouchedKeeps DEF Dies, CallerOK
  <1> QED
    BY <1>1, InvParts DEF ListOK, CallerOK, IInv, TypeOK, ListType, Replies

LEMMA GotoKeeps ==
  ASSUME IInv, NEW p \in Places \ free, Goto(p)
  PROVE  IInv'
  <1>1. ListOK'
    BY InvIsBoth, UntouchedKeeps DEF Goto
  <1>2. CallerOK'
    <2>1. NULL \in Replies
      BY DEF Replies
    <2>2. /\ reply' \in Replies /\ count' \in 0 .. Cardinality(Nodes)
          /\ status' \in {"live", "destroyed", "crashed"}
      BY <2>1, InvIsBoth, AnswerTyped DEF Goto
    <2>3. itr' \in (Places \cup {NULL}) \ free'
      BY DEF Goto
    <2> QED
      BY <2>2, <2>3 DEF CallerOK
  <1> QED
    BY <1>1, <1>2 DEF ListOK, CallerOK, IInv, TypeOK, ListType, Replies

\* An answer that leaves the list and the iterator alone.
LEMMA AnswerKeeps ==
  ASSUME IInv, NEW r \in Replies, Answer(r), UNCHANGED <<list, free, itr>>
  PROVE  IInv'
  <1>1. ListOK'
    BY InvIsBoth, UntouchedKeeps
  <1>2. /\ reply' \in Replies /\ count' \in 0 .. Cardinality(Nodes)
        /\ status' \in {"live", "destroyed", "crashed"}
    BY InvIsBoth, AnswerTyped
  <1>3. CallerOK'
    BY <1>2, InvIsBoth DEF CallerOK
  <1> QED
    BY <1>1, <1>3 DEF ListOK, CallerOK, IInv, TypeOK, ListType, Replies

\* An insertion, after which the iterator stays or refers to the new node.
LEMMA InsertCallKeeps ==
  ASSUME IInv, NEW n \in Nat, NEW c, IsChain(list, Places \ free, n, c),
         NEW j \in 0 .. n, NEW p \in free, NEW x \in Items,
         Insert(x, c[j], c[j + 1], p), itr' = itr \/ itr' = p, Answer("LIST_SUCCESS")
  PROVE  IInv'
  <1>1. ListOK' /\ free' = free \ {p}
    BY InvIsBoth, InsertKeeps
  <1>2. /\ reply' \in Replies /\ count' \in 0 .. Cardinality(Nodes)
        /\ status' \in {"live", "destroyed", "crashed"}
    <2>1. "LIST_SUCCESS" \in Replies
      BY DEF Replies
    <2> QED
      BY <2>1, InvIsBoth, AnswerTyped
  <1>3. itr' \in (Places \cup {NULL}) \ free'
    BY <1>1, InvIsBoth DEF CallerOK, ListOK, Places
  <1>4. CallerOK'
    BY <1>2, <1>3 DEF CallerOK
  <1> QED
    BY <1>1, <1>4 DEF ListOK, CallerOK, IInv, TypeOK, ListType, Replies

\* A node is freed and its item returned.
LEMMA FreeCallKeeps ==
  ASSUME IInv, NEW p \in Nodes \ free, Free(p), Answer(list.m_data[p])
  PROVE  IInv'
  <1>1. ListOK /\ CallerOK
    BY InvIsBoth
  <1>2. PICK n \in Nat : \E c : StateChain(n, c)
    BY ChainOfState
  <1>3. PICK c : StateChain(n, c)
    BY <1>2
  <1>4. PICK a \in 1 .. n : c[a] = p
    BY <1>3 DEF StateChain
  <1>5. ListOK' /\ free' = free \cup {p}
    <2>1. IsChain(list, Places \ free, n, c)
      BY <1>3 DEF StateChain
    <2> QED
      BY <1>1, <1>4, <2>1, FreeKeeps
  <1>6. list.m_data[p] \in Replies
    BY <1>1 DEF ListOK, NodesFull, Replies
  <1>7. /\ reply' \in Replies /\ count' \in 0 .. Cardinality(Nodes)
        /\ status' \in {"live", "destroyed", "crashed"}
    BY <1>1, <1>6, AnswerTyped
  <1>8. itr' \in (Places \cup {NULL}) \ free'
    <2>1. NULL # p
      BY <1>1, PlacesInUse DEF Places
    <2>2. NULL \notin free
      BY <1>1, PlacesInUse DEF ListOK, Places
    <2> QED
      BY <1>1, <1>5, <2>1, <2>2 DEF CallerOK, Free
  <1>9. CallerOK'
    BY <1>7, <1>8 DEF CallerOK
  <1> QED
    BY <1>5, <1>9 DEF ListOK, CallerOK, IInv, TypeOK, ListType, Replies

\* A search ends at a place in use.
LEMMA FirstStopInUse ==
  ASSUME ListOK, NEW stopping
  PROVE  FirstStop(list, ListItr_Begin(list), ListItr_End(list), stopping) \in Places \ free
  <1>1. PICK n \in Nat : \E c : IsChain(list, Places \ free, n, c)
    BY DEF ListOK, Linked
  <1>2. PICK c : IsChain(list, Places \ free, n, c)
    BY <1>1
  <1>3. /\ list \in ListType /\ Places \ free \subseteq Places
        /\ ListItr_Begin(list) = c[1] /\ ListItr_End(list) = c[n + 1]
        /\ \A i \in 0 .. n + 1 : c[i] \in Places \ free
    <2>1. ListItr_Begin(list) = c[1]
      BY <1>2, ChainNodes DEF ListItr_Begin
    <2>2. ListItr_End(list) = c[n + 1] /\ \A i \in 0 .. n + 1 : c[i] \in Places \ free
      BY <1>2 DEF ListItr_End, IsChain
    <2>3. list \in ListType /\ Places \ free \subseteq Places
      BY DEF ListOK
    <2> QED
      BY <2>1, <2>2, <2>3
  <1>4. 1 \in 0 .. n + 1 /\ n + 1 \in 1 .. n + 1 /\ n + 1 \in 0 .. n + 1
    OBVIOUS
  <1>5. PICK m \in 1 .. n + 1 : Visited(list, c[1], c[n + 1]) = Between(c, 1, m)
    <2>1. PICK m \in 1 .. n + 1 : LoopEnds(list, c, 1, n + 1, m)
      BY <1>2, <1>3, <1>4, VisitedOnChain
    <2> QED
      BY <2>1 DEF LoopEnds
  <1> DEFINE range == Visited(list, c[1], c[n + 1])
             at == {i \in DOMAIN range : ListItr_Get(list, range[i]) \in stopping}
  <1>6. DOMAIN range = 1 .. m - 1 /\ \A i \in 1 .. m - 1 : range[i] \in Places \ free
    <2>1. DOMAIN range = 1 .. m - 1 /\ \A i \in 1 .. m - 1 : range[i] = c[i + 1 - 1]
      BY <1>5 DEF Between
    <2>2. \A i \in 1 .. m - 1 : i + 1 - 1 \in 0 .. n + 1
      OBVIOUS
    <2> HIDE DEF range
    <2> QED
      BY <1>3, <2>1, <2>2
  <1> HIDE DEF range
  <1>7. at \subseteq 1 .. m - 1 /\ at \subseteq Nat
    BY <1>6
  <1>8. at # {} => Min(at) \in at
    <2> SUFFICES ASSUME at # {}
                 PROVE  Min(at) \in at
      OBVIOUS
    <2> HIDE DEF at
    <2>1. \E i \in at : \A h \in at : i =< h
      BY <1>7, LeastNumber
    <2> QED
      BY <2>1 DEF Min
  <1>9. FirstStop(list, c[1], c[n + 1], stopping)
          = IF at = {} THEN c[n + 1] ELSE range[Min(at)]
    BY DEF FirstStop, range
  <1> HIDE DEF at
  <1> QED
    BY <1>3, <1>4, <1>6, <1>7, <1>8, <1>9

LEMMA InsertionsKeep ==
  ASSUME IInv, NEW x \in Items,
         List_PushHead(x) \/ List_PushTail(x) \/ ListItr_InsertBefore(x)
  PROVE  IInv'
  <1>0. PICK n \in Nat : \E c : StateChain(n, c)
    BY ChainOfState
  <1>1. PICK c : StateChain(n, c)
    BY <1>0
  <1>2. /\ IsChain(list, Places \ free, n, c)
        /\ list.m_next[head] = c[1] /\ list.m_prev[tail] = c[n]
        /\ c[0] = head /\ c[n + 1] = tail
        /\ \A p \in (Places \ free) \ {head} : \E i \in 0 .. n :
             p = c[i + 1] /\ list.m_prev[p] = c[i] /\ c[i] \in Places \ free
    BY <1>1 DEF StateChain
  <1>3. 0 \in 0 .. n /\ n \in 0 .. n /\ 0 + 1 = 1
    OBVIOUS
  <1>4. CASE List_PushHead(x)
    <2>1. CASE \E p \in free : Insert(x, head, list.m_next[head], p) /\ Answer("LIST_SUCCESS")
      <3>1. PICK p \in free : Insert(x, c[0], c[0 + 1], p) /\ Answer("LIST_SUCCESS")
        BY <1>2, <1>3, <2>1
      <3>2. itr' = itr
        BY <1>4 DEF List_PushHead
      <3> QED
        BY <1>2, <1>3, <3>1, <3>2, InsertCallKeeps
    <2>2. CASE Answer("LIST_ALLOCATION_ERROR") /\ UNCHANGED <<list, free, itr>>
      <3>1. "LIST_ALLOCATION_ERROR" \in Replies
        BY DEF Replies
      <3> QED
        BY <2>2, <3>1, AnswerKeeps
    <2> QED
      BY <1>4, <2>1, <2>2 DEF List_PushHead
  <1>5. CASE List_PushTail(x)
    <2>1. CASE \E p \in free : /\ Insert(x, list.m_prev[tail], tail, p)
                               /\ Answer("LIST_SUCCESS") /\ UNCHANGED itr
      <3>1. PICK p \in free :
              Insert(x, c[n], c[n + 1], p) /\ Answer("LIST_SUCCESS") /\ itr' = itr
        BY <1>2, <2>1
      <3> QED
        BY <1>2, <1>3, <3>1, InsertCallKeeps
    <2>2. CASE Dies
      BY <2>2, DiesKeeps
    <2> QED
      BY <1>5, <2>1, <2>2 DEF List_PushTail
  <1>6. CASE ListItr_InsertBefore(x)
    <2>1. CASE /\ itr \notin {NULL, head}
               /\ \E p \in free : Insert(x, list.m_prev[itr], itr, p) /\ itr' = p
               /\ Answer("LIST_SUCCESS")
      <3>1. itr \in (Places \ free) \ {head}
        BY <2>1, InvIsBoth DEF CallerOK
      <3>2. PICK j \in 0 .. n : itr = c[j + 1] /\ list.m_prev[itr] = c[j]
        BY <1>2, <3>1
      <3>3. PICK p \in free : Insert(x, c[j], c[j + 1], p) /\ itr' = p
        BY <2>1, <3>2
      <3> QED
        BY <1>2, <2>1, <3>3, InsertCallKeeps
    <2>2. CASE Dies
      BY <2>2, DiesKeeps
    <2>3. CASE Answer(NULL) /\ UNCHANGED <<list, free, itr>>
      <3>1. NULL \in Replies
        BY DEF Replies
      <3> QED
        BY <2>3, <3>1, AnswerKeeps
    <2> QED
      BY <1>6, <2>1, <2>2, <2>3 DEF ListItr_InsertBefore
  <1> QED
    BY <1>4, <1>5, <1>6

LEMMA RemovalsKeep ==
  ASSUME IInv, List_PopHead \/ List_PopTail \/ ListItr_Remove
  PROVE  IInv'
  <1>0. PICK n \in Nat : \E c : StateChain(n, c)
    BY ChainOfState
  <1>1. PICK c : StateChain(n, c)
    BY <1>0
  <1>2. /\ list.m_next[head] = c[1] /\ list.m_prev[tail] = c[n]
        /\ Empty <=> n = 0
        /\ \A i \in 1 .. n : c[i] \in Nodes \ free
    BY <1>1 DEF StateChain
  <1>3. ~Empty => 1 \in 1 .. n /\ n \in 1 .. n
    BY <1>2
  <1>4. ASSUME NEW p, Pop(p), ~Empty => p \in Nodes \ free
        PROVE  IInv'
    <2>1. CASE ~Empty /\ Free(p) /\ Answer(list.m_data[p])
      BY <1>4, <2>1, FreeCallKeeps
    <2>2. CASE Answer("LIST_IS_EMPTY") /\ UNCHANGED <<list, free, itr>>
      <3>1. "LIST_IS_EMPTY" \in Replies
        BY DEF Replies
      <3> QED
        BY <2>2, <3>1, AnswerKeeps
    <2> QED
      BY <1>4, <2>1, <2>2 DEF Pop
  <1>5. CASE List_PopHead
    <2>1. ~Empty => list.m_next[head] \in Nodes \ free
      BY <1>2, <1>3
    <2> QED
      BY <1>4, <1>5, <2>1 DEF List_PopHead
  <1>6. CASE List_PopTail
    <2>1. ~Empty => list.m_prev[tail] \in Nodes \ free
      BY <1>2, <1>3
    <2> QED
      BY <1>4, <1>6, <2>1 DEF List_PopTail
  <1>7. CASE ListItr_Remove
    <2>1. CASE itr \in Nodes /\ Free(itr) /\ Answer(list.m_data[itr])
      <3>1. itr \in Nodes \ free
        BY <2>1, InvIsBoth DEF CallerOK
      <3> QED
        BY <2>1, <3>1, FreeCallKeeps
    <2>2. CASE Answer(NULL) /\ UNCHANGED <<list, free, itr>>
      <3>1. NULL \in Replies
        BY DEF Replies
      <3> QED
        BY <2>2, <3>1, AnswerKeeps
    <2>3. CASE Dies
      BY <2>3, DiesKeeps
    <2> QED
      BY <1>7, <2>1, <2>2, <2>3 DEF ListItr_Remove
  <1> QED
    BY <1>5, <1>6, <1>7

LEMMA MovesKeep ==
  ASSUME IInv, \/ Begin \/ End \/ NextPlace \/ PrevPlace
               \/ \E predicate \in SUBSET Items : FindFirst(predicate) \/ ForEach(predicate)
  PROVE  IInv'
  <1>1. ListOK /\ CallerOK
    BY InvIsBoth
  <1>2. /\ \A p \in Places \ free : list.m_next[p] \in Places \ free
        /\ \A p \in (Places \ free) \ {head} : list.m_prev[p] \in Places \ free
    BY ChainOfState DEF StateChain
  <1>3. head \in Places \ free /\ tail \in Places \ free
    BY <1>1, PlacesInUse
  <1>4. itr # NULL => itr \in Places \ free
    BY <1>1 DEF CallerOK
  <1>5. CASE Begin
    BY <1>2, <1>3, <1>5, GotoKeeps DEF Begin, ListItr_Begin
  <1>6. CASE End
    BY <1>2, <1>3, <1>6, GotoKeeps DEF End, ListItr_End
  <1>7. CASE NextPlace
    BY <1>2, <1>4, <1>7, GotoKeeps DEF NextPlace, ListItr_Next
  <1>8. CASE PrevPlace
    <2>1. CASE itr \notin {NULL, head} /\ Goto(ListItr_Prev(list, itr))
      <3>1. ListItr_Prev(list, itr) \in Places \ free
        BY <1>2, <1>4, <2>1 DEF ListItr_Prev
      <3> QED
        BY <2>1, <3>1, GotoKeeps
    <2>2. CASE Dies
      BY <2>2, DiesKeeps
    <2> QED
      BY <1>8, <2>1, <2>2 DEF PrevPlace
  <1>9. ASSUME NEW predicate \in SUBSET Items, FindFirst(predicate) \/ ForEach(predicate)
        PROVE  IInv'
    <2>1. CASE FindFirst(predicate)
      <3>1. ListItr_FindFirst(list, ListItr_Begin(list), ListItr_End(list), predicate)
              \in Places \ free
        BY <1>1, FirstStopInUse DEF ListItr_FindFirst
      <3> QED
        BY <2>1, <3>1, GotoKeeps DEF FindFirst
    <2>2. CASE ForEach(predicate)
      <3>1. ListItr_ForEach(list, ListItr_Begin(list), ListItr_End(list), predicate)
              \in Places \ free
        BY <1>1, FirstStopInUse DEF ListItr_ForEach
      <3> QED
        BY <2>2, <3>1, GotoKeeps DEF ForEach
    <2> QED
      BY <1>9, <2>1, <2>2
  <1> QED
    BY <1>5, <1>6, <1>7, <1>8, <1>9

\* A number is returned.
LEMMA CountsKeeps ==
  ASSUME IInv, NEW m \in 0 .. Cardinality(Nodes), Counts(m),
         UNCHANGED <<list, free, itr, reply>>
  PROVE  IInv'
  <1>1. ListOK'
    BY InvIsBoth, UntouchedKeeps
  <1>2. CallerOK'
    BY InvIsBoth DEF CallerOK, Counts
  <1> QED
    BY <1>1, <1>2 DEF ListOK, CallerOK, IInv, TypeOK, ListType, Replies

LEMMA ReadingsKeep ==
  ASSUME IInv, \/ Get \/ Size
               \/ \E predicate \in SUBSET Items : CountIf(predicate)
  PROVE  IInv'
  <1>0. PICK n \in Nat : \E c : StateChain(n, c)
    BY ChainOfState
  <1>1. PICK c : StateChain(n, c)
    BY <1>0
  <1>2. /\ IsChain(list, Places \ free, n, c)
        /\ list.m_next[head] = c[1] /\ c[n + 1] = tail
        /\ ListOK /\ CallerOK /\ Places \ free \subseteq Places
    BY <1>1, InvIsBoth DEF StateChain
  <1>3. n \in 0 .. Cardinality(Nodes) /\ Cardinality(Nodes) \in Nat
    BY <1>2, ChainCounts, StepsFacts
  <1>4. CASE Get
    <2>1. itr \in Places
      BY <1>2, <1>4 DEF Get, CallerOK
    <2>2. ListItr_Get(list, itr) \in Replies
      BY <1>2, <2>1 DEF ListItr_Get, ListOK, ListType, Replies
    <2> QED
      BY <1>4, <2>2, AnswerKeeps DEF Get
  <1>5. CASE Size
    <2>1. List_Size(list) = n
      BY <1>2, ReadsOnChain
    <2> QED
      BY <1>3, <1>5, <2>1, CountsKeeps DEF Size
  <1>6. ASSUME NEW predicate \in SUBSET Items, CountIf(predicate)
        PROVE  IInv'
    <2> DEFINE number == ListItr_CountIf(list, ListItr_Begin(list), ListItr_End(list), predicate)
    <2>1. number \in {0, 1}
      BY DEF ListItr_CountIf
    <2>2. number = 1 => n # 0
      <3>1. ASSUME n = 0
            PROVE  ListItr_Begin(list) = ListItr_End(list)
        <4>1. list.m_next[tail] = tail
          BY <1>2 DEF IsChain
        <4> QED
          BY <1>2, <3>1, <4>1 DEF ListItr_Begin, ListItr_End
      <3>2. n = 0 => number = 0
        BY <3>1 DEF ListItr_CountIf, ListItr_Equals
      <3> QED
        BY <3>2
    <2>3. Counts(number) /\ UNCHANGED <<list, free, itr, reply>>
      BY <1>6 DEF CountIf
    <2> HIDE DEF number
    <2>4. number \in 0 .. Cardinality(Nodes)
      BY <1>3, <2>1, <2>2
    <2> QED
      BY <2>3, <2>4, CountsKeeps
  <1> QED
    BY <1>4, <1>5, <1>6

\* The caller's own variables are typed after a call that rearranges.
LEMMA RearrangedKeeps ==
  ASSUME IInv, ListOK', UNCHANGED <<free, itr, reply, count, status>>
  PROVE  IInv'
  <1>1. CallerOK'
    BY InvIsBoth DEF CallerOK
  <1> QED
    BY <1>1 DEF ListOK, CallerOK, IInv, TypeOK, ListType, Replies

\* Items are written, and the links stay.
LEMMA WritingsKeep ==
  ASSUME IInv, \/ \E x \in Items : Set(x)
               \/ \E less \in Lesses : Sort(less)
  PROVE  IInv'
  <1>0. PICK n \in Nat : \E c : IsChain(list, Places \ free, n, c)
    BY InvIsBoth DEF ListOK, Linked
  <1>1. PICK c : IsChain(list, Places \ free, n, c)
    BY <1>0
  <1>2. ListOK /\ CallerOK
    BY InvIsBoth
  <1>3. ASSUME NEW x \in Items, Set(x)
        PROVE  IInv'
    <2>1. itr \in Places \ free /\ x # NULL
      BY <1>2, <1>3, PlacesInUse DEF Set, CallerOK
    <2>2. /\ list' = [list EXCEPT !.m_data[itr] = x]
          /\ Answer(list.m_data[itr]) /\ UNCHANGED <<free, itr>>
      BY <1>3, <2>1 DEF Set, ListItr_Set
    <2>3. /\ list' \in ListType /\ list'.m_next = list.m_next /\ list'.m_prev = list.m_prev
          /\ list'.m_data = [list.m_data EXCEPT ![itr] = x]
      BY <1>2, <2>1, <2>2 DEF ListOK, ListType
    <2>4. IsChain(list', Places \ free', n, c)
      BY <1>1, <2>2, <2>3, SameLinks
    <2>5. ListOK'
      <3>1. NodesFull'
        BY <1>2, <2>2, <2>3 DEF NodesFull, ListOK, ListType, Places
      <3> QED
        BY <1>2, <2>2, <2>3, <2>4, <3>1 DEF ListOK, Linked
    <2>6. /\ reply' \in Replies /\ count' \in 0 .. Cardinality(Nodes)
          /\ status' \in {"live", "destroyed", "crashed"}
      <3>1. list.m_data[itr] \in Replies
        BY <1>2, <2>1 DEF ListOK, ListType, Replies
      <3> QED
        BY <1>2, <2>2, <3>1, AnswerTyped
    <2>7. CallerOK'
      BY <1>2, <2>2, <2>6 DEF CallerOK
    <2> QED
      BY <2>5, <2>7 DEF ListOK, CallerOK, IInv, TypeOK, ListType, Replies
  <1>4. ASSUME NEW less \in Lesses, Sort(less)
        PROVE  IInv'
    <2>1. PICK end : list' = ListItr_Sort(list, ListItr_Begin(list), end, less)
      BY <1>4 DEF Sort
    <2>2. UNCHANGED <<free, itr, reply, count, status>>
      BY <1>4 DEF Sort
    <2>3. ListOK'
      BY <1>1, <1>2, <2>1, <2>2, SortKeeps
    <2> QED
      BY <2>2, <2>3, RearrangedKeeps
  <1> QED
    BY <1>3, <1>4

LEMMA SpliceCallKeeps ==
  ASSUME IInv, Splice
  PROVE  IInv'
  <1>0. PICK n \in Nat : \E c : StateChain(n, c)
    BY ChainOfState
  <1>1. PICK c : StateChain(n, c)
    BY <1>0
  <1>2. /\ IsChain(list, Places \ free, n, c)
        /\ list.m_next[head] = c[1]
        /\ \A p \in Nodes \ free : \E i \in 1 .. n : c[i] = p
    BY <1>1 DEF StateChain
  <1>3. /\ itr \in Nodes \ free /\ itr # c[1]
        /\ UNCHANGED <<free, itr, reply, count, status>>
        /\ \/ list' = ListItr_Splice(list, ListItr_End(list), ListItr_Begin(list), itr)
           \/ list' = ListItr_Splice(list, ListItr_Begin(list), itr, ListItr_End(list))
    BY <1>2, InvIsBoth DEF Splice, CallerOK, ListItr_Begin
  <1>4. PICK a \in 1 .. n : c[a] = itr
    BY <1>2, <1>3
  <1>5. a \in 2 .. n /\ itr = c[a]
    BY <1>3, <1>4
  <1>6. ListOK'
    BY <1>2, <1>3, <1>5, InvIsBoth, SpliceKeeps
  <1> QED
    BY <1>3, <1>6, RearrangedKeeps

LEMMA DestroyCallKeeps ==
  ASSUME IInv, List_Destroy
  PROVE  IInv'
  <1>1. ListOK' /\ free' = Nodes
    BY InvIsBoth, DestroyKeeps
  <1>2. NULL \notin Nodes
    BY PointerAssumption
  <1>3. CallerOK'
    BY <1>1, <1>2, InvIsBoth DEF CallerOK, List_Destroy
  <1> QED
    BY <1>1, <1>3 DEF ListOK, CallerOK, IInv, TypeOK, ListType, Replies

LEMMA NextKeepsIInv ==
  ASSUME IInv, [Next]_vars
  PROVE  IInv'
  <1>1. CASE \E x \in Items : List_PushHead(x) \/ List_PushTail(x) \/ ListItr_InsertBefore(x)
    BY <1>1, InsertionsKeep
  <1>2. CASE List_PopHead \/ List_PopTail \/ ListItr_Remove
    BY <1>2, RemovalsKeep
  <1>3. CASE \/ Begin \/ End \/ NextPlace \/ PrevPlace
             \/ \E predicate \in SUBSET Items : FindFirst(predicate) \/ ForEach(predicate)
    BY <1>3, MovesKeep
  <1>4. CASE \/ Get \/ Size
             \/ \E predicate \in SUBSET Items : CountIf(predicate)
    BY <1>4, ReadingsKeep
  <1>5. CASE \/ \E x \in Items : Set(x)
             \/ \E less \in Lesses : Sort(less)
    BY <1>5, WritingsKeep
  <1>6. CASE Splice
    BY <1>6, SpliceCallKeeps
  <1>7. CASE List_Destroy
    BY <1>7, DestroyCallKeeps
  <1>8. CASE UNCHANGED vars
    <2>1. ListOK' /\ CallerOK'
      BY <1>8, InvIsBoth, UntouchedKeeps DEF vars, CallerOK
    <2> QED
      BY <2>1 DEF ListOK, CallerOK, IInv, TypeOK, ListType, Replies
  <1> QED
    BY <1>1, <1>2, <1>3, <1>4, <1>5, <1>6, <1>7, <1>8 DEF Next, Call

\* Every state is typed, its blocks in use are chained, and each of them holds an
\* item: what the calls of LinkedListGeneric.c, LinkedListGenericIter.c and
\* ListFunctionGen.c rely on and keep.
THEOREM ListInvariant == Spec => []IInv
  BY InitIInv, NextKeepsIInv, PTL DEF Spec
-----------------------------------------------------------------------------
(***************************************************************************)
(* What follows from the invariant.                                        *)
(***************************************************************************)

\* The variables hold values of their types: the iterator of the caller never
\* refers to a block that List_Pop or ListItr_Remove has freed.
THEOREM ListTyped == Spec => []TypeOK
  <1>1. IInv => TypeOK
    BY DEF IInv
  <1> QED
    BY <1>1, ListInvariant, PTL

\* The sentinels and the nodes between them.
LEMMA WholeChain ==
  ASSUME NEW n \in Nat, NEW c
  PROVE  LET chain == <<c[0]>> \o NodesOf(c, n) \o <<c[n + 1]>>
         IN /\ Len(chain) = n + 2 /\ DOMAIN chain = 1 .. n + 2
            /\ \A i \in 1 .. n + 2 : chain[i] = c[i - 1]
  <1> DEFINE S == {c[i] : i \in 0 .. n + 1}
             nodes == NodesOf(c, n)
             first == <<c[0]>> \o nodes
             chain == first \o <<c[n + 1]>>
  <1>1. /\ nodes \in Seq(S) /\ Len(nodes) = n
        /\ \A i \in 1 .. n : nodes[i] = c[i]
    <2>1. \A i \in 1 .. n : c[i] \in S
      OBVIOUS
    <2> HIDE DEF S
    <2> QED
      BY <2>1 DEF NodesOf
  <1>2. <<c[0]>> \in Seq(S) /\ <<c[n + 1]>> \in Seq(S)
    <2>1. c[0] \in S /\ c[n + 1] \in S
      OBVIOUS
    <2> HIDE DEF S
    <2> QED
      BY <2>1
  <1> HIDE DEF S, nodes
  <1>3. /\ first \in Seq(S) /\ Len(first) = n + 1
        /\ first[1] = c[0]
        /\ \A i \in 2 .. n + 1 : first[i] = c[i - 1]
    BY <1>1, <1>2
  <1> HIDE DEF first
  <1>4. /\ chain \in Seq(S) /\ Len(chain) = n + 2
        /\ \A i \in 1 .. n + 1 : chain[i] = first[i]
        /\ chain[n + 2] = c[n + 1]
    BY <1>2, <1>3
  <1> HIDE DEF chain
  <1>5. DOMAIN chain = 1 .. n + 2
    BY <1>4
  <1>6. ASSUME NEW i \in 1 .. n + 2
        PROVE  chain[i] = c[i - 1]
    BY <1>3, <1>4
  <1> QED
    BY <1>4, <1>5, <1>6 DEF chain, first, nodes

\* After any calls the chain from the head reaches every block allocated, once
\* each, and no block that was freed, and neighbours agree in both directions:
\* the links that List_PushHead, ListItr_InsertBefore, List_PopTail,
\* ListItr_Remove and ListItr_Splice set.
THEOREM NoNodeIsLost == Spec => []LinksMirror
  <1>1. IInv => LinksMirror
    <2> SUFFICES ASSUME IInv
                 PROVE  LinksMirror
      OBVIOUS
    <2>1. PICK n \in Nat : \E c : IsChain(list, Places \ free, n, c)
      BY DEF IInv, Linked
    <2>2. PICK c : IsChain(list, Places \ free, n, c)
      BY <2>1
    <2>3. Cardinality(Places \ free) = n + 2
      <3>1. Places \ free \subseteq Places
        OBVIOUS
      <3> QED
        BY <2>2, <3>1, ChainCounts
    <2>4. InOrder(list) = NodesOf(c, n)
      <3>1. Places \ free \subseteq Places
        OBVIOUS
      <3> QED
        BY <2>2, <3>1, ReadsOnChain
    <2> DEFINE chain == <<head>> \o InOrder(list) \o <<tail>>
    <2>5. /\ Len(chain) = n + 2 /\ DOMAIN chain = 1 .. n + 2
          /\ \A i \in 1 .. n + 2 : chain[i] = c[i - 1]
      <3>1. c[0] = head /\ c[n + 1] = tail
        BY <2>2 DEF IsChain
      <3> QED
        BY <2>4, <3>1, WholeChain
    <2> HIDE DEF chain
    <2>6. {chain[i] : i \in DOMAIN chain} = Places \ free
      <3>1. ASSUME NEW i \in 1 .. n + 2
            PROVE  chain[i] \in Places \ free
        <4>1. i - 1 \in 0 .. n + 1
          OBVIOUS
        <4> QED
          BY <2>2, <2>5, <4>1 DEF IsChain
      <3>2. ASSUME NEW p \in Places \ free
            PROVE  \E i \in 1 .. n + 2 : chain[i] = p
        <4>1. PICK h \in 0 .. n + 1 : c[h] = p
          BY <2>2 DEF IsChain
        <4>2. PICK i \in 1 .. n + 2 : i - 1 = h
          <5>1. h + 1 \in 1 .. n + 2 /\ h + 1 - 1 = h
            OBVIOUS
          <5> QED
            BY <5>1
        <4>3. chain[i] = c[i - 1]
          BY <2>5, <4>2
        <4> QED
          BY <4>1, <4>2, <4>3
      <3> QED
        BY <2>5, <3>1, <3>2
    <2>7. ASSUME NEW i \in 1 .. Len(chain) - 1
          PROVE  list.m_next[chain[i]] = chain[i + 1] /\ list.m_prev[chain[i + 1]] = chain[i]
      <3>1. /\ i \in 1 .. n + 2 /\ i + 1 \in 1 .. n + 2
            /\ i - 1 \in 0 .. n /\ i + 1 - 1 = i /\ i - 1 + 1 = i
        BY <2>5
      <3>2. list.m_next[c[i - 1]] = c[i] /\ list.m_prev[c[i]] = c[i - 1]
        BY <2>2, <3>1 DEF IsChain
      <3> QED
        BY <2>5, <3>1, <3>2
    <2> QED
      BY <2>3, <2>5, <2>6, <2>7 DEF LinksMirror, chain
  <1> QED
    BY <1>1, ListInvariant, PTL

\* ListItr_Equals compares items: still a loop from ListItr_Begin to ListItr_End
\* passes through all the nodes, unless one of them holds the very item that the
\* tail's block carries.
THEOREM LoopsAreWhole == Spec => []LoopsReachTheEnd
  <1>1. IInv => LoopsReachTheEnd
    <2> SUFFICES ASSUME IInv
                 PROVE  LoopsReachTheEnd
      OBVIOUS
    <2>1. PICK n \in Nat : \E c : IsChain(list, Places \ free, n, c)
      BY DEF IInv, Linked
    <2>2. PICK used : used = Places \ free
      OBVIOUS
    <2>3. PICK c : IsChain(list, used, n, c)
      BY <2>1, <2>2
    <2>4. /\ list \in ListType /\ used \subseteq Places
          /\ list.m_next[head] = c[1] /\ list.m_next[tail] = tail /\ c[n + 1] = tail
          /\ 1 \in 0 .. n + 1 /\ n + 1 \in 1 .. n + 1
      BY <2>2, <2>3, ChainNodes DEF IInv, TypeOK, ListType, IsChain
    <2>5. List_Size(list) = n /\ InOrder(list) = NodesOf(c, n)
      BY <2>3, <2>4, ReadsOnChain
    <2>6. Contents(list) = ItemsOf(list, c, n)
      BY <2>3, <2>4, ReadsOnChain
    <2>7. PICK m \in 1 .. n + 1 : LoopEnds(list, c, 1, n + 1, m)
      BY <2>3, <2>4, VisitedOnChain
    <2>8. ListItr_Begin(list) = c[1] /\ ListItr_End(list) = c[n + 1]
      BY <2>4 DEF ListItr_Begin, ListItr_End
    <2>9. CASE m = n + 1
      <3>1. Between(c, 1, m) = NodesOf(c, n)
        <4>1. m - 1 = n /\ \A i \in 1 .. n : i + 1 - 1 = i
          BY <2>9
        <4> QED
          BY <4>1 DEF Between, NodesOf
      <3> QED
        BY <2>5, <2>7, <2>8, <3>1 DEF LoopsReachTheEnd, LoopEnds
    <2>10. CASE m \in 1 .. n
      <3>1. list.m_data[c[m]] = list.m_data[tail]
        BY <2>4, <2>7 DEF LoopEnds, StopsAt, EndsLoop, ListItr_Equals
      <3>2. DOMAIN NodesOf(c, n) = 1 .. n /\ ItemsOf(list, c, n)[m] = list.m_data[c[m]]
        BY <2>10 DEF NodesOf, ItemsOf
      <3> QED
        BY <2>5, <2>6, <2>10, <3>1, <3>2 DEF LoopsReachTheEnd
    <2> QED
      BY <2>9, <2>10
  <1> QED
    BY <1>1, ListInvariant, PTL
-----------------------------------------------------------------------------
(***************************************************************************)
(* The list behaves as the sequence of its items.                          *)
(***************************************************************************)
LEMMA SameSequence ==
  ASSUME NEW S, NEW s \in Seq(S), NEW t \in Seq(S), Len(s) = Len(t),
         \A i \in 1 .. Len(s) : s[i] = t[i]
  PROVE  s = t
  OBVIOUS

LEMMA InsertedAt ==
  ASSUME NEW S, NEW s \in Seq(S), NEW p \in 1 .. Len(s) + 1, NEW x \in S, NEW t \in Seq(S),
         Len(t) = Len(s) + 1, t[p] = x,
         \A i \in 1 .. p - 1 : t[i] = s[i], \A i \in p + 1 .. Len(t) : t[i] = s[i - 1]
  PROVE  t = Abstract!InsertAt(s, p, x)
  <1> DEFINE front == SubSeq(s, 1, p - 1)
             back == SubSeq(s, p, Len(s))
             whole == front \o <<x>> \o back
  <1>1. /\ front \in Seq(S) /\ Len(front) = p - 1
        /\ \A i \in 1 .. p - 1 : front[i] = s[i]
    OBVIOUS
  <1>2. /\ back \in Seq(S) /\ Len(back) = Len(s) - p + 1
        /\ \A i \in 1 .. Len(s) - p + 1 : back[i] = s[p + i - 1]
    OBVIOUS
  <1> HIDE DEF front, back
  <1>3. whole \in Seq(S) /\ Len(whole) = Len(s) + 1
    BY <1>1, <1>2
  <1>4. ASSUME NEW i \in 1 .. Len(s) + 1
        PROVE  whole[i] = t[i]
    <2>1. CASE i < p
      <3>1. i \in 1 .. p - 1 /\ (front \o <<x>>)[i] = front[i]
        BY <1>1, <2>1
      <3>2. whole[i] = (front \o <<x>>)[i]
        BY <1>1, <1>2, <2>1
      <3> QED
        BY <1>1, <3>1, <3>2
    <2>2. CASE i = p
      <3>1. front \o <<x>> \in Seq(S) /\ Len(front \o <<x>>) = p /\ (front \o <<x>>)[p] = x
        BY <1>1
      <3>2. whole[p] = (front \o <<x>>)[p]
        BY <1>2, <3>1
      <3> QED
        BY <2>2, <3>1, <3>2
    <2>3. CASE i > p
      <3>1. i - p \in 1 .. Len(s) - p + 1 /\ p + (i - p) - 1 = i - 1 /\ i \in p + 1 .. Len(t)
        BY <2>3
      <3>2. whole[i] = back[i - p]
        <4>1. front \o <<x>> \in Seq(S) /\ Len(front \o <<x>>) = p
          BY <1>1
        <4> QED
          BY <1>2, <2>3, <4>1
      <3>3. back[i - p] = s[p + (i - p) - 1]
        BY <1>2, <3>1
      <3>4. t[i] = s[i - 1]
        BY <3>1
      <3> QED
        BY <3>1, <3>2, <3>3, <3>4
    <2> HIDE DEF whole
    <2>4. i < p \/ i = p \/ i > p
      OBVIOUS
    <2> QED
      BY <2>1, <2>2, <2>3, <2>4
  <1> HIDE DEF whole
  <1>5. t = whole
    BY <1>3, <1>4, SameSequence
  <1> QED
    BY <1>5 DEF whole, front, back, Abstract!InsertAt

LEMMA RemovedAt ==
  ASSUME NEW S, NEW s \in Seq(S), NEW p \in 1 .. Len(s), NEW t \in Seq(S),
         Len(t) = Len(s) - 1,
         \A i \in 1 .. p - 1 : t[i] = s[i], \A i \in p .. Len(t) : t[i] = s[i + 1]
  PROVE  t = Abstract!RemoveAt(s, p)
  <1> DEFINE front == SubSeq(s, 1, p - 1)
             back == SubSeq(s, p + 1, Len(s))
             whole == front \o back
  <1>1. /\ front \in Seq(S) /\ Len(front) = p - 1
        /\ \A i \in 1 .. p - 1 : front[i] = s[i]
    OBVIOUS
  <1>2. /\ back \in Seq(S) /\ Len(back) = Len(s) - p
        /\ \A i \in 1 .. Len(s) - p : back[i] = s[p + i]
    OBVIOUS
  <1> HIDE DEF front, back
  <1>3. whole \in Seq(S) /\ Len(whole) = Len(s) - 1
    <2>1. whole \in Seq(S) /\ Len(whole) = Len(front) + Len(back)
      BY <1>1, <1>2, ConcatProperties
    <2>2. Len(s) \in Nat /\ (p - 1) + (Len(s) - p) = Len(s) - 1
      OBVIOUS
    <2> QED
      BY <1>1, <1>2, <2>1, <2>2
  <1>4. ASSUME NEW i \in 1 .. Len(s) - 1
        PROVE  whole[i] = t[i]
    <2>1. CASE i < p
      <3>1. i \in 1 .. p - 1
        BY <2>1
      <3>2. whole[i] = front[i]
        BY <1>1, <1>2, <2>1
      <3> QED
        BY <1>1, <3>1, <3>2
    <2>2. CASE i >= p
      <3>1. i - (p - 1) \in 1 .. Len(s) - p /\ p + (i - (p - 1)) = i + 1 /\ i \in p .. Len(t)
        BY <2>2
      <3>2. whole[i] = back[i - (p - 1)]
        BY <1>1, <1>2, <2>2
      <3>3. back[i - (p - 1)] = s[p + (i - (p - 1))]
        BY <1>2, <3>1
      <3>4. t[i] = s[i + 1]
        BY <3>1
      <3> QED
        BY <3>1, <3>2, <3>3, <3>4
    <2> HIDE DEF whole
    <2>3. i < p \/ i >= p
      OBVIOUS
    <2> QED
      BY <2>1, <2>2, <2>3
  <1> HIDE DEF whole
  <1>5. t = whole
    BY <1>3, <1>4, SameSequence
  <1> QED
    BY <1>5 DEF whole, front, back, Abstract!RemoveAt

\* The position of an iterator, as PositionOf has it.
PositionIn(l, p) == IF p = NULL THEN -1 ELSE LinksTo(l, p)

\* A list with n nodes, numbered by c, shows the items s, and its iterator p is
\* at position h.
Shows(l, p, n, c, s, h) ==
  /\ s \in Seq(Items) /\ Len(s) = n
  /\ \A i \in 1 .. n : s[i] = l.m_data[c[i]]
  /\ h \in -1 .. n + 1
  /\ h = -1 <=> p = NULL
  /\ \A i \in 0 .. n + 1 : h = i <=> p = c[i]

LEMMA ShownOnChain ==
  ASSUME NEW l, NEW used, used \subseteq Places, NEW n \in Nat, NEW c,
         IsChain(l, used, n, c), \A i \in 1 .. n : l.m_data[c[i]] \in Items,
         NEW p \in used \cup {NULL}
  PROVE  Shows(l, p, n, c, Contents(l), PositionIn(l, p))
  <1>1. Contents(l) = ItemsOf(l, c, n)
    BY ReadsOnChain
  <1>2. ASSUME NEW h \in 0 .. n + 1
        PROVE  LinksTo(l, c[h]) = h
    <2>1. CountsLinks(l, n, c)
      BY LinksOnChain
    <2> QED
      BY <2>1 DEF CountsLinks
  <1>3. /\ Contents(l) \in Seq(Items) /\ Len(Contents(l)) = n
        /\ \A i \in 1 .. n : Contents(l)[i] = l.m_data[c[i]]
    <2>1. ItemsOf(l, c, n) \in Seq(Items) /\ Len(ItemsOf(l, c, n)) = n
      BY DEF ItemsOf
    <2>2. \A i \in 1 .. n : ItemsOf(l, c, n)[i] = l.m_data[c[i]]
      BY DEF ItemsOf
    <2> QED
      BY <1>1, <2>1, <2>2
  <1>4. /\ \A i \in 0 .. n + 1 : c[i] # NULL
        /\ \A i, j \in 0 .. n + 1 : c[i] = c[j] => i = j
        /\ \A q \in used : \E i \in 0 .. n + 1 : c[i] = q
    BY PointerAssumption DEF IsChain, Places
  <1> DEFINE h == PositionIn(l, p)
  <1>5. p = NULL => h = -1
    BY DEF PositionIn
  <1>6. \A i \in 0 .. n + 1 : p = c[i] => h = i
    BY <1>2, <1>4 DEF PositionIn
  <1>7. p # NULL => \E i \in 0 .. n + 1 : p = c[i] /\ h = i
    BY <1>4, <1>6
  <1> HIDE DEF h
  <1>8. /\ h \in -1 .. n + 1
        /\ h = -1 <=> p = NULL
        /\ \A i \in 0 .. n + 1 : h = i <=> p = c[i]
    BY <1>4, <1>5, <1>6, <1>7
  <1> QED
    BY <1>3, <1>8 DEF Shows, h

\* What a numbering of the state shows.
StateShows(n, c) ==
  /\ StateChain(n, c)
  /\ Shows(list, itr, n, c, Contents(list), PositionOf(itr))

LEMMA ShownInState ==
  ASSUME IInv
  PROVE  \E n \in Nat : \E c : StateShows(n, c)
  <1>1. PICK n \in Nat : \E c : StateChain(n, c)
    BY ChainOfState
  <1>2. PICK c : StateChain(n, c)
    BY <1>1
  <1>3. PICK used : used = Places \ free
    OBVIOUS
  <1>4. /\ IsChain(list, used, n, c) /\ used \subseteq Places
        /\ \A i \in 1 .. n : list.m_data[c[i]] \in Items
        /\ itr \in used \cup {NULL}
    BY <1>2, <1>3, InvIsBoth DEF StateChain, ListOK, NodesFull, CallerOK
  <1>5. Shows(list, itr, n, c, Contents(list), PositionIn(list, itr))
    BY <1>4, ShownOnChain
  <1>6. PositionOf(itr) = PositionIn(list, itr)
    BY DEF PositionOf, PositionIn, LinksTo
  <1> QED
    BY <1>2, <1>5, <1>6 DEF StateShows

\* The same after a step, for the numbering the step leads to.
LEMMA ShownAfter ==
  ASSUME IInv', NEW n \in Nat, NEW c, IsChain(list', Places \ free', n, c)
  PROVE  Shows(list', itr', n, c, Contents(list)', PositionOf(itr)')
  <1>1. PICK used : used = Places \ free'
    OBVIOUS
  <1>2. PICK l : l = list'
    OBVIOUS
  <1>3. IsChain(l, used, n, c) /\ used \subseteq Places
    BY <1>1, <1>2
  <1>4. (Places \ free') \ {head, tail} = Nodes \ free'
    BY PointerAssumption DEF IInv, TypeOK, Places
  <1>5. \A i \in 1 .. n : c[i] \in used \ {head, tail}
    BY <1>3, ChainNodes
  <1>6. \A i \in 1 .. n : l.m_data[c[i]] \in Items
    BY <1>1, <1>2, <1>4, <1>5 DEF IInv, NodesFull
  <1>7. itr' \in used \cup {NULL}
    BY <1>1 DEF IInv, TypeOK
  <1>8. Shows(l, itr', n, c, Contents(l), PositionIn(l, itr'))
    BY <1>3, <1>6, <1>7, ShownOnChain
  <1>9. PositionOf(itr)' = PositionIn(l, itr') /\ Contents(list)' = Contents(l)
    BY <1>2 DEF PositionOf, PositionIn, LinksTo
  <1> QED
    BY <1>2, <1>8, <1>9

\* There is room in the sequence as long as malloc can return a block.
LEMMA RoomOnChain ==
  ASSUME IInv, NEW n \in Nat, NEW c, IsChain(list, Places \ free, n, c)
  PROVE  n < Cardinality(Nodes) <=> free # {}
  <1>1. PICK used : used = Places \ free
    OBVIOUS
  <1>2. IsChain(list, used, n, c) /\ used \subseteq Places /\ free \subseteq Places
    BY <1>1 DEF IInv, TypeOK, Places
  <1>3. n <= Cardinality(Nodes) /\ Cardinality(used) = n + 2
    BY <1>2, ChainCounts
  <1>4. /\ IsFiniteSet(Nodes) /\ Cardinality(Nodes) \in Nat
    BY StepsFacts
  <1>5. IsFiniteSet(Places) /\ Cardinality(Places) = Cardinality(Nodes) + 2
    <2>1. /\ IsFiniteSet(Nodes \cup {head})
          /\ Cardinality(Nodes \cup {head}) = Cardinality(Nodes) + 1
      BY <1>4, PointerAssumption, FS_AddElement
    <2>2. PICK most : most = Nodes \cup {head}
      OBVIOUS
    <2>3. tail \notin most /\ Places = most \cup {tail}
      BY <2>2, PointerAssumption DEF Places
    <2>4. /\ IsFiniteSet(most \cup {tail})
          /\ Cardinality(most \cup {tail}) = Cardinality(most) + 1
      BY <2>1, <2>2, <2>3, FS_AddElement
    <2> QED
      BY <1>4, <2>1, <2>2, <2>3, <2>4
  <1>6. Cardinality(used) = Cardinality(Places) => used = Places
    BY <1>2, <1>5, FS_Subset
  <1>7. free = {} <=> used = Places
    BY <1>1, <1>2
  <1> QED
    BY <1>3, <1>4, <1>5, <1>6, <1>7

\* What a step has to be shown to do.
Item(i) == Contents(list)[i]
Place == PositionOf(itr)
ItemsAfter == Contents(list)'
PlaceAfter == PositionOf(itr)'

LEMMA ShownFacts ==
  ASSUME NEW n \in Nat, NEW c, StateShows(n, c)
  PROVE  /\ IsChain(list, Places \ free, n, c)
         /\ Contents(list) \in Seq(Items) /\ Len(Contents(list)) = n
         /\ \A i \in 1 .. n : Item(i) = list.m_data[c[i]]
         /\ Place \in -1 .. n + 1
         /\ Place = -1 <=> itr = NULL
         /\ \A i \in 0 .. n + 1 : Place = i <=> itr = c[i]
  BY DEF StateShows, StateChain, Shows, Item, Place

\* An insertion behind c[j].
LEMMA InsertSimulates ==
  ASSUME IInv, IInv', NEW n \in Nat, NEW c, StateShows(n, c),
         NEW j \in 0 .. n, NEW q \in free, NEW x \in Items,
         Insert(x, c[j], c[j + 1], q), Answer("LIST_SUCCESS"), NEW then,
         \/ itr' = itr /\ then = IF Place >= j + 1 THEN Place + 1 ELSE Place
         \/ itr' = q /\ then = j + 1
  PROVE  Abstract!AddAt(x, j + 1, then)
  <1> DEFINE d == ChainWith(c, n, j, q)
             S == Contents(list)
  <1>1. /\ IsChain(list, Places \ free, n, c)
        /\ S \in Seq(Items) /\ Len(S) = n
        /\ \A i \in 1 .. n : S[i] = list.m_data[c[i]]
        /\ Place \in -1 .. n + 1
        /\ Place = -1 <=> itr = NULL
        /\ \A i \in 0 .. n + 1 : Place = i <=> itr = c[i]
    BY ShownFacts DEF Item
  <1>2. /\ ListOK' /\ IsChain(list', Places \ free', n + 1, d)
        /\ free' = free \ {q}
        /\ list'.m_data = [list.m_data EXCEPT ![q] = x]
    <2>1. ListOK' /\ IsChain(list', Places \ free', n + 1, d) /\ free' = free \ {q}
      BY <1>1, InvIsBoth, InsertKeeps
    <2> QED
      BY <2>1 DEF Insert, Link
  <1>3. /\ \A i \in 0 .. j : d[i] = c[i] /\ i \in 0 .. n + 2
        /\ d[j + 1] = q /\ j + 1 \in 1 .. n + 1
        /\ \A i \in j + 2 .. n + 2 : d[i] = c[i - 1]
    BY DEF ChainWith
  <1> HIDE DEF d
  <1>4. PICK m \in Nat : m = n + 1
    OBVIOUS
  <1>5. Shows(list', itr', m, d, ItemsAfter, PlaceAfter)
    BY <1>2, <1>4, ShownAfter DEF ItemsAfter, PlaceAfter
  <1>6. /\ ItemsAfter \in Seq(Items) /\ Len(ItemsAfter) = n + 1
        /\ \A i \in 1 .. n + 1 : ItemsAfter[i] = list'.m_data[d[i]]
        /\ PlaceAfter \in -1 .. n + 2
        /\ PlaceAfter = -1 <=> itr' = NULL
        /\ \A i \in 0 .. n + 2 : PlaceAfter = i <=> itr' = d[i]
    BY <1>4, <1>5 DEF Shows
  <1>7. /\ DOMAIN list.m_data = Places /\ q \in Places /\ tail \in Places \ free
        /\ \A i \in 0 .. n + 1 : c[i] \in Places \ free
    BY <1>1, InvIsBoth, PlacesInUse DEF ListOK, ListType, Places, IsChain
  <1>8. /\ list'.m_data[q] = x
        /\ \A p \in Places \ free : list'.m_data[p] = list.m_data[p]
    BY <1>2, <1>7
  <1>9. ASSUME NEW i \in 1 .. j
        PROVE  ItemsAfter[i] = S[i]
    <2>1. i \in 0 .. j /\ i \in 1 .. n + 1 /\ i \in 1 .. n /\ i \in 0 .. n + 1
      OBVIOUS
    <2>2. ItemsAfter[i] = list'.m_data[c[i]]
      BY <1>3, <1>6, <2>1
    <2>3. list'.m_data[c[i]] = list.m_data[c[i]]
      BY <1>7, <1>8, <2>1
    <2>4. S[i] = list.m_data[c[i]]
      BY <1>1, <2>1
    <2> QED
      BY <2>2, <2>3, <2>4
  <1>10. ASSUME NEW i \in j + 2 .. n + 1
         PROVE  ItemsAfter[i] = S[i - 1]
    <2>1. i \in j + 2 .. n + 2 /\ i \in 1 .. n + 1 /\ i - 1 \in 1 .. n /\ i - 1 \in 0 .. n + 1
      OBVIOUS
    <2>2. ItemsAfter[i] = list'.m_data[c[i - 1]]
      BY <1>3, <1>6, <2>1
    <2>3. list'.m_data[c[i - 1]] = list.m_data[c[i - 1]]
      BY <1>7, <1>8, <2>1
    <2>4. S[i - 1] = list.m_data[c[i - 1]]
      BY <1>1, <2>1
    <2> QED
      BY <2>2, <2>3, <2>4
  <1>11. ItemsAfter[j + 1] = x
    BY <1>3, <1>6, <1>8
  <1> HIDE DEF S
  <1>12. ItemsAfter = Abstract!InsertAt(S, j + 1, x)
    <2>1. PICK p \in 1 .. Len(S) + 1 : p = j + 1
      BY <1>1
    <2>2. \A i \in 1 .. p - 1 : ItemsAfter[i] = S[i]
      BY <1>9, <2>1
    <2>3. \A i \in p + 1 .. Len(ItemsAfter) : ItemsAfter[i] = S[i - 1]
      BY <1>6, <1>10, <2>1
    <2>4. Len(ItemsAfter) = Len(S) + 1 /\ ItemsAfter[p] = x
      BY <1>1, <1>6, <1>11, <2>1
    <2>5. S \in Seq(Items) /\ ItemsAfter \in Seq(Items)
      BY <1>1, <1>6
    <2>6. ItemsAfter = Abstract!InsertAt(S, p, x)
      BY <2>2, <2>3, <2>4, <2>5, InsertedAt
    <2> QED
      BY <2>1, <2>6
  <1>13. PlaceAfter = then
    <2>1. CASE itr' = q /\ then = j + 1
      <3>1. j + 1 \in 0 .. n + 2
        OBVIOUS
      <3> QED
        BY <1>3, <1>6, <2>1, <3>1
    <2>2. CASE itr' = itr /\ then = IF Place >= j + 1 THEN Place + 1 ELSE Place
      <3>1. CASE Place = -1
        BY <1>1, <1>6, <2>2, <3>1
      <3>2. CASE Place \in 0 .. j
        <4>1. Place \in 0 .. n + 1 /\ Place \in 0 .. n + 2 /\ ~ Place >= j + 1
          BY <3>2
        <4>2. itr = c[Place] /\ d[Place] = c[Place]
          BY <1>1, <1>3, <3>2, <4>1
        <4> QED
          BY <1>6, <2>2, <4>1, <4>2
      <3>3. CASE Place \in j + 1 .. n + 1
        <4>1. /\ Place \in 0 .. n + 1 /\ Place + 1 \in 0 .. n + 2 /\ Place >= j + 1
              /\ Place + 1 \in j + 2 .. n + 2 /\ Place + 1 - 1 = Place
          BY <3>3
        <4>2. itr = c[Place] /\ d[Place + 1] = c[Place]
          BY <1>1, <1>3, <4>1
        <4> QED
          BY <1>6, <2>2, <4>1, <4>2
      <3>4. Place = -1 \/ Place \in 0 .. j \/ Place \in j + 1 .. n + 1
        BY <1>1
      <3> QED
        BY <3>1, <3>2, <3>3, <3>4
    <2> QED
      BY <2>1, <2>2
  <1>14. Len(Contents(list)) < Cardinality(Nodes)
    BY <1>1, RoomOnChain DEF S
  <1> QED
    BY <1>12, <1>13, <1>14
       DEF Abstract!AddAt, Abstract!HasRoom, Abstract!Answer, Abstract!Counts, Answer, Counts,
           ItemsAfter, PlaceAfter, S

\* Node c[a] is freed.
LEMMA FreeSimulates ==
  ASSUME IInv, IInv', NEW n \in Nat, NEW c, StateShows(n, c),
         NEW a \in 1 .. n, Free(c[a]), Answer(list.m_data[c[a]])
  PROVE  Abstract!Without(a)
  <1> DEFINE d == ChainWithout(c, n, a)
             S == Contents(list)
  <1>1. /\ IsChain(list, Places \ free, n, c)
        /\ S \in Seq(Items) /\ Len(S) = n
        /\ \A i \in 1 .. n : S[i] = list.m_data[c[i]]
        /\ Place \in -1 .. n + 1
        /\ Place = -1 <=> itr = NULL
        /\ \A i \in 0 .. n + 1 : Place = i <=> itr = c[i]
    BY ShownFacts DEF Item
  <1>2. /\ ListOK' /\ IsChain(list', Places \ free', n - 1, d)
        /\ free' = free \cup {c[a]}
        /\ list'.m_data = [list.m_data EXCEPT ![c[a]] = NULL]
    <2>1. ListOK' /\ IsChain(list', Places \ free', n - 1, d) /\ free' = free \cup {c[a]}
      BY <1>1, InvIsBoth, FreeKeeps
    <2> QED
      BY <2>1 DEF Free, Unlink
  <1>3. /\ \A i \in 0 .. a - 1 : d[i] = c[i]
        /\ \A i \in a .. n : d[i] = c[i + 1]
    BY DEF ChainWithout
  <1> HIDE DEF d
  <1>4. PICK m \in Nat : m = n - 1
    OBVIOUS
  <1>5. Shows(list', itr', m, d, ItemsAfter, PlaceAfter)
    BY <1>2, <1>4, ShownAfter DEF ItemsAfter, PlaceAfter
  <1>6. /\ ItemsAfter \in Seq(Items) /\ Len(ItemsAfter) = n - 1
        /\ \A i \in 1 .. n - 1 : ItemsAfter[i] = list'.m_data[d[i]]
        /\ PlaceAfter \in -1 .. n
        /\ PlaceAfter = -1 <=> itr' = NULL
        /\ \A i \in 0 .. n : PlaceAfter = i <=> itr' = d[i]
    BY <1>4, <1>5 DEF Shows
  <1>7. /\ DOMAIN list.m_data = Places /\ a \in 0 .. n + 1
        /\ \A i \in 0 .. n + 1 : c[i] \in Places
        /\ \A i, h \in 0 .. n + 1 : c[i] = c[h] => i = h
        /\ c[n + 1] = tail
    BY <1>1, InvIsBoth DEF ListOK, ListType, IsChain
  <1>8. \A i \in 0 .. n + 1 : i # a => list'.m_data[c[i]] = list.m_data[c[i]]
    BY <1>2, <1>7
  <1>9. ASSUME NEW i \in 1 .. a - 1
        PROVE  ItemsAfter[i] = S[i]
    <2>1. i \in 0 .. a - 1 /\ i \in 1 .. n - 1 /\ i \in 1 .. n /\ i \in 0 .. n + 1 /\ i # a
      OBVIOUS
    <2> QED
      BY <1>1, <1>3, <1>6, <1>8, <2>1
  <1>10. ASSUME NEW i \in a .. n - 1
         PROVE  ItemsAfter[i] = S[i + 1]
    <2>1. i \in a .. n /\ i \in 1 .. n - 1 /\ i + 1 \in 1 .. n /\ i + 1 \in 0 .. n + 1 /\ i + 1 # a
      OBVIOUS
    <2>2. ItemsAfter[i] = list'.m_data[c[i + 1]]
      BY <1>3, <1>6, <2>1
    <2>3. list'.m_data[c[i + 1]] = list.m_data[c[i + 1]]
      BY <1>8, <2>1
    <2>4. S[i + 1] = list.m_data[c[i + 1]]
      BY <1>1, <2>1
    <2> QED
      BY <2>2, <2>3, <2>4
  <1> HIDE DEF S
  <1>11. ItemsAfter = Abstract!RemoveAt(S, a)
    <2>1. a \in 1 .. Len(S) /\ Len(ItemsAfter) = Len(S) - 1
      BY <1>1, <1>6
    <2>2. \A i \in a .. Len(ItemsAfter) : ItemsAfter[i] = S[i + 1]
      BY <1>6, <1>10
    <2>3. S \in Seq(Items) /\ ItemsAfter \in Seq(Items)
      BY <1>1, <1>6
    <2> QED
      BY <1>9, <2>1, <2>2, <2>3, RemovedAt
  <1>12. PlaceAfter = IF Place = a THEN -1 ELSE IF Place > a THEN Place - 1 ELSE Place
    <2>1. itr' = IF itr = c[a] THEN NULL ELSE itr
      BY DEF Free
    <2>2. CASE Place = -1
      <3>1. itr' = NULL
        BY <1>1, <2>1, <2>2
      <3> QED
        BY <1>6, <2>2, <3>1
    <2>3. CASE Place = a
      <3>1. itr' = NULL
        BY <1>1, <1>7, <2>1, <2>3
      <3> QED
        BY <1>6, <2>3, <3>1
    <2>4. CASE Place \in 0 .. a - 1
      <3>1. Place \in 0 .. n + 1 /\ Place \in 0 .. n /\ Place # a /\ ~ Place > a
        BY <2>4
      <3>2. itr = c[Place] /\ itr # c[a] /\ d[Place] = c[Place]
        BY <1>1, <1>3, <1>7, <2>4, <3>1
      <3> QED
        BY <1>6, <2>1, <3>1, <3>2
    <2>5. CASE Place \in a + 1 .. n + 1
      <3>1. /\ Place \in 0 .. n + 1 /\ Place - 1 \in 0 .. n /\ Place # a /\ Place > a
            /\ Place - 1 \in a .. n /\ Place - 1 + 1 = Place
        BY <2>5
      <3>2. itr = c[Place] /\ itr # c[a] /\ d[Place - 1] = c[Place]
        BY <1>1, <1>3, <1>7, <3>1
      <3> QED
        BY <1>6, <2>1, <3>1, <3>2
    <2>6. Place = -1 \/ Place = a \/ Place \in 0 .. a - 1 \/ Place \in a + 1 .. n + 1
      BY <1>1
    <2> QED
      BY <2>2, <2>3, <2>4, <2>5, <2>6
  <1>14. list.m_data[c[a]] = S[a]
    BY <1>1
  <1> QED
    BY <1>11, <1>12, <1>14
       DEF Abstract!Without, Abstract!NoPosition, Abstract!Answer, Abstract!Counts, Answer, Counts,
           ItemsAfter, Place, PlaceAfter, S

\* A call that touches neither the list nor the iterator.
LEMMA NothingTouched ==
  ASSUME UNCHANGED <<list, itr>>
  PROVE  /\ Contents(list)' = Contents(list) /\ PositionOf(itr)' = PositionOf(itr)
  BY DEF PositionOf

\* A call that goes through NULL has done nothing to the list.
LEMMA DiesSimulates ==
  ASSUME Dies
  PROVE  /\ Abstract!Open /\ PositionOf(itr)' = PositionOf(itr)
  BY NothingTouched DEF Dies, Abstract!Open

\* Before the first item a call leaves the items alone.
LEMMA AstraySimulates ==
  ASSUME UNCHANGED list, Place = 0, PlaceAfter \in {0, 1}, status' \in {"live", "crashed"}
  PROVE  Abstract!Astray
  BY NothingTouched DEF Abstract!Astray, Abstract!Open, Place, PlaceAfter

\* The iterator goes to c[h].
LEMMA GotoSimulates ==
  ASSUME IInv, IInv', NEW n \in Nat, NEW c, StateShows(n, c), NEW h \in 0 .. n + 1,
         NEW q, q = c[h], Goto(q)
  PROVE  Abstract!MoveTo(h)
  <1>1. /\ list' = list /\ free' = free /\ itr' = c[h] /\ Answer(NULL)
    BY DEF Goto
  <1>2. IsChain(list', Places \ free', n, c)
    BY <1>1, ShownFacts
  <1>3. Shows(list', itr', n, c, ItemsAfter, PlaceAfter)
    BY <1>2, ShownAfter DEF ItemsAfter, PlaceAfter
  <1>4. PlaceAfter = h
    BY <1>1, <1>3 DEF Shows
  <1>5. Contents(list)' = Contents(list)
    BY <1>1
  <1> QED
    BY <1>1, <1>4, <1>5
       DEF Abstract!MoveTo, Abstract!Answer, Abstract!Counts, Answer, Counts, PlaceAfter

LEMMA MovesSimulate ==
  ASSUME IInv, IInv', status = "live", Begin \/ End \/ NextPlace \/ PrevPlace
  PROVE  Abstract!Move \/ Abstract!Astray
  <1>0. PICK n \in Nat : \E c : StateShows(n, c)
    BY ShownInState
  <1>1. PICK c : StateShows(n, c)
    BY <1>0
  <1>2. /\ IsChain(list, Places \ free, n, c)
        /\ Contents(list) \in Seq(Items) /\ Len(Contents(list)) = n
        /\ Place \in -1 .. n + 1
        /\ Place = -1 <=> itr = NULL
        /\ \A i \in 0 .. n + 1 : Place = i <=> itr = c[i]
    BY <1>1, ShownFacts
  <1>3. /\ c[0] = head /\ c[n + 1] = tail
        /\ \A i, h \in 0 .. n + 1 : c[i] = c[h] => i = h
        /\ \A i \in 0 .. n : list.m_next[c[i]] = c[i + 1] /\ list.m_prev[c[i + 1]] = c[i]
        /\ list.m_next[tail] = tail /\ list.m_prev[head] = NULL
        /\ head # NULL
    BY <1>2, PointerAssumption DEF IsChain
  <1>4. Abstract!End = n + 1
    BY <1>2 DEF Abstract!End
  <1>5. CASE Begin
    <2>1. 1 \in 0 .. n + 1 /\ 0 \in 0 .. n /\ 0 + 1 = 1
      OBVIOUS
    <2>2. ListItr_Begin(list) = c[1]
      BY <1>3, <2>1 DEF ListItr_Begin
    <2>3. Abstract!MoveTo(1)
      BY <1>1, <1>5, <2>1, <2>2, GotoSimulates DEF Begin
    <2> QED
      BY <2>3 DEF Abstract!Move
  <1>6. CASE End
    <2>1. PICK e \in 0 .. n + 1 : e = n + 1
      OBVIOUS
    <2>2. ListItr_End(list) = c[e]
      BY <1>3, <2>1 DEF ListItr_End
    <2>3. Abstract!MoveTo(e)
      BY <1>1, <1>6, <2>2, GotoSimulates DEF End
    <2> QED
      BY <1>4, <2>1, <2>3 DEF Abstract!Move
  <1>7. CASE NextPlace
    <2>1. Place \in 0 .. n + 1 /\ itr = c[Place]
      BY <1>2, <1>7 DEF NextPlace
    <2>2. PICK e \in 0 .. n + 1 : e = Abstract!Next(Place)
      BY <1>4, <2>1 DEF Abstract!Next
    <2>3. ListItr_Next(list, itr) = c[e]
      <3>1. CASE Place = n + 1
        BY <1>3, <1>4, <2>1, <2>2, <3>1 DEF Abstract!Next, ListItr_Next
      <3>2. CASE Place \in 0 .. n
        <4>1. e = Place + 1
          BY <1>4, <2>2, <3>2 DEF Abstract!Next
        <4> QED
          BY <1>3, <2>1, <3>2, <4>1 DEF ListItr_Next
      <3> QED
        BY <2>1, <3>1, <3>2
    <2>4. Abstract!MoveTo(e)
      BY <1>1, <1>7, <2>3, GotoSimulates DEF NextPlace
    <2>5. CASE Place = 0
      <3>1. Abstract!Next(Place) = 1
        BY <1>4, <2>5 DEF Abstract!Next
      <3>2. PlaceAfter = 1 /\ list' = list /\ status' = "live"
        BY <1>7, <2>2, <2>4, <3>1
           DEF NextPlace, Goto, Answer, Counts, Abstract!MoveTo, PlaceAfter
      <3> QED
        BY <2>5, <3>2, AstraySimulates
    <2>6. CASE Place > 0
      BY <2>2, <2>4, <2>6 DEF Abstract!Move, Place
    <2> QED
      BY <2>1, <2>5, <2>6
  <1>8. CASE PrevPlace
    <2>1. CASE itr \notin {NULL, head} /\ Goto(ListItr_Prev(list, itr))
      <3>1. Place \in 1 .. n + 1 /\ Place \in 0 .. n + 1 /\ itr = c[Place]
        <4>1. 0 \in 0 .. n + 1
          OBVIOUS
        <4>2. Place # 0 /\ Place # -1
          BY <1>2, <1>3, <2>1, <4>1
        <4>3. Place \in 0 .. n + 1 /\ Place \in 1 .. n + 1
          BY <1>2, <4>2
        <4> QED
          BY <1>2, <4>3
      <3>2. PICK e \in 0 .. n + 1 : e = Place - 1
        BY <3>1
      <3>3. list.m_prev[itr] = c[e]
        <4>1. e \in 0 .. n /\ e + 1 = Place
          BY <3>1, <3>2
        <4> QED
          BY <1>3, <3>1, <4>1
      <3>4. list.m_prev[c[e]] # c[e]
        <4>1. CASE e = 0
          BY <1>3, <4>1
        <4>2. CASE e # 0
          <5>1. e - 1 \in 0 .. n /\ e - 1 + 1 = e /\ e - 1 \in 0 .. n + 1 /\ e - 1 # e
            BY <4>2
          <5>2. list.m_prev[c[e]] = c[e - 1] /\ c[e - 1] # c[e]
            BY <1>3, <5>1
          <5> QED
            BY <5>2
        <4> QED
          BY <4>1, <4>2
      <3>5. ListItr_Prev(list, itr) = c[e]
        BY <3>3, <3>4 DEF ListItr_Prev
      <3>6. Abstract!MoveTo(e)
        BY <1>1, <2>1, <3>5, GotoSimulates
      <3>7. CASE Place = 1
        <4>1. e \in 0 .. 1
          BY <3>2, <3>7
        <4> QED
          BY <3>6, <3>7, <4>1 DEF Abstract!Move, Place
      <3>8. CASE Place > 1
        BY <3>2, <3>6, <3>8 DEF Abstract!Move, Place
      <3> QED
        BY <3>1, <3>7, <3>8
    <2>2. CASE itr = head /\ Dies
      <3>1. 0 \in 0 .. n + 1 /\ itr = c[0]
        BY <1>3, <2>2
      <3>2. Place = 0
        BY <1>2, <3>1
      <3>3. PlaceAfter = 0
        BY <2>2, <3>2, DiesSimulates DEF Place, PlaceAfter
      <3> QED
        BY <2>2, <3>2, <3>3, AstraySimulates DEF Dies
    <2> QED
      BY <1>8, <2>1, <2>2 DEF PrevPlace
  <1> QED
    BY <1>5, <1>6, <1>7, <1>8

LEMMA InsertionsSimulate ==
  ASSUME IInv, IInv', status = "live", NEW x \in Items,
         List_PushHead(x) \/ List_PushTail(x) \/ ListItr_InsertBefore(x)
  PROVE  \/ Abstract!PushHead(x) \/ Abstract!PushTail(x) \/ Abstract!InsertBefore(x)
         \/ Abstract!Astray
  <1>0. PICK n \in Nat : \E c : StateShows(n, c)
    BY ShownInState
  <1>1. PICK c : StateShows(n, c)
    BY <1>0
  <1>2. /\ IsChain(list, Places \ free, n, c)
        /\ Contents(list) \in Seq(Items) /\ Len(Contents(list)) = n
        /\ Place \in -1 .. n + 1
        /\ Place = -1 <=> itr = NULL
        /\ \A i \in 0 .. n + 1 : Place = i <=> itr = c[i]
    BY <1>1, ShownFacts
  <1>3. /\ c[0] = head /\ c[n + 1] = tail
        /\ \A i \in 0 .. n : list.m_next[c[i]] = c[i + 1] /\ list.m_prev[c[i + 1]] = c[i]
        /\ head # NULL
    BY <1>2, PointerAssumption DEF IsChain
  <1>4. Abstract!HasRoom <=> free # {}
    BY <1>2, RoomOnChain DEF Abstract!HasRoom
  <1>5. 0 \in 0 .. n /\ n \in 0 .. n /\ 0 + 1 = 1 /\ 0 \in 0 .. n + 1
    OBVIOUS
  <1>6. CASE List_PushHead(x)
    <2>1. CASE \E q \in free : Insert(x, head, list.m_next[head], q) /\ Answer("LIST_SUCCESS")
      <3>1. PICK q \in free : Insert(x, c[0], c[0 + 1], q) /\ Answer("LIST_SUCCESS")
        BY <1>3, <1>5, <2>1
      <3>2. itr' = itr
        BY <1>6 DEF List_PushHead
      <3>3. PICK then : then = IF Place >= 0 + 1 THEN Place + 1 ELSE Place
        OBVIOUS
      <3>4. Abstract!AddAt(x, 0 + 1, then)
        BY <1>1, <1>5, <3>1, <3>2, <3>3, InsertSimulates
      <3>5. then = Abstract!Behind(1)
        BY <1>5, <3>3 DEF Abstract!Behind, Place
      <3> QED
        BY <1>5, <3>4, <3>5 DEF Abstract!PushHead
    <2>2. CASE free = {} /\ Answer("LIST_ALLOCATION_ERROR") /\ UNCHANGED <<list, free, itr>>
      BY <1>4, <2>2, NothingTouched
         DEF Abstract!PushHead, Abstract!Refused, Abstract!Answer, Abstract!Counts, Answer, Counts
    <2> QED
      BY <1>6, <2>1, <2>2 DEF List_PushHead
  <1>7. CASE List_PushTail(x)
    <2>1. CASE \E q \in free : /\ Insert(x, list.m_prev[tail], tail, q)
                               /\ Answer("LIST_SUCCESS") /\ UNCHANGED itr
      <3>0. list.m_prev[tail] = c[n] /\ tail = c[n + 1]
        BY <1>3, <1>5
      <3>1. PICK q \in free :
              Insert(x, c[n], c[n + 1], q) /\ Answer("LIST_SUCCESS") /\ itr' = itr
        BY <2>1, <3>0
      <3>3. PICK then : then = IF Place >= n + 1 THEN Place + 1 ELSE Place
        OBVIOUS
      <3>4. Abstract!AddAt(x, n + 1, then)
        BY <1>1, <1>5, <3>1, <3>3, InsertSimulates
      <3>5. Abstract!End = n + 1
        BY <1>2 DEF Abstract!End
      <3>6. then = Abstract!Behind(n + 1)
        BY <3>3 DEF Abstract!Behind, Place
      <3> QED
        BY <3>4, <3>5, <3>6 DEF Abstract!PushTail
    <2>2. CASE free = {} /\ Dies
      BY <1>4, <2>2, DiesSimulates DEF Abstract!PushTail
    <2> QED
      BY <1>7, <2>1, <2>2 DEF List_PushTail
  <1>8. CASE ListItr_InsertBefore(x)
    <2>1. CASE /\ itr \notin {NULL, head}
               /\ \E q \in free : Insert(x, list.m_prev[itr], itr, q) /\ itr' = q
               /\ Answer("LIST_SUCCESS")
      <3>1. Place # 0 /\ Place # -1
        BY <1>2, <1>3, <1>5, <2>1
      <3>2. Place \in 0 .. n + 1 /\ Place > 0
        BY <1>2, <3>1
      <3>3. PICK j \in 0 .. n : j = Place - 1 /\ j + 1 = Place
        BY <1>2, <3>2
      <3>4. itr = c[j + 1] /\ list.m_prev[itr] = c[j]
        BY <1>2, <1>3, <3>2, <3>3
      <3>5. PICK q \in free : Insert(x, c[j], c[j + 1], q) /\ itr' = q /\ Answer("LIST_SUCCESS")
        BY <2>1, <3>4
      <3>6. PICK then : then = j + 1
        OBVIOUS
      <3>7. Abstract!AddAt(x, j + 1, then)
        BY <1>1, <3>5, <3>6, InsertSimulates
      <3> QED
        BY <3>2, <3>3, <3>6, <3>7 DEF Abstract!InsertBefore, Place
    <2>2. CASE itr = head /\ Dies
      <3>1. Place = 0
        BY <1>2, <1>3, <1>5, <2>2
      <3>2. PlaceAfter = 0
        BY <2>2, <3>1, DiesSimulates DEF Place, PlaceAfter
      <3> QED
        BY <2>2, <3>1, <3>2, AstraySimulates DEF Dies
    <2>3. CASE itr # NULL /\ free = {} /\ Answer(NULL) /\ UNCHANGED <<list, free, itr>>
      <3>1. Place = 0 \/ Place > 0
        BY <1>2, <2>3
      <3>2. Abstract!Refused(NULL)
        BY <1>4, <2>3, NothingTouched
           DEF Abstract!Refused, Abstract!Answer, Abstract!Counts, Answer, Counts
      <3>3. CASE Place = 0
        <4>1. PlaceAfter = 0 /\ status' = "live"
          BY <2>3, <3>3, NothingTouched DEF Place, PlaceAfter, Answer, Counts
        <4> QED
          BY <2>3, <3>3, <4>1, AstraySimulates
      <3>4. CASE Place > 0
        BY <3>2, <3>4 DEF Abstract!InsertBefore, Place
      <3> QED
        BY <3>1, <3>3, <3>4
    <2> QED
      BY <1>8, <2>1, <2>2, <2>3 DEF ListItr_InsertBefore
  <1> QED
    BY <1>6, <1>7, <1>8

LEMMA RemovalsSimulate ==
  ASSUME IInv, IInv', List_PopHead \/ List_PopTail \/ ListItr_Remove
  PROVE  \/ Abstract!Pop(1) \/ Abstract!Pop(Len(Contents(list))) \/ Abstract!RemoveItem
         \/ Abstract!Astray
  <1>0. PICK n \in Nat : \E c : StateShows(n, c)
    BY ShownInState
  <1>1. PICK c : StateShows(n, c)
    BY <1>0
  <1>2. /\ IsChain(list, Places \ free, n, c)
        /\ Contents(list) \in Seq(Items) /\ Len(Contents(list)) = n
        /\ Place \in -1 .. n + 1
        /\ Place = -1 <=> itr = NULL
        /\ \A i \in 0 .. n + 1 : Place = i <=> itr = c[i]
    BY <1>1, ShownFacts
  <1>3. /\ list.m_next[head] = c[1] /\ list.m_prev[tail] = c[n]
        /\ c[0] = head /\ c[n + 1] = tail
        /\ Empty <=> n = 0
    BY <1>1 DEF StateShows, StateChain
  <1>4. /\ Contents(list) = << >> <=> n = 0
        /\ 0 \in 0 .. n + 1 /\ n + 1 \in 0 .. n + 1 /\ n # 0 => 1 \in 1 .. n /\ n \in 1 .. n
    BY <1>2
  <1>5. ASSUME NEW a \in Nat, n # 0 => a \in 1 .. n, Pop(c[a])
        PROVE  Abstract!Pop(a)
    <2>1. CASE ~Empty /\ Free(c[a]) /\ Answer(list.m_data[c[a]])
      <3>1. Abstract!Without(a)
        BY <1>1, <1>3, <1>5, <2>1, FreeSimulates
      <3> QED
        BY <1>3, <1>4, <2>1, <3>1 DEF Abstract!Pop
    <2>2. CASE Empty /\ Answer("LIST_IS_EMPTY") /\ UNCHANGED <<list, free, itr>>
      BY <1>3, <1>4, <2>2, NothingTouched
         DEF Abstract!Pop, Abstract!Answer, Abstract!Counts, Answer, Counts
    <2> QED
      BY <1>5, <2>1, <2>2 DEF Pop
  <1>6. CASE List_PopHead
    <2>1. Pop(c[1])
      BY <1>3, <1>6 DEF List_PopHead
    <2> QED
      BY <1>4, <1>5, <2>1
  <1>7. CASE List_PopTail
    <2>1. Pop(c[n])
      BY <1>3, <1>7 DEF List_PopTail
    <2> QED
      BY <1>2, <1>4, <1>5, <2>1
  <1>8. CASE ListItr_Remove
    <2>1. CASE itr \in Nodes /\ Free(itr) /\ Answer(list.m_data[itr])
      <3>1. itr # head /\ itr # tail /\ itr # NULL
        BY <2>1, PointerAssumption
      <3>2. Place # 0 /\ Place # n + 1 /\ Place # -1
        BY <1>2, <1>3, <1>4, <3>1
      <3>3. Place \in 1 .. n /\ Place \in 0 .. n + 1
        BY <1>2, <3>2
      <3>4. PICK a \in 1 .. n : a = Place /\ itr = c[a]
        BY <1>2, <3>3
      <3>5. Free(c[a]) /\ Answer(list.m_data[c[a]])
        BY <2>1, <3>4
      <3>6. Abstract!Without(a)
        BY <1>1, <3>5, FreeSimulates
      <3>7. Abstract!IsItem(Place)
        BY <1>2, <3>3 DEF Abstract!IsItem
      <3> QED
        BY <3>4, <3>6, <3>7 DEF Abstract!RemoveItem, Place
    <2>2. CASE itr = tail /\ Answer(NULL) /\ UNCHANGED <<list, free, itr>>
      <3>1. Place = n + 1
        BY <1>2, <1>3, <1>4, <2>2
      <3>2. Abstract!End = n + 1
        BY <1>2 DEF Abstract!End
      <3> QED
        BY <2>2, <3>1, <3>2, NothingTouched
           DEF Abstract!RemoveItem, Abstract!Answer, Abstract!Counts, Answer, Counts, Place
    <2>3. CASE itr = head /\ Dies
      <3>1. Place = 0
        BY <1>2, <1>3, <1>4, <2>3
      <3>2. PlaceAfter = 0
        BY <2>3, <3>1, DiesSimulates DEF Place, PlaceAfter
      <3> QED
        BY <2>3, <3>1, <3>2, AstraySimulates DEF Dies
    <2> QED
      BY <1>8, <2>1, <2>2, <2>3 DEF ListItr_Remove
  <1> QED
    BY <1>6, <1>7, <1>8

LEMMA ReadingsSimulate ==
  ASSUME IInv, status = "live", Get \/ Size
  PROVE  Abstract!Get \/ Abstract!Size \/ Abstract!Astray
  <1>0. PICK n \in Nat : \E c : StateShows(n, c)
    BY ShownInState
  <1>1. PICK c : StateShows(n, c)
    BY <1>0
  <1>2. /\ IsChain(list, Places \ free, n, c)
        /\ Contents(list) \in Seq(Items) /\ Len(Contents(list)) = n
        /\ \A i \in 1 .. n : Item(i) = list.m_data[c[i]]
        /\ Place \in -1 .. n + 1
        /\ Place = -1 <=> itr = NULL
        /\ \A i \in 0 .. n + 1 : Place = i <=> itr = c[i]
    BY <1>1, ShownFacts
  <1>3. /\ c[n + 1] = tail /\ list.m_next[tail] = tail
        /\ \A i, h \in 0 .. n + 1 : c[i] = c[h] => i = h
        /\ \A i \in 0 .. n : list.m_next[c[i]] = c[i + 1]
    BY <1>2 DEF IsChain
  <1>4. CASE Get
    <2>1. Place \in 0 .. n + 1 /\ itr = c[Place] /\ Place # -1
      BY <1>2, <1>4 DEF Get
    <2> DEFINE r == ListItr_Get(list, itr)
    <2>3. Place \in 1 .. n => r = Item(Place)
      <3> SUFFICES ASSUME Place \in 1 .. n
                   PROVE  r = Item(Place)
        OBVIOUS
      <3>1. Place \in 0 .. n /\ Place + 1 \in 0 .. n + 1 /\ Place + 1 # Place
        OBVIOUS
      <3>2. list.m_next[itr] # itr
        BY <1>3, <2>1, <3>1
      <3> QED
        BY <1>2, <2>1, <3>2 DEF ListItr_Get
    <2>4. Place = n + 1 => r = NULL
      BY <1>3, <2>1 DEF ListItr_Get
    <2>5. Answer(r) /\ UNCHANGED <<list, free, itr>>
      BY <1>4 DEF Get
    <2> HIDE DEF r
    <2>6. CASE Place = 0
      <3>1. PlaceAfter = 0 /\ status' = "live" /\ list' = list
        BY <2>5, <2>6, NothingTouched DEF Place, PlaceAfter, Answer, Counts
      <3> QED
        BY <2>6, <3>1, AstraySimulates
    <2>7. CASE Place > 0
      <3>1. r = IF Abstract!IsItem(Place) THEN Contents(list)[Place] ELSE NULL
        BY <1>2, <2>1, <2>3, <2>4, <2>7 DEF Abstract!IsItem, Item
      <3> QED
        BY <2>5, <2>7, <3>1, NothingTouched
           DEF Abstract!Get, Abstract!Answer, Abstract!Counts, Answer, Counts, Place
    <2> QED
      BY <2>1, <2>6, <2>7
  <1>5. CASE Size
    <2>1. List_Size(list) = n
      <3>1. Places \ free \subseteq Places
        OBVIOUS
      <3> QED
        BY <1>2, <3>1, ReadsOnChain
    <2> QED
      BY <1>2, <1>5, <2>1, NothingTouched
         DEF Size, Abstract!Size, Abstract!Unmoved, Abstract!Counts, Counts
  <1> QED
    BY <1>4, <1>5

LEMMA SetSimulates ==
  ASSUME IInv, IInv', status = "live", NEW x \in Items, Set(x)
  PROVE  Abstract!Set(x) \/ Abstract!Astray
  <1>0. PICK n \in Nat : \E c : StateShows(n, c)
    BY ShownInState
  <1>1. PICK c : StateShows(n, c)
    BY <1>0
  <1>2. /\ IsChain(list, Places \ free, n, c)
        /\ Contents(list) \in Seq(Items) /\ Len(Contents(list)) = n
        /\ \A i \in 1 .. n : Item(i) = list.m_data[c[i]]
        /\ Place \in -1 .. n + 1
        /\ Place = -1 <=> itr = NULL
        /\ \A i \in 0 .. n + 1 : Place = i <=> itr = c[i]
    BY <1>1, ShownFacts
  <1>3. Place \in 0 .. n + 1 /\ itr = c[Place] /\ Place # -1
    BY <1>2 DEF Set
  <1>4. /\ list' = [list EXCEPT !.m_data[itr] = x]
        /\ Answer(list.m_data[itr]) /\ UNCHANGED <<free, itr>>
    BY PointerAssumption DEF Set, ListItr_Set
  <1>5. /\ list'.m_next = list.m_next /\ list'.m_prev = list.m_prev
        /\ list'.m_data = [list.m_data EXCEPT ![itr] = x]
    BY <1>4, InvIsBoth DEF ListOK, ListType
  <1>6. /\ DOMAIN list.m_data = Places /\ list.m_data \in [Places -> Items \cup {NULL}]
        /\ \A i \in 0 .. n + 1 : c[i] \in Places
        /\ \A i, h \in 0 .. n + 1 : c[i] = c[h] => i = h
        /\ c[n + 1] = tail /\ n + 1 \in 0 .. n + 1
    BY <1>2, InvIsBoth DEF ListOK, ListType, IsChain
  <1>7. IsChain(list', Places \ free', n, c)
    BY <1>2, <1>4, <1>5, SameLinks
  <1>8. Shows(list', itr', n, c, ItemsAfter, PlaceAfter)
    BY <1>7, ShownAfter DEF ItemsAfter, PlaceAfter
  <1>9. PlaceAfter = Place
    BY <1>3, <1>4, <1>8 DEF Shows
  <1>10. /\ ItemsAfter \in Seq(Items) /\ Len(ItemsAfter) = n
         /\ \A i \in 1 .. n : ItemsAfter[i] = list'.m_data[c[i]]
    BY <1>8 DEF Shows
  <1>11. ASSUME NEW i \in 1 .. n
         PROVE  ItemsAfter[i] = IF i = Place THEN x ELSE Item(i)
    <2>1. i \in 0 .. n + 1
      OBVIOUS
    <2>2. ItemsAfter[i] = list'.m_data[c[i]] /\ Item(i) = list.m_data[c[i]]
      BY <1>2, <1>10
    <2>3. c[i] = itr <=> i = Place
      BY <1>3, <1>6, <2>1
    <2> QED
      BY <1>5, <1>6, <2>1, <2>2, <2>3
  <1>12. ItemsAfter = IF Place \in 1 .. n THEN [Contents(list) EXCEPT ![Place] = x]
                      ELSE Contents(list)
    <2>1. CASE Place \in 1 .. n
      <3> DEFINE t == [Contents(list) EXCEPT ![Place] = x]
      <3>1. t \in Seq(Items) /\ Len(t) = n
        <4>1. Place \in 1 .. Len(Contents(list))
          BY <1>2, <2>1
        <4> QED
          BY <1>2, <4>1, ExceptSeq
      <3>2. \A i \in 1 .. n : t[i] = IF i = Place THEN x ELSE Item(i)
        BY <1>2, <2>1 DEF Item
      <3> HIDE DEF t
      <3>3. ItemsAfter = t
        BY <1>10, <1>11, <3>1, <3>2, SameSequence
      <3> QED
        BY <2>1, <3>3 DEF t
    <2>2. CASE Place \notin 1 .. n
      <3>1. \A i \in 1 .. n : ItemsAfter[i] = Contents(list)[i]
        BY <1>11, <2>2 DEF Item
      <3>2. ItemsAfter = Contents(list)
        BY <1>2, <1>10, <3>1, SameSequence
      <3> QED
        BY <2>2, <3>2
    <2> QED
      BY <2>1, <2>2
  <1>14. /\ list.m_data[itr] \in Items \cup {NULL}
         /\ Place \in 1 .. n => list.m_data[itr] = Item(Place)
    BY <1>2, <1>3, <1>6
  <1>15. CASE Place = 0
    <2>1. ItemsAfter = Contents(list) /\ PlaceAfter = 0
      BY <1>9, <1>12, <1>15
    <2> QED
      BY <1>4, <1>15, <2>1
         DEF Abstract!Astray, Abstract!Open, Answer, Counts, ItemsAfter, PlaceAfter, Place
  <1>16. CASE Place > 0
    BY <1>2, <1>3, <1>4, <1>9, <1>12, <1>14, <1>16
       DEF Abstract!Set, Abstract!IsItem, Abstract!Counts,
           Answer, Counts, ItemsAfter, PlaceAfter, Place, Item
  <1> QED
    BY <1>3, <1>15, <1>16

\* A loop stops at a node of the list or at its end.
LEMMA LoopSimulates ==
  ASSUME IInv, IInv', NEW stopping,
         Goto(FirstStop(list, ListItr_Begin(list), ListItr_End(list), stopping))
  PROVE  Abstract!Loop
  <1>0. PICK n \in Nat : \E c : StateShows(n, c)
    BY ShownInState
  <1>1. PICK c : StateShows(n, c)
    BY <1>0
  <1>2. PICK used : used = Places \ free
    OBVIOUS
  <1>3. /\ IsChain(list, used, n, c) /\ used \subseteq Places
        /\ Len(Contents(list)) = n /\ list \in ListType
    BY <1>1, <1>2, ShownFacts, InvIsBoth DEF ListOK
  <1>4. /\ c[0] = head /\ c[n + 1] = tail
        /\ \A i \in 0 .. n : list.m_next[c[i]] = c[i + 1]
        /\ list.m_next[tail] = tail
        /\ 1 \in 0 .. n + 1 /\ n + 1 \in 1 .. n + 1 /\ 0 \in 0 .. n /\ 0 + 1 = 1
    BY <1>3 DEF IsChain
  <1>5. ListItr_Begin(list) = c[1] /\ ListItr_End(list) = c[n + 1]
    BY <1>4 DEF ListItr_Begin, ListItr_End
  <1>6. PICK m \in 1 .. n + 1 : LoopEnds(list, c, 1, n + 1, m)
    BY <1>3, <1>4, VisitedOnChain
  <1> DEFINE range == Visited(list, c[1], c[n + 1])
             at == {i \in DOMAIN range : ListItr_Get(list, range[i]) \in stopping}
  <1>7. /\ DOMAIN range = 1 .. m - 1
        /\ \A i \in 1 .. m - 1 : range[i] = c[i]
    <2>1. range = [i \in 1 .. m - 1 |-> c[i + 1 - 1]]
      BY <1>6 DEF LoopEnds, Between
    <2>2. \A i \in 1 .. m - 1 : i + 1 - 1 = i
      OBVIOUS
    <2> HIDE DEF range
    <2> QED
      BY <2>1, <2>2
  <1>8. FirstStop(list, c[1], c[n + 1], stopping) = IF at = {} THEN c[n + 1] ELSE range[Min(at)]
    BY DEF FirstStop
  <1> HIDE DEF range
  <1>9. at \subseteq 1 .. m - 1
    BY <1>7
  <1> HIDE DEF at
  <1>10. \E g \in 1 .. n + 1 : FirstStop(list, c[1], c[n + 1], stopping) = c[g]
    <2>1. CASE at = {}
      BY <1>4, <1>8, <2>1
    <2>2. CASE at # {}
      <3>1. at \subseteq Nat
        BY <1>9
      <3>2. PICK f \in at : \A h \in at : f <= h
        BY <2>2, <3>1, LeastNumber
      <3>3. Min(at) \in at
        BY <3>2 DEF Min
      <3>4. Min(at) \in 1 .. m - 1 /\ Min(at) \in 1 .. n + 1
        <4>1. Min(at) \in 1 .. m - 1
          BY <1>9, <3>3
        <4> QED
          BY <4>1
      <3> QED
        BY <1>7, <1>8, <2>2, <3>4
    <2> QED
      BY <2>1, <2>2
  <1>11. PICK g \in 1 .. n + 1 : FirstStop(list, c[1], c[n + 1], stopping) = c[g]
    BY <1>10
  <1>12. g \in 0 .. n + 1 /\ g \in 1 .. Abstract!End
    BY <1>3 DEF Abstract!End
  <1>13. PICK q : q = c[g]
    OBVIOUS
  <1>14. Goto(q)
    BY <1>5, <1>11, <1>13
  <1>15. Abstract!MoveTo(g)
    BY <1>1, <1>12, <1>13, <1>14, GotoSimulates
  <1> QED
    BY <1>12, <1>15 DEF Abstract!Loop

LEMMA FindsSimulate ==
  ASSUME IInv, IInv', NEW predicate \in SUBSET Items,
         FindFirst(predicate) \/ ForEach(predicate)
  PROVE  Abstract!Loop
  <1>1. CASE FindFirst(predicate)
    BY <1>1, LoopSimulates DEF FindFirst, ListItr_FindFirst
  <1>2. CASE ForEach(predicate)
    BY <1>2, LoopSimulates DEF ForEach, ListItr_ForEach
  <1> QED
    BY <1>1, <1>2

LEMMA CountSimulates ==
  ASSUME IInv, NEW predicate \in SUBSET Items, CountIf(predicate)
  PROVE  Abstract!Count
  <1>0. PICK n \in Nat : \E c : StateShows(n, c)
    BY ShownInState
  <1>1. PICK c : StateShows(n, c)
    BY <1>0
  <1>2. IsChain(list, Places \ free, n, c) /\ Len(Contents(list)) = n
    BY <1>1, ShownFacts
  <1>3. /\ c[0] = head /\ c[n + 1] = tail /\ list.m_next[tail] = tail
        /\ \A i \in 0 .. n : list.m_next[c[i]] = c[i + 1]
        /\ 0 \in 0 .. n /\ 0 + 1 = 1
    BY <1>2 DEF IsChain
  <1>4. ListItr_Begin(list) = c[1] /\ ListItr_End(list) = tail
    BY <1>3 DEF ListItr_Begin, ListItr_End
  <1> DEFINE k == ListItr_CountIf(list, ListItr_Begin(list), ListItr_End(list), predicate)
  <1>5. k \in 0 .. n
    <2>1. CASE n = 0
      BY <1>3, <1>4, <2>1 DEF ListItr_CountIf, ListItr_Equals
    <2>2. CASE n # 0
      <3>1. k \in {0, 1}
        BY DEF ListItr_CountIf
      <3> QED
        BY <2>2, <3>1
    <2> QED
      BY <2>1, <2>2
  <1>6. Counts(k) /\ UNCHANGED <<list, free, itr, reply>>
    BY DEF CountIf
  <1> HIDE DEF k
  <1> QED
    BY <1>2, <1>5, <1>6, NothingTouched
       DEF Counts, Abstract!Count, Abstract!Counts, Abstract!Unmoved

\* The items come in the order f.
LEMMA OrderSimulates ==
  ASSUME IInv, IInv', NEW n \in Nat, NEW c, StateShows(n, c),
         NEW d, IsChain(list', Places \ free', n, d),
         NEW f \in Orders(n), \A i \in 1 .. n : list'.m_data[d[i]] = list.m_data[c[f[i]]],
         UNCHANGED <<reply, count, status>>
  PROVE  Abstract!Rearrange
  <1>1. /\ Contents(list) \in Seq(Items) /\ Len(Contents(list)) = n
        /\ \A i \in 1 .. n : Item(i) = list.m_data[c[i]]
    BY ShownFacts
  <1>2. Shows(list', itr', n, d, ItemsAfter, PlaceAfter)
    BY ShownAfter DEF ItemsAfter, PlaceAfter
  <1>3. /\ ItemsAfter \in Seq(Items) /\ Len(ItemsAfter) = n
        /\ \A i \in 1 .. n : ItemsAfter[i] = list'.m_data[d[i]]
        /\ PlaceAfter \in -1 .. n + 1
    BY <1>2 DEF Shows
  <1>4. f \in [1 .. n -> 1 .. n] /\ \A i \in 1 .. n : f[i] \in 1 .. n
    BY OrderFacts
  <1>5. \A i \in 1 .. n : ItemsAfter[i] = Contents(list)[f[i]]
    BY <1>1, <1>3, <1>4 DEF Item
  <1>6. DOMAIN Contents(list) = 1 .. n /\ DOMAIN ItemsAfter = 1 .. n
    BY <1>1, <1>3
  <1>7. ItemsAfter = [i \in 1 .. n |-> Contents(list)[f[i]]]
    <2>1. ItemsAfter = [i \in 1 .. n |-> ItemsAfter[i]]
      BY <1>3, <1>6
    <2> QED
      BY <1>5, <2>1
  <1>8. f \in Abstract!Bijection(1 .. n, 1 .. n)
    BY DEF Orders, Bijection, Injection, IsInjective, Surjection,
           Abstract!Bijection, Abstract!Injection, Abstract!IsInjective, Abstract!Surjection
  <1>9. PlaceAfter \in 0 .. Abstract!End \cup {Abstract!NoPosition}
    BY <1>1, <1>3 DEF Abstract!End, Abstract!NoPosition
  <1>11. \E from \in Abstract!Bijection(DOMAIN Contents(list), DOMAIN Contents(list)) :
           ItemsAfter = [i \in DOMAIN Contents(list) |-> Contents(list)[from[i]]]
    BY <1>6, <1>7, <1>8
  <1> QED
    BY <1>9, <1>11 DEF Abstract!Rearrange, ItemsAfter, PlaceAfter

\* A sort writes the items into the nodes in another order.
LEMMA SortSimulates ==
  ASSUME IInv, IInv', NEW less, Sort(less)
  PROVE  Abstract!Rearrange
  <1>0. PICK n \in Nat : \E c : StateShows(n, c)
    BY ShownInState
  <1>1. PICK c : StateShows(n, c)
    BY <1>0
  <1>2. IsChain(list, Places \ free, n, c)
    BY <1>1, ShownFacts
  <1>3. PICK end : list' = ListItr_Sort(list, ListItr_Begin(list), end, less)
    BY DEF Sort
  <1>4. UNCHANGED <<free, itr, reply, count, status>>
    BY DEF Sort
  <1>5. IsChain(list', Places \ free', n, c) /\ list' \in Resorted(list, n, c)
    BY <1>2, <1>3, <1>4, InvIsBoth, SortKeeps
  <1>6. PICK f \in Orders(n) : \A i \in 1 .. n : list'.m_data[c[i]] = list.m_data[c[f[i]]]
    BY <1>5 DEF Resorted
  <1> QED
    BY <1>1, <1>4, <1>5, <1>6, OrderSimulates

\* Two numberings of the same places: one is the other in another order.
LEMMA Renumbered ==
  ASSUME NEW used, NEW n \in Nat, NEW l, NEW c, IsChain(l, used, n, c),
         NEW k, NEW d, IsChain(k, used, n, d)
  PROVE  \E f \in Orders(n) : \A i \in 1 .. n : c[f[i]] = d[i]
  <1> DEFINE f == [i \in 1 .. n |-> CHOOSE h \in 1 .. n : c[h] = d[i]]
  <1>1. /\ \A i \in 1 .. n : d[i] \in used \ {head, tail}
        /\ \A p \in used \ {head, tail} : \E i \in 1 .. n : d[i] = p
    BY ChainNodes
  <1>2. /\ \A i \in 1 .. n : c[i] \in used \ {head, tail}
        /\ \A p \in used \ {head, tail} : \E i \in 1 .. n : c[i] = p
    BY ChainNodes
  <1>3. /\ \A i, j \in 1 .. n : c[i] = c[j] => i = j
        /\ \A i, j \in 1 .. n : d[i] = d[j] => i = j
    <2>1. \A i \in 1 .. n : i \in 0 .. n + 1
      OBVIOUS
    <2>2. \A i, j \in 1 .. n : c[i] = c[j] => i = j
      BY <2>1 DEF IsChain
    <2>3. \A i, j \in 1 .. n : d[i] = d[j] => i = j
      BY <2>1 DEF IsChain
    <2> QED
      BY <2>2, <2>3
  <1>4. ASSUME NEW i \in 1 .. n
        PROVE  f[i] \in 1 .. n /\ c[f[i]] = d[i]
    BY <1>1, <1>2
  <1>5. f \in [1 .. n -> 1 .. n]
    BY <1>4
  <1> HIDE DEF f
  <1>6. \A i, j \in 1 .. n : f[i] = f[j] => i = j
    BY <1>3, <1>4
  <1>7. \A j \in 1 .. n : \E i \in 1 .. n : f[i] = j
    <2> SUFFICES ASSUME NEW j \in 1 .. n
                 PROVE  \E i \in 1 .. n : f[i] = j
      OBVIOUS
    <2>1. PICK i \in 1 .. n : d[i] = c[j]
      BY <1>1, <1>2
    <2>2. f[i] = j
      BY <1>3, <1>4, <2>1
    <2> QED
      BY <2>2
  <1>8. f \in Orders(n)
    BY <1>5, <1>6, <1>7, OrderFacts
  <1> QED
    BY <1>4, <1>8

\* A splice links the nodes in another order.
LEMMA SpliceSimulates ==
  ASSUME IInv, IInv', Splice
  PROVE  Abstract!Rearrange
  <1>0. PICK n \in Nat : \E c : StateShows(n, c)
    BY ShownInState
  <1>1. PICK c : StateShows(n, c)
    BY <1>0
  <1>2. /\ IsChain(list, Places \ free, n, c)
        /\ list.m_next[head] = c[1]
        /\ \A p \in Nodes \ free : \E i \in 1 .. n : c[i] = p
    BY <1>1 DEF StateShows, StateChain
  <1>3. /\ itr \in Nodes \ free /\ itr # c[1]
        /\ UNCHANGED <<free, itr, reply, count, status>>
        /\ \/ list' = ListItr_Splice(list, ListItr_End(list), ListItr_Begin(list), itr)
           \/ list' = ListItr_Splice(list, ListItr_Begin(list), itr, ListItr_End(list))
    BY <1>2, InvIsBoth DEF Splice, CallerOK, ListItr_Begin
  <1>4. PICK a \in 1 .. n : c[a] = itr
    BY <1>2, <1>3
  <1>5. a \in 2 .. n /\ itr = c[a]
    BY <1>3, <1>4
  <1>6. list' \in Relinked(list, Places \ free, n)
    BY <1>2, <1>3, <1>5, InvIsBoth, SpliceKeeps
  <1>7. PICK d : IsChain(list', Places \ free, n, d)
    BY <1>6 DEF Relinked
  <1>8. list'.m_data = list.m_data
    BY <1>6 DEF Relinked
  <1>9. PICK f \in Orders(n) : \A i \in 1 .. n : c[f[i]] = d[i]
    BY <1>2, <1>7, Renumbered
  <1>10. \A i \in 1 .. n : list'.m_data[d[i]] = list.m_data[c[f[i]]]
    BY <1>8, <1>9
  <1>11. IsChain(list', Places \ free', n, d)
    BY <1>3, <1>7
  <1> QED
    BY <1>1, <1>3, <1>9, <1>10, <1>11, OrderSimulates

LEMMA DestroySimulates ==
  ASSUME IInv, IInv', List_Destroy
  PROVE  Abstract!Destroy
  <1>1. IsChain(list', Places \ free', 0, [i \in 0 .. 1 |-> IF i = 0 THEN head ELSE tail])
    BY InvIsBoth, DestroyKeeps
  <1>2. PICK c : IsChain(list', Places \ free', 0, c)
    BY <1>1
  <1>3. Shows(list', itr', 0, c, ItemsAfter, PlaceAfter)
    BY <1>2, ShownAfter DEF ItemsAfter, PlaceAfter
  <1>4. ItemsAfter = << >> /\ PlaceAfter = -1
    BY <1>3 DEF Shows, List_Destroy
  <1> QED
    BY <1>4
       DEF List_Destroy, Abstract!Destroy, Abstract!NoPosition, ItemsAfter, PlaceAfter

LEMMA CallSimulates ==
  ASSUME IInv, IInv', status = "live", Call
  PROVE  Abstract!Step
  <1>1. CASE \E x \in Items :
               List_PushHead(x) \/ List_PushTail(x) \/ ListItr_InsertBefore(x)
    BY <1>1, InsertionsSimulate DEF Abstract!Step
  <1>2. CASE \E x \in Items : Set(x)
    BY <1>2, SetSimulates DEF Abstract!Step
  <1>3. CASE List_PopHead \/ List_PopTail \/ ListItr_Remove
    BY <1>3, RemovalsSimulate DEF Abstract!Step
  <1>4. CASE Begin \/ End \/ NextPlace \/ PrevPlace
    BY <1>4, MovesSimulate DEF Abstract!Step
  <1>5. CASE Get \/ Size
    BY <1>5, ReadingsSimulate DEF Abstract!Step
  <1>6. CASE Splice
    BY <1>6, SpliceSimulates DEF Abstract!Step
  <1>7. CASE List_Destroy
    BY <1>7, DestroySimulates DEF Abstract!Step
  <1>8. CASE \E predicate \in SUBSET Items : FindFirst(predicate) \/ ForEach(predicate)
    BY <1>8, FindsSimulate DEF Abstract!Step
  <1>9. CASE \E predicate \in SUBSET Items : CountIf(predicate)
    BY <1>9, CountSimulates DEF Abstract!Step
  <1>10. CASE \E less \in Lesses : Sort(less)
    BY <1>10, SortSimulates DEF Abstract!Step
  <1> QED
    BY <1>1, <1>2, <1>3, <1>4, <1>5, <1>6, <1>7, <1>8, <1>9, <1>10 DEF Call

\* Every call of LinkedListGeneric.c, LinkedListGenericIter.c and
\* ListFunctionGen.c does to the nodes what ItemList says of the items, whatever
\* the list holds, wherever the iterator is and whether or not malloc fails.
THEOREM ListIsItemList == Spec => ImplementsItemList
  <1>1. Init => Abstract!Init
    <2> SUFFICES ASSUME Init
                 PROVE  Abstract!Init
      OBVIOUS
    <2>1. PICK n \in Nat : \E c : StateShows(n, c)
      BY InitIInv, ShownInState
    <2>2. PICK c : StateShows(n, c)
      BY <2>1
    <2>3. PICK atHead \in Leftover, atTail \in Leftover : list = List_Create(atHead, atTail)
      BY DEF Init
    <2>4. list.m_next[head] = tail
      BY <2>3, PointerAssumption DEF List_Create, Places
    <2>5. n = 0
      BY <2>2, <2>4 DEF StateShows, StateChain, Empty
    <2>6. Contents(list) = << >> /\ Place = -1
      BY <2>2, <2>5, ShownFacts DEF Init
    <2> QED
      BY <2>6 DEF Init, Abstract!Init, Abstract!NoPosition, Place
  <1>2. IInv /\ [Next]_vars => [status = "live" /\ Abstract!Step]_(Abstract!vars)
    <2> SUFFICES ASSUME IInv, [Next]_vars
                 PROVE  [status = "live" /\ Abstract!Step]_(Abstract!vars)
      OBVIOUS
    <2>1. IInv'
      BY NextKeepsIInv
    <2>2. CASE UNCHANGED vars
      BY <2>2, NothingTouched DEF vars, Abstract!vars
    <2>3. CASE status = "live" /\ Call
      BY <2>1, <2>3, CallSimulates
    <2> QED
      BY <2>2, <2>3 DEF Next
  <1> QED
    BY <1>1, <1>2, ListInvariant, PTL DEF Spec, ImplementsItemList, Abstract!Spec
=============================================================================
