--------------------------- MODULE HashMapProofs ---------------------------
(***************************************************************************)
(* Proofs about the hash map, for every hash function, every set of keys   *)
(* and of texts, every capacity and every failure of an allocation.        *)
(*                                                                         *)
(* The argument.  A key whose text cannot have changed since it was stored *)
(* (Fixed) is in the bucket of that text, and the search that precedes an  *)
(* insertion has seen every other entry of that bucket: so a text is       *)
(* stored once, and the first match of a search is the only one.           *)
(***************************************************************************)
EXTENDS HashMap, RoundArithmetic, FiniteSetTheorems, TLAPS

\* The keys whose text is what it was when they were stored: a buffer may have
\* been written over.
Fixed == IF overwritten THEN Stable ELSE Keys

BucketType == [list : BOOLEAN, chain : Seq(EntryType)]

MapType ==
  /\ m_allocSize \in Nat \ {0}
  /\ m_data \in [0 .. m_allocSize - 1 -> BucketType]
  /\ \A b \in 0 .. m_allocSize - 1 : ~m_data[b].list => m_data[b].chain = << >>
  /\ text \in [Keys -> Texts]
  /\ lost \in Nat /\ overwritten \in BOOLEAN

\* A fixed key is in its bucket.
InOwnBucket ==
  \A b \in 0 .. m_allocSize - 1 : \A i \in 1 .. Len(m_data[b].chain) :
    m_data[b].chain[i].m_key \in Fixed => Bucket(text[m_data[b].chain[i].m_key]) = b

\* Two entries of a chain have different keys, and fixed keys different texts.
DifferentKeys(e, f) ==
  /\ e.m_key # f.m_key
  /\ e.m_key \in Fixed /\ f.m_key \in Fixed => text[e.m_key] # text[f.m_key]

OncePerChain ==
  \A b \in 0 .. m_allocSize - 1 : \A i, j \in 1 .. Len(m_data[b].chain) :
    i # j => DifferentKeys(m_data[b].chain[i], m_data[b].chain[j])

MapInv == MapType /\ InOwnBucket /\ OncePerChain
-----------------------------------------------------------------------------
(***************************************************************************)
(* Buckets, chains and searches.                                           *)
(***************************************************************************)

\* The table that is allocated has a bucket (HashMap_Create).
LEMMA TableHasBuckets ==
  ASSUME NEW n \in Capacities
  PROVE  FindPrimeLargerThan(n) \in Nat \ {0}
  <1>1. n \in Nat \ {0}
    BY HashAssumption
  <1>2. FindPrimeLargerThan(n) \in n .. 2 * n
    BY <1>1, PrimeAssumption DEF FindPrimeLargerThan
  <1> QED
    BY <1>1, <1>2

\* Every text has a bucket, with a chain of entries (the index modulo m_allocSize).
LEMMA BucketOfText ==
  ASSUME MapType, NEW t \in Texts
  PROVE  /\ Bucket(t) \in 0 .. m_allocSize - 1 /\ Bucket(t) \in DOMAIN m_data
         /\ Chain(t) = m_data[Bucket(t)].chain
         /\ Chain(t) \in Seq(EntryType)
         /\ m_data[Bucket(t)] \in BucketType
         /\ Matches(Chain(t), t) \subseteq 1 .. Len(Chain(t))
  <1>1. m_hashFunc[t] \in Nat
    BY HashAssumption
  <1>2. m_hashFunc[t] % m_allocSize \in 0 .. m_allocSize - 1
    BY <1>1 DEF MapType
  <1>3. Bucket(t) \in 0 .. m_allocSize - 1
    BY <1>2 DEF Bucket
  <1>4. m_data[Bucket(t)] \in BucketType
    BY <1>3 DEF MapType
  <1>5. Chain(t) \in Seq(EntryType)
    BY <1>4 DEF Chain, BucketType
  <1> QED
    BY <1>3, <1>4, <1>5 DEF MapType, Chain, Matches

\* A search that hits returns one of the entries (HashMap_Find).
LEMMA FirstIsMatch ==
  ASSUME NEW chain \in Seq(EntryType), NEW t, Matches(chain, t) # {}
  PROVE  First(chain, t) \in Matches(chain, t)
  <1> DEFINE M == Matches(chain, t)
  <1>1. M \subseteq Nat /\ M # {}
    BY DEF Matches
  <1>2. PICK i \in M : \A j \in M : i <= j
    BY <1>1, LeastNumber
  <1> QED
    BY <1>2 DEF First

\* Two chains in a row (List_PushHead, ListItr_Remove).
LEMMA Joined ==
  ASSUME NEW a \in Seq(EntryType), NEW z \in Seq(EntryType)
  PROVE  /\ a \o z \in Seq(EntryType)
         /\ Len(a \o z) = Len(a) + Len(z)
         /\ \A j \in 1 .. Len(a) : (a \o z)[j] = a[j]
         /\ \A j \in 1 .. Len(z) : (a \o z)[j + Len(a)] = z[j]
  OBVIOUS

\* Taking entry i out moves those behind it up by one (ListItr_Remove).
LEMMA WithoutEntry ==
  ASSUME NEW chain \in Seq(EntryType), NEW i \in 1 .. Len(chain)
  PROVE  /\ Without(chain, i) \in Seq(EntryType)
         /\ Len(Without(chain, i)) = Len(chain) - 1
         /\ \A j \in 1 .. Len(chain) - 1 :
              Without(chain, i)[j] = IF j < i THEN chain[j] ELSE chain[j + 1]
  <1> DEFINE a == SubSeq(chain, 1, i - 1)
             z == SubSeq(chain, i + 1, Len(chain))
  <1>1. Len(chain) \in Nat /\ i \in Nat \ {0}
    OBVIOUS
  <1>2. a \in Seq(EntryType) /\ Len(a) = i - 1
        /\ \A j \in 1 .. i - 1 : a[j] = chain[j]
    BY <1>1
  <1>3. z \in Seq(EntryType) /\ Len(z) = Len(chain) - i
        /\ \A j \in 1 .. Len(chain) - i : z[j] = chain[j + i]
    BY <1>1
  <1>4. Without(chain, i) = a \o z
    BY DEF Without
  <1> HIDE DEF a, z
  <1>5. Without(chain, i) \in Seq(EntryType) /\ Len(Without(chain, i)) = Len(chain) - 1
    <2>1. a \o z \in Seq(EntryType)
      BY <1>2, <1>3, Joined
    <2>2. Len(a \o z) = Len(a) + Len(z)
      BY <1>2, <1>3, Joined
    <2>3. Len(a) + Len(z) = Len(chain) - 1
      BY <1>1, <1>2, <1>3
    <2> QED
      BY <1>4, <2>1, <2>2, <2>3
  <1>6. ASSUME NEW j \in 1 .. Len(chain) - 1, j < i
        PROVE  Without(chain, i)[j] = chain[j]
    BY <1>1, <1>2, <1>3, <1>4, <1>6, Joined
  <1>7. ASSUME NEW j \in 1 .. Len(chain) - 1, ~ j < i
        PROVE  Without(chain, i)[j] = chain[j + 1]
    <2>1. j - (i - 1) \in 1 .. Len(chain) - i
      BY <1>1, <1>7
    <2>2. (a \o z)[j] = z[j - (i - 1)]
      BY <1>1, <1>2, <1>3, <1>7
    <2> QED
      BY <1>1, <1>3, <1>4, <2>1, <2>2
  <1> QED
    BY <1>5, <1>6, <1>7

\* A new entry comes before the others (List_PushHead).
LEMMA PushedEntry ==
  ASSUME NEW chain \in Seq(EntryType), NEW e \in EntryType
  PROVE  /\ <<e>> \o chain \in Seq(EntryType)
         /\ Len(<<e>> \o chain) = Len(chain) + 1
         /\ (<<e>> \o chain)[1] = e
         /\ \A j \in 1 .. Len(chain) : (<<e>> \o chain)[j + 1] = chain[j]
  OBVIOUS
-----------------------------------------------------------------------------
(***************************************************************************)
(* The invariant.                                                          *)
(***************************************************************************)

\* A new map has buckets and no list (HashMap_Create).
LEMMA InitInv == Init => MapInv
  <1> SUFFICES ASSUME Init PROVE MapInv
    OBVIOUS
  <1>1. m_allocSize \in Nat \ {0}
    BY TableHasBuckets DEF Init, HashMap_Create
  <1>2. \A b \in 0 .. m_allocSize - 1 : m_data[b] = NoList
    BY DEF Init, HashMap_Create, NoLists
  <1>3. NoList \in BucketType /\ NoList.chain = << >> /\ ~NoList.list
    BY DEF NoList, BucketType
  <1>4. m_data \in [0 .. m_allocSize - 1 -> BucketType]
    BY <1>3 DEF Init, HashMap_Create, NoLists
  <1>5. MapType
    BY <1>1, <1>2, <1>3, <1>4 DEF MapType, Init
  <1>6. InOwnBucket /\ OncePerChain
    BY <1>1, <1>2, <1>3 DEF InOwnBucket, OncePerChain
  <1> QED
    BY <1>5, <1>6 DEF MapInv

\* What a call leaves alone keeps the invariant.
LEMMA SameChains ==
  ASSUME MapInv,
         m_allocSize' = m_allocSize, m_data' = m_data, text' = text,
         overwritten' = overwritten, lost' \in Nat
  PROVE  MapInv'
  <1>1. MapType'
    BY DEF MapInv, MapType
  <1>2. InOwnBucket'
    BY DEF MapInv, InOwnBucket, Bucket, Fixed
  <1>3. OncePerChain'
    BY DEF MapInv, OncePerChain, DifferentKeys, Fixed
  <1> QED
    BY <1>1, <1>2, <1>3 DEF MapInv

\* The chain of bucket b gets entry e in front (List_PushHead).
PushedTo(b, e) ==
  /\ b \in 0 .. m_allocSize - 1
  /\ m_data' \in [0 .. m_allocSize - 1 -> BucketType]
  /\ \A o \in 0 .. m_allocSize - 1 : o # b => m_data'[o] = m_data[o]
  /\ m_data'[b].list /\ m_data'[b].chain # << >>
  /\ Len(m_data'[b].chain) = Len(m_data[b].chain) + 1
  /\ m_data'[b].chain[1] = e
  /\ \A j \in 1 .. Len(m_data[b].chain) : m_data'[b].chain[j + 1] = m_data[b].chain[j]

LEMMA StoredEffect ==
  ASSUME MapType, NEW k \in Keys, NEW v \in Values, InsertStored(k, v)
  PROVE  PushedTo(Bucket(text[k]), [m_key |-> k, m_value |-> v])
  <1> DEFINE b == Bucket(text[k])
             c == m_data[b].chain
             e == [m_key |-> k, m_value |-> v]
             d == <<e>> \o c
  <1>1. text[k] \in Texts
    BY DEF MapType
  <1>2. b \in 0 .. m_allocSize - 1 /\ c \in Seq(EntryType) /\ Chain(text[k]) = c
    BY <1>1, BucketOfText
  <1>3. e \in EntryType
    BY DEF EntryType
  <1>4. /\ d \in Seq(EntryType) /\ Len(d) = Len(c) + 1 /\ d[1] = e
        /\ \A j \in 1 .. Len(c) : d[j + 1] = c[j]
    <2> HIDE DEF c, e
    <2> QED
      BY <1>2, <1>3, PushedEntry
  <1> HIDE DEF d, e
  <1>5. m_data' = [m_data EXCEPT ![b] = ListOf(d)]
    BY <1>2 DEF InsertStored, Store, d, e
  <1> HIDE DEF c
  <1>6. ListOf(d) \in BucketType /\ ListOf(d).chain = d /\ ListOf(d).list /\ d # << >>
    BY <1>2, <1>4 DEF ListOf, BucketType
  <1> HIDE DEF b
  <1>7. /\ m_data'[b] = ListOf(d)
        /\ \A o \in 0 .. m_allocSize - 1 : o # b => m_data'[o] = m_data[o]
        /\ m_data' \in [0 .. m_allocSize - 1 -> BucketType]
    BY <1>2, <1>5, <1>6 DEF MapType
  <1>8. PushedTo(b, e)
    BY <1>2, <1>4, <1>6, <1>7 DEF PushedTo, c
  <1> QED
    BY <1>8 DEF b, e

\* An entry that is stored was searched for in the whole chain of its text.
LEMMA StoredKeepsInv ==
  ASSUME MapInv, NEW k \in Keys, NEW v \in Values,
         Matches(Chain(text[k]), text[k]) = {}, InsertStored(k, v)
  PROVE  MapInv'
  <1> DEFINE t == text[k]
             b == Bucket(t)
             c == m_data[b].chain
             e == [m_key |-> k, m_value |-> v]
             d == m_data'[b].chain
  <1>1. MapType /\ t \in Texts
    BY DEF MapInv, MapType
  <1>2. b \in 0 .. m_allocSize - 1 /\ c \in Seq(EntryType) /\ Chain(t) = c
    BY <1>1, BucketOfText
  <1>3. e.m_key = k
    OBVIOUS
  <1>4. PushedTo(b, e)
    BY <1>1, StoredEffect
  <1>5. \A j \in 1 .. Len(c) : text[c[j].m_key] # t /\ c[j].m_key # k
    <2>1. \A j \in 1 .. Len(c) : text[c[j].m_key] # t
      BY <1>2 DEF Matches
    <2> QED
      BY <2>1
  <1>6. /\ m_allocSize' = m_allocSize /\ text' = text /\ lost' = lost /\ overwritten' = overwritten
    BY DEF InsertStored, Return, ghosts
  <1> HIDE DEF t, b, e
  <1>7. /\ Len(d) = Len(c) + 1 /\ d[1] = e
        /\ \A j \in 1 .. Len(c) : d[j + 1] = c[j]
    BY <1>4 DEF PushedTo
  <1>8. \A o \in 0 .. m_allocSize - 1 : o # b => m_data'[o] = m_data[o]
    BY <1>4 DEF PushedTo
  <1>9. MapType'
    BY <1>1, <1>4, <1>6 DEF MapType, PushedTo
  <1>10. InOwnBucket'
    <2> SUFFICES ASSUME NEW o \in 0 .. m_allocSize - 1,
                        NEW i \in 1 .. Len(m_data'[o].chain),
                        m_data'[o].chain[i].m_key \in Fixed
                 PROVE  Bucket(text[m_data'[o].chain[i].m_key]) = o
      BY <1>6 DEF InOwnBucket, Bucket, Fixed
    <2>1. CASE o # b
      BY <2>1, <1>8 DEF MapInv, InOwnBucket
    <2>2. CASE o = b /\ i = 1
      BY <2>2, <1>3, <1>7 DEF b, t
    <2>3. CASE o = b /\ i # 1
      <3>1. i - 1 \in 1 .. Len(c) /\ d[i] = c[i - 1]
        <4>1. i \in 1 .. Len(d) /\ Len(c) \in Nat
          BY <2>3, <1>2
        <4> HIDE DEF c, d
        <4> QED
          BY <2>3, <4>1, <1>7
      <3> QED
        BY <2>3, <3>1, <1>2 DEF MapInv, InOwnBucket
    <2> QED
      BY <2>1, <2>2, <2>3
  <1>11. OncePerChain'
    <2> SUFFICES ASSUME NEW o \in 0 .. m_allocSize - 1,
                        NEW i \in 1 .. Len(m_data'[o].chain),
                        NEW j \in 1 .. Len(m_data'[o].chain), i # j
                 PROVE  DifferentKeys(m_data'[o].chain[i], m_data'[o].chain[j])
      BY <1>6 DEF OncePerChain, DifferentKeys, Fixed
    <2>1. CASE o # b
      BY <2>1, <1>8 DEF MapInv, OncePerChain
    <2>2. ASSUME NEW n \in 1 .. Len(d), n # 1
          PROVE  /\ n - 1 \in 1 .. Len(c) /\ d[n] = c[n - 1]
                 /\ DifferentKeys(e, d[n]) /\ DifferentKeys(d[n], e)
      <3>1. n - 1 \in 1 .. Len(c) /\ d[n] = c[n - 1]
        <4>1. n \in 1 .. Len(d) /\ n # 1 /\ Len(c) \in Nat
          BY <2>2, <1>2
        <4> HIDE DEF c, d
        <4> QED
          BY <4>1, <1>7
      <3> QED
        BY <3>1, <1>3, <1>5 DEF DifferentKeys, t
    <2>3. CASE o = b /\ (i = 1 \/ j = 1)
      BY <2>2, <2>3, <1>7
    <2>4. CASE o = b /\ i # 1 /\ j # 1
      <3>1. /\ i - 1 \in 1 .. Len(c) /\ d[i] = c[i - 1]
            /\ j - 1 \in 1 .. Len(c) /\ d[j] = c[j - 1]
        BY <2>2, <2>4
      <3>2. DifferentKeys(c[i - 1], c[j - 1])
        BY <3>1, <1>2 DEF MapInv, OncePerChain
      <3> QED
        BY <2>4, <3>1, <3>2
    <2> QED
      BY <2>1, <2>3, <2>4
  <1> QED
    BY <1>9, <1>10, <1>11 DEF MapInv

\* An entry that is refused leaves a list behind, if anything.
LEMMA RefusedKeepsInv ==
  ASSUME MapInv, NEW k \in Keys, NEW v \in Values, InsertRefused(k, v)
  PROVE  MapInv'
  <1> DEFINE b == Bucket(text[k])
  <1>1. CASE UNCHANGED m_data
    BY <1>1, SameChains DEF InsertRefused, Return, ghosts, MapInv, MapType
  <1>2. CASE /\ ~m_data[b].list
             /\ m_data' = [m_data EXCEPT ![b].list = TRUE]
    <2>1. MapType /\ text[k] \in Texts
      BY DEF MapInv, MapType
    <2>2. b \in 0 .. m_allocSize - 1 /\ m_data[b] \in BucketType
      BY <2>1, BucketOfText
    <2>3. /\ m_allocSize' = m_allocSize /\ text' = text /\ lost' = lost /\ overwritten' = overwritten
      BY DEF InsertRefused, Return, ghosts
    <2> HIDE DEF b
    <2>4. /\ m_data' \in [0 .. m_allocSize - 1 -> BucketType]
          /\ \A o \in 0 .. m_allocSize - 1 : m_data'[o].chain = m_data[o].chain
          /\ \A o \in 0 .. m_allocSize - 1 : m_data[o].list => m_data'[o].list
      BY <1>2, <2>1, <2>2 DEF MapType, BucketType
    <2>5. MapType'
      <3>1. \A o \in 0 .. m_allocSize - 1 : m_data'[o].list \in BOOLEAN /\ m_data[o].list \in BOOLEAN
        BY <2>1, <2>4 DEF MapType, BucketType
      <3> QED
        BY <1>2, <2>1, <2>3, <2>4, <3>1 DEF MapType
    <2>6. InOwnBucket'
      BY <2>3, <2>4 DEF MapInv, InOwnBucket, Bucket, Fixed
    <2>7. OncePerChain'
      BY <2>3, <2>4 DEF MapInv, OncePerChain, DifferentKeys, Fixed
    <2> QED
      BY <2>5, <2>6, <2>7 DEF MapInv
  <1> QED
    BY <1>1, <1>2 DEF InsertRefused

\* Entry `at` of the chain of bucket b is taken out, those behind it move up
\* (ListItr_Remove).
TakenFrom(b, at) ==
  /\ b \in 0 .. m_allocSize - 1
  /\ at \in 1 .. Len(m_data[b].chain)
  /\ m_data' \in [0 .. m_allocSize - 1 -> BucketType]
  /\ \A o \in 0 .. m_allocSize - 1 : o # b => m_data'[o] = m_data[o]
  /\ m_data[b].list /\ m_data'[b].list
  /\ Len(m_data'[b].chain) = Len(m_data[b].chain) - 1
  /\ \A j \in 1 .. Len(m_data'[b].chain) :
       m_data'[b].chain[j] = m_data[b].chain[IF j < at THEN j ELSE j + 1]

LEMMA RemovedEffect ==
  ASSUME MapType, NEW t \in Texts, Matches(Chain(t), t) # {}, HashMap_Remove(t)
  PROVE  TakenFrom(Bucket(t), First(Chain(t), t))
  <1> DEFINE b == Bucket(t)
             c == m_data[b].chain
             at == First(Chain(t), t)
             d == Without(c, at)
  <1>1. /\ b \in 0 .. m_allocSize - 1 /\ c \in Seq(EntryType) /\ Chain(t) = c
        /\ m_data[b] \in BucketType
    BY BucketOfText
  <1>2. at \in 1 .. Len(c)
    BY <1>1, BucketOfText, FirstIsMatch
  <1>3. m_data' = [m_data EXCEPT ![b].chain = d]
    BY <1>1 DEF HashMap_Remove
  <1> HIDE DEF at
  <1>4. /\ d \in Seq(EntryType) /\ Len(d) = Len(c) - 1
        /\ \A j \in 1 .. Len(c) - 1 : d[j] = IF j < at THEN c[j] ELSE c[j + 1]
    <2> HIDE DEF c
    <2> QED
      BY <1>1, <1>2, WithoutEntry
  <1> HIDE DEF b, c, d
  <1>5. /\ m_data'[b].chain = d /\ m_data'[b].list = m_data[b].list
        /\ \A o \in 0 .. m_allocSize - 1 : o # b => m_data'[o] = m_data[o]
        /\ m_data' \in [0 .. m_allocSize - 1 -> BucketType]
    BY <1>1, <1>3, <1>4 DEF MapType, BucketType
  <1>6. m_data[b].list
    BY <1>1, <1>2 DEF MapType, c
  <1>7. TakenFrom(b, at)
    BY <1>1, <1>2, <1>4, <1>5, <1>6 DEF TakenFrom, c
  <1> QED
    BY <1>7 DEF b, at

\* The others stay in their chain and in their order.
LEMMA RemovedKeepsInv ==
  ASSUME MapInv, NEW t \in Texts, Matches(Chain(t), t) # {}, HashMap_Remove(t)
  PROVE  MapInv'
  <1> DEFINE b == Bucket(t)
             c == m_data[b].chain
             at == First(Chain(t), t)
             d == m_data'[b].chain
  <1>1. MapType
    BY DEF MapInv
  <1>2. b \in 0 .. m_allocSize - 1 /\ Len(c) \in Nat /\ Chain(t) = c
    BY <1>1, BucketOfText
  <1>3. TakenFrom(b, at)
    BY <1>1, RemovedEffect
  <1>4. /\ m_allocSize' = m_allocSize /\ text' = text /\ lost' = lost /\ overwritten' = overwritten
    BY <1>2 DEF HashMap_Remove, Return, ghosts
  <1> HIDE DEF at, b
  <1>5. /\ Len(d) = Len(c) - 1 /\ at \in 1 .. Len(c)
        /\ \A j \in 1 .. Len(d) : d[j] = c[IF j < at THEN j ELSE j + 1]
    BY <1>3 DEF TakenFrom
  <1>6. \A o \in 0 .. m_allocSize - 1 : o # b => m_data'[o] = m_data[o]
    BY <1>3 DEF TakenFrom
  <1>7. MapType'
    BY <1>1, <1>3, <1>4 DEF MapType, TakenFrom
  <1>8. ASSUME NEW i \in 1 .. Len(d), NEW j \in 1 .. Len(d), i # j
        PROVE  \E n, p \in 1 .. Len(c) : n # p /\ d[i] = c[n] /\ d[j] = c[p]
    <2> DEFINE n == IF i < at THEN i ELSE i + 1
               p == IF j < at THEN j ELSE j + 1
    <2> HIDE DEF c, d
    <2>1. n \in 1 .. Len(c) /\ p \in 1 .. Len(c) /\ n # p
      BY <1>2, <1>5, <1>8
    <2>2. d[i] = c[n] /\ d[j] = c[p]
      BY <1>5
    <2> QED
      BY <2>1, <2>2
  <1>9. ASSUME NEW i \in 1 .. Len(d)
        PROVE  \E n \in 1 .. Len(c) : d[i] = c[n]
    <2> HIDE DEF c, d
    <2>1. (IF i < at THEN i ELSE i + 1) \in 1 .. Len(c)
      BY <1>2, <1>5
    <2> QED
      BY <2>1, <1>5
  <1>10. InOwnBucket'
    <2> SUFFICES ASSUME NEW o \in 0 .. m_allocSize - 1,
                        NEW i \in 1 .. Len(m_data'[o].chain),
                        m_data'[o].chain[i].m_key \in Fixed
                 PROVE  Bucket(text[m_data'[o].chain[i].m_key]) = o
      BY <1>4 DEF InOwnBucket, Bucket, Fixed
    <2>1. CASE o # b
      BY <2>1, <1>6 DEF MapInv, InOwnBucket
    <2>2. CASE o = b
      BY <2>2, <1>2, <1>9 DEF MapInv, InOwnBucket
    <2> QED
      BY <2>1, <2>2
  <1>11. OncePerChain'
    <2> SUFFICES ASSUME NEW o \in 0 .. m_allocSize - 1,
                        NEW i \in 1 .. Len(m_data'[o].chain),
                        NEW j \in 1 .. Len(m_data'[o].chain), i # j
                 PROVE  DifferentKeys(m_data'[o].chain[i], m_data'[o].chain[j])
      BY <1>4 DEF OncePerChain, DifferentKeys, Fixed
    <2>1. CASE o # b
      BY <2>1, <1>6 DEF MapInv, OncePerChain
    <2>2. CASE o = b
      BY <2>2, <1>2, <1>8 DEF MapInv, OncePerChain
    <2> QED
      BY <2>1, <2>2
  <1> QED
    BY <1>7, <1>10, <1>11 DEF MapInv

\* A map that is destroyed has no chain left, however its loop went on.
LEMMA DestroyKeepsInv ==
  ASSUME MapInv, NEW destroyers \in BOOLEAN, HashMap_Destroy(destroyers)
  PROVE  MapInv'
  <1>1. MapType
    BY DEF MapInv
  <1>2. /\ m_allocSize' = m_allocSize /\ text' = text /\ lost' = lost
        /\ overwritten' = overwritten
        /\ m_data' = NoLists(m_allocSize)
    BY DEF HashMap_Destroy
  <1>3. NoList \in BucketType /\ NoList.chain = << >> /\ ~NoList.list
    BY DEF NoList, BucketType
  <1>4. /\ m_data' \in [0 .. m_allocSize - 1 -> BucketType]
        /\ \A b \in 0 .. m_allocSize - 1 : m_data'[b] = NoList
    BY <1>2, <1>3 DEF NoLists
  <1>5. MapType'
    BY <1>1, <1>2, <1>3, <1>4 DEF MapType
  <1>6. InOwnBucket' /\ OncePerChain'
    BY <1>2, <1>3, <1>4 DEF InOwnBucket, OncePerChain
  <1> QED
    BY <1>5, <1>6 DEF MapInv

\* The entries point at key k.
PointedAt(k) ==
  \E b \in 0 .. m_allocSize - 1 : \E i \in 1 .. Len(m_data[b].chain) :
    m_data[b].chain[i].m_key = k

LEMMA EntriesPoint ==
  ASSUME MapType, NEW k
  PROVE  (\E p \in Entries : KeyAt(p) = k) <=> PointedAt(k)
  <1>1. DOMAIN m_data = 0 .. m_allocSize - 1
    BY DEF MapType
  <1>2. ASSUME NEW b \in 0 .. m_allocSize - 1
        PROVE  DOMAIN m_data[b].chain = 1 .. Len(m_data[b].chain)
    BY DEF MapType, BucketType
  <1>3. ASSUME NEW p \in Entries
        PROVE  /\ p[1] \in 0 .. m_allocSize - 1
               /\ p[2] \in 1 .. Len(m_data[p[1]].chain)
    BY <1>1, <1>2 DEF Entries
  <1>4. ASSUME NEW b \in 0 .. m_allocSize - 1, NEW i \in 1 .. Len(m_data[b].chain)
        PROVE  <<b, i>> \in Entries
    BY <1>1, <1>2 DEF Entries
  <1> QED
    BY <1>3, <1>4 DEF KeyAt, PointedAt

\* Only a buffer is written over, and one that an entry points at is recorded.
LEMMA OverwriteKeepsInv ==
  ASSUME MapInv, NEW k \in Buffers, NEW t \in Texts, Overwrite(k, t)
  PROVE  MapInv'
  <1>1. MapType /\ k \in Keys /\ k \notin Stable
    BY HashAssumption DEF MapInv, Keys
  <1>2. /\ m_data' = m_data /\ m_allocSize' = m_allocSize /\ lost' = lost
        /\ text' = [text EXCEPT ![k] = t]
        /\ overwritten' = (overwritten \/ PointedAt(k))
    BY <1>1, EntriesPoint DEF Overwrite, mapVars
  <1>3. MapType'
    BY <1>1, <1>2 DEF MapType
  <1>4. ASSUME NEW b \in 0 .. m_allocSize - 1, NEW i \in 1 .. Len(m_data[b].chain),
               m_data[b].chain[i].m_key \in Fixed'
        PROVE  /\ m_data[b].chain[i].m_key \in Fixed
               /\ text'[m_data[b].chain[i].m_key] = text[m_data[b].chain[i].m_key]
    <2> DEFINE key == m_data[b].chain[i].m_key
    <2>1. key \in Keys
      <3>1. m_data[b].chain \in Seq(EntryType)
        BY <1>1 DEF MapType, BucketType
      <3>2. m_data[b].chain[i] \in EntryType
        BY <3>1
      <3> QED
        BY <3>2 DEF EntryType
    <2>2. key = k => overwritten'
      BY <1>2 DEF PointedAt
    <2>3. key # k
      BY <1>1, <1>4, <2>2 DEF Fixed
    <2>4. key \in Fixed
      BY <1>1, <1>2, <1>4, <2>1 DEF Fixed, MapType, Keys
    <2> QED
      BY <1>1, <1>2, <2>1, <2>3, <2>4 DEF MapType
  <1>5. InOwnBucket'
    <2> SUFFICES ASSUME NEW b \in 0 .. m_allocSize - 1,
                        NEW i \in 1 .. Len(m_data[b].chain),
                        m_data[b].chain[i].m_key \in Fixed'
                 PROVE  Bucket(text[m_data[b].chain[i].m_key])' = b
      BY <1>2 DEF InOwnBucket
    <2>1. m_data[b].chain[i].m_key \in Fixed
      BY <1>4
    <2>2. Bucket(text[m_data[b].chain[i].m_key]) = b
      BY <2>1 DEF MapInv, InOwnBucket
    <2>3. text'[m_data[b].chain[i].m_key] = text[m_data[b].chain[i].m_key]
      BY <1>4
    <2> QED
      BY <1>2, <2>2, <2>3 DEF Bucket
  <1>6. OncePerChain'
    <2> SUFFICES ASSUME NEW b \in 0 .. m_allocSize - 1,
                        NEW i \in 1 .. Len(m_data[b].chain),
                        NEW j \in 1 .. Len(m_data[b].chain), i # j
                 PROVE  DifferentKeys(m_data[b].chain[i], m_data[b].chain[j])'
      BY <1>2 DEF OncePerChain, DifferentKeys
    <2>1. DifferentKeys(m_data[b].chain[i], m_data[b].chain[j])
      BY DEF MapInv, OncePerChain
    <2> QED
      BY <1>2, <1>4, <2>1 DEF DifferentKeys
  <1> QED
    BY <1>3, <1>5, <1>6 DEF MapInv

\* Every call keeps the invariant.
LEMMA NextKeepsInv == MapInv /\ [Next]_vars => MapInv'
  <1> SUFFICES ASSUME MapInv, [Next]_vars PROVE MapInv'
    OBVIOUS
  <1>1. lost \in Nat
    BY DEF MapInv, MapType
  <1>2. ASSUME NEW k \in Keys, NEW v \in Values, HashMap_Insert(k, v)
        PROVE  MapInv'
    <2>1. CASE Matches(Chain(text[k]), text[k]) # {}
      BY <1>1, <1>2, <2>1, SameChains DEF HashMap_Insert, Return, mapVars, ghosts
    <2>2. CASE InsertWithoutList(k, v)
      BY <1>1, <2>2, SameChains DEF InsertWithoutList, Return
    <2>3. CASE InsertRefused(k, v)
      BY <2>3, RefusedKeepsInv
    <2>4. CASE Matches(Chain(text[k]), text[k]) = {} /\ InsertStored(k, v)
      BY <2>4, StoredKeepsInv
    <2> QED
      BY <1>2, <2>1, <2>2, <2>3, <2>4 DEF HashMap_Insert
  <1>3. ASSUME NEW t \in Texts, HashMap_Remove(t)
        PROVE  MapInv'
    <2>1. CASE Matches(Chain(t), t) = {}
      BY <1>1, <1>3, <2>1, SameChains DEF HashMap_Remove, Return, mapVars, ghosts
    <2>2. CASE Matches(Chain(t), t) # {}
      BY <1>3, <2>2, RemovedKeepsInv
    <2> QED
      BY <2>1, <2>2
  <1>4. ASSUME NEW t \in Texts, HashMap_Find(t)
        PROVE  MapInv'
    BY <1>1, <1>4, SameChains DEF HashMap_Find, Return, mapVars, ghosts
  <1>5. CASE UNCHANGED vars
    BY <1>1, <1>5, SameChains DEF vars, mapVars, ghosts
  <1> QED
    BY <1>2, <1>3, <1>4, <1>5, DestroyKeepsInv, OverwriteKeepsInv DEF Next, Call

\* The chains of the map, for every hash function, capacity, set of keys and
\* texts: each fixed key in its bucket, each text once.
THEOREM MapInvariant == Spec => []MapInv
  BY InitInv, NextKeepsInv, PTL DEF Spec

\* A key that cannot be written over is found in its bucket, and once
\* (HashMap_Insert), whatever happens to the caller's buffers.
THEOREM KeysOnce == Spec => []StableKeysOnce
  <1>1. MapInv => StableKeysOnce
    <2> SUFFICES ASSUME MapInv PROVE StableKeysOnce
      OBVIOUS
    <2>1. /\ DOMAIN m_data = 0 .. m_allocSize - 1
          /\ \A b \in 0 .. m_allocSize - 1 :
               DOMAIN m_data[b].chain = 1 .. Len(m_data[b].chain)
      BY DEF MapInv, MapType, BucketType
    <2>2. ASSUME NEW p \in Entries
          PROVE  /\ p[1] \in 0 .. m_allocSize - 1
                 /\ p[2] \in 1 .. Len(m_data[p[1]].chain)
                 /\ p = <<p[1], p[2]>>
      BY <2>1 DEF Entries
    <2>3. Stable \subseteq Fixed
      BY DEF Fixed, Keys
    <2>4. ASSUME NEW p \in Entries, KeyAt(p) \in Stable
          PROVE  p[1] = Bucket(text[KeyAt(p)])
      BY <2>2, <2>3, <2>4 DEF MapInv, InOwnBucket, KeyAt
    <2>5. ASSUME NEW p \in Entries, NEW q \in Entries, p # q, p[1] = q[1]
          PROVE  /\ KeyAt(p) # KeyAt(q)
                 /\ {KeyAt(p), KeyAt(q)} \subseteq Stable => text[KeyAt(p)] # text[KeyAt(q)]
      <3>1. p[2] # q[2]
        BY <2>2, <2>5
      <3>2. DifferentKeys(m_data[p[1]].chain[p[2]], m_data[p[1]].chain[q[2]])
        BY <2>2, <2>5, <3>1 DEF MapInv, OncePerChain
      <3> QED
        BY <2>3, <2>5, <3>2 DEF DifferentKeys, KeyAt
    <2> QED
      BY <2>4, <2>5 DEF StableKeysOnce
  <1> QED
    BY <1>1, MapInvariant, PTL
-----------------------------------------------------------------------------
(***************************************************************************)
(* The count of entries.  In the set of entries a push adds the place      *)
(* behind a chain's last, and a removal takes the last place away.         *)
(***************************************************************************)

IsPlace(p) ==
  \E b \in 0 .. m_allocSize - 1 : \E i \in 1 .. Len(m_data[b].chain) : p = <<b, i>>

LEMMA EntryPlaces == MapType => \A p : p \in Entries <=> IsPlace(p)
  <1> SUFFICES ASSUME MapType, NEW p PROVE p \in Entries <=> IsPlace(p)
    OBVIOUS
  <1>1. DOMAIN m_data = 0 .. m_allocSize - 1
    BY DEF MapType
  <1>2. ASSUME NEW b \in 0 .. m_allocSize - 1
        PROVE  DOMAIN m_data[b].chain = 1 .. Len(m_data[b].chain)
    BY DEF MapType, BucketType
  <1>3. p \in Entries => IsPlace(p)
    BY <1>1, <1>2 DEF Entries, IsPlace
  <1>4. ASSUME NEW b \in 0 .. m_allocSize - 1, NEW i \in 1 .. Len(m_data[b].chain)
        PROVE  <<b, i>> \in Entries
    BY <1>1, <1>2 DEF Entries
  <1> QED
    BY <1>3, <1>4 DEF IsPlace

CountInv ==
  status = "valid" =>
    IsFiniteSet(Entries) /\ m_numOfItems = Cardinality(Entries) + lost

\* Chains of the same lengths have the same places.
LEMMA SamePlaces ==
  ASSUME MapType, MapType', m_allocSize' = m_allocSize,
         \A b \in 0 .. m_allocSize - 1 : Len(m_data'[b].chain) = Len(m_data[b].chain)
  PROVE  Entries' = Entries
  <1>1. (MapType => \A p : p \in Entries <=> IsPlace(p))'
    BY EntryPlaces, PTL
  <1>2. \A p : p \in Entries' <=>
          \E b \in 0 .. m_allocSize - 1 :
            \E i \in 1 .. Len(m_data'[b].chain) : p = <<b, i>>
    BY <1>1 DEF IsPlace
  <1>3. \A p : p \in Entries <=>
          \E b \in 0 .. m_allocSize - 1 :
            \E i \in 1 .. Len(m_data[b].chain) : p = <<b, i>>
    BY EntryPlaces DEF IsPlace
  <1>4. ASSUME NEW p PROVE p \in Entries' <=> p \in Entries
    BY <1>2, <1>3
  <1> QED
    BY <1>4

\* HashMap_Insert counts the entry that it pushes.
LEMMA StoredPlace ==
  ASSUME MapType, MapType', NEW b, NEW e, PushedTo(b, e), m_allocSize' = m_allocSize,
         IsFiniteSet(Entries)
  PROVE  IsFiniteSet(Entries') /\ Cardinality(Entries') = Cardinality(Entries) + 1
  <1> DEFINE n == Len(m_data[b].chain)
  <1>1. (MapType => \A p : p \in Entries <=> IsPlace(p))'
    BY EntryPlaces, PTL
  <1>2. \A p : p \in Entries' <=>
          \E o \in 0 .. m_allocSize - 1 :
            \E i \in 1 .. Len(m_data'[o].chain) : p = <<o, i>>
    BY <1>1 DEF IsPlace
  <1>3. \A p : p \in Entries <=>
          \E o \in 0 .. m_allocSize - 1 :
            \E i \in 1 .. Len(m_data[o].chain) : p = <<o, i>>
    BY EntryPlaces DEF IsPlace
  <1>4. n \in Nat /\ b \in 0 .. m_allocSize - 1 /\ Len(m_data'[b].chain) = n + 1
    BY DEF PushedTo, MapType, BucketType
  <1>5. \A o \in 0 .. m_allocSize - 1 : o # b => m_data'[o] = m_data[o]
    BY DEF PushedTo
  <1>6. 1 .. n + 1 = (1 .. n) \cup {n + 1} /\ n + 1 \notin 1 .. n
    BY <1>4
  <1>7. <<b, n + 1>> \notin Entries
    BY <1>3, <1>6
  <1>8. ASSUME NEW p
        PROVE  p \in Entries' <=> p \in Entries \cup {<<b, n + 1>>}
    <2>1. ASSUME p \in Entries' PROVE p \in Entries \cup {<<b, n + 1>>}
      <3>1. PICK o \in 0 .. m_allocSize - 1 : \E i \in 1 .. Len(m_data'[o].chain) : p = <<o, i>>
        BY <2>1, <1>2
      <3>2. CASE o = b
        BY <3>1, <3>2, <1>3, <1>4, <1>6
      <3>3. CASE o # b
        BY <3>1, <3>3, <1>3, <1>5
      <3> QED
        BY <3>2, <3>3
    <2>2. ASSUME p \in Entries PROVE p \in Entries'
      <3>1. PICK o \in 0 .. m_allocSize - 1 : \E i \in 1 .. Len(m_data[o].chain) : p = <<o, i>>
        BY <2>2, <1>3
      <3>2. CASE o = b
        BY <3>1, <3>2, <1>2, <1>4, <1>6
      <3>3. CASE o # b
        BY <3>1, <3>3, <1>2, <1>5
      <3> QED
        BY <3>2, <3>3
    <2>3. <<b, n + 1>> \in Entries'
      BY <1>2, <1>4, <1>6
    <2> QED
      BY <2>1, <2>2, <2>3
  <1>9. Entries' = Entries \cup {<<b, n + 1>>}
    BY <1>8
  <1> QED
    BY <1>7, <1>9, FS_AddElement

\* HashMap_Remove discounts the entry that it takes out.
LEMMA RemovedPlace ==
  ASSUME MapType, MapType', NEW b, NEW at, TakenFrom(b, at), m_allocSize' = m_allocSize,
         IsFiniteSet(Entries)
  PROVE  IsFiniteSet(Entries') /\ Cardinality(Entries') = Cardinality(Entries) - 1
  <1> DEFINE n == Len(m_data[b].chain)
  <1>1. (MapType => \A p : p \in Entries <=> IsPlace(p))'
    BY EntryPlaces, PTL
  <1>2. \A p : p \in Entries' <=>
          \E o \in 0 .. m_allocSize - 1 :
            \E i \in 1 .. Len(m_data'[o].chain) : p = <<o, i>>
    BY <1>1 DEF IsPlace
  <1>3. \A p : p \in Entries <=>
          \E o \in 0 .. m_allocSize - 1 :
            \E i \in 1 .. Len(m_data[o].chain) : p = <<o, i>>
    BY EntryPlaces DEF IsPlace
  <1>4. n \in Nat \ {0} /\ b \in 0 .. m_allocSize - 1 /\ Len(m_data'[b].chain) = n - 1
    <2>1. m_data[b].chain \in Seq(EntryType)
      BY DEF TakenFrom, MapType, BucketType
    <2> QED
      BY <2>1 DEF TakenFrom
  <1>5. \A o \in 0 .. m_allocSize - 1 : o # b => m_data'[o] = m_data[o]
    BY DEF TakenFrom
  <1>6. 1 .. n = (1 .. n - 1) \cup {n} /\ n \notin 1 .. n - 1
    BY <1>4
  <1>7. <<b, n>> \in Entries
    BY <1>3, <1>4, <1>6
  <1>8. ASSUME NEW p
        PROVE  p \in Entries' <=> p \in Entries \ {<<b, n>>}
    <2>1. ASSUME p \in Entries' PROVE p \in Entries \ {<<b, n>>}
      <3>1. PICK o \in 0 .. m_allocSize - 1 : \E i \in 1 .. Len(m_data'[o].chain) : p = <<o, i>>
        BY <2>1, <1>2
      <3>2. CASE o = b
        BY <3>1, <3>2, <1>3, <1>4, <1>6
      <3>3. CASE o # b
        BY <3>1, <3>3, <1>3, <1>5
      <3> QED
        BY <3>2, <3>3
    <2>2. ASSUME p \in Entries, p # <<b, n>> PROVE p \in Entries'
      <3>1. PICK o \in 0 .. m_allocSize - 1 : \E i \in 1 .. Len(m_data[o].chain) : p = <<o, i>>
        BY <2>2, <1>3
      <3>2. CASE o = b
        BY <3>1, <3>2, <2>2, <1>2, <1>4, <1>6
      <3>3. CASE o # b
        BY <3>1, <3>3, <1>2, <1>5
      <3> QED
        BY <3>2, <3>3
    <2> QED
      BY <2>1, <2>2
  <1>9. Entries' = Entries \ {<<b, n>>}
    BY <1>8
  <1> QED
    BY <1>7, <1>9, FS_RemoveElement

LEMMA InitCounts == Init => CountInv
  <1> SUFFICES ASSUME Init PROVE CountInv
    OBVIOUS
  <1>1. MapType /\ \A b \in 0 .. m_allocSize - 1 : Len(m_data[b].chain) = 0
    BY InitInv DEF MapInv, Init, HashMap_Create, NoLists, NoList
  <1>2. Entries = {}
    BY <1>1, EntryPlaces DEF IsPlace
  <1> QED
    BY <1>2, FS_EmptySet DEF CountInv, Init, HashMap_Create

LEMMA NextKeepsCount == MapInv /\ CountInv /\ [Next]_vars => CountInv'
  <1> SUFFICES ASSUME MapInv, CountInv, [Next]_vars PROVE CountInv'
    OBVIOUS
  <1>1. MapType /\ MapType'
    BY NextKeepsInv DEF MapInv
  <1>2. ASSUME Next
        PROVE  /\ IsFiniteSet(Entries) /\ Cardinality(Entries) \in Nat /\ lost \in Nat
               /\ m_numOfItems = Cardinality(Entries) + lost
    BY <1>1, <1>2, FS_CardinalityType DEF Next, CountInv, MapType
  <1>3. ASSUME UNCHANGED <<mapVars, status, lost>> PROVE CountInv'
    BY <1>3 DEF mapVars, CountInv, Entries
  <1>4. ASSUME Next, NEW k \in Keys, NEW v \in Values, HashMap_Insert(k, v)
        PROVE  CountInv'
    <2>1. CASE Matches(Chain(text[k]), text[k]) # {}
      BY <1>3, <1>4, <2>1 DEF HashMap_Insert, Return, ghosts
    <2>2. CASE InsertWithoutList(k, v)
      <3>1. Entries' = Entries
        BY <2>2 DEF InsertWithoutList, Entries
      <3> QED
        BY <1>2, <1>4, <2>2, <3>1 DEF InsertWithoutList, CountInv
    <2>3. CASE InsertRefused(k, v)
      <3>1. text[k] \in Texts
        BY <1>1 DEF MapType
      <3>2. \A b \in 0 .. m_allocSize - 1 : m_data'[b].chain = m_data[b].chain
        <4> DEFINE o == Bucket(text[k])
        <4>1. CASE m_data' = m_data
          BY <4>1
        <4>2. CASE m_data' = [m_data EXCEPT ![o].list = TRUE]
          <5>1. o \in 0 .. m_allocSize - 1
            BY <1>1, <3>1, BucketOfText
          <5> HIDE DEF o
          <5> QED
            BY <1>1, <4>2, <5>1 DEF MapType, BucketType
        <4> QED
          BY <2>3, <4>1, <4>2 DEF InsertRefused
      <3>3. Entries' = Entries
        BY <1>1, <2>3, <3>2, SamePlaces DEF InsertRefused
      <3> QED
        BY <1>2, <1>4, <2>3, <3>3 DEF InsertRefused, CountInv, ghosts
    <2>4. CASE InsertStored(k, v)
      <3>1. IsFiniteSet(Entries') /\ Cardinality(Entries') = Cardinality(Entries) + 1
        BY <1>1, <1>2, <1>4, <2>4, StoredEffect, StoredPlace DEF InsertStored
      <3>2. m_numOfItems' = m_numOfItems + 1 /\ lost' = lost
        BY <2>4 DEF InsertStored, Store, ghosts
      <3> QED
        BY <1>2, <1>4, <3>1, <3>2 DEF CountInv
    <2> QED
      BY <1>4, <2>1, <2>2, <2>3, <2>4 DEF HashMap_Insert
  <1>5. ASSUME Next, NEW t \in Texts, HashMap_Remove(t)
        PROVE  CountInv'
    <2>1. CASE Matches(Chain(t), t) = {}
      BY <1>3, <1>5, <2>1 DEF HashMap_Remove, Return, ghosts
    <2>2. CASE Matches(Chain(t), t) # {}
      <3>1. m_allocSize' = m_allocSize /\ m_numOfItems' = m_numOfItems - 1 /\ lost' = lost
        BY <1>5, <2>2 DEF HashMap_Remove, ghosts
      <3>2. IsFiniteSet(Entries') /\ Cardinality(Entries') = Cardinality(Entries) - 1
        BY <1>1, <1>2, <1>5, <2>2, <3>1, RemovedEffect, RemovedPlace
      <3> QED
        BY <1>2, <1>5, <3>1, <3>2 DEF CountInv
    <2> QED
      BY <2>1, <2>2
  <1>6. ASSUME NEW t \in Texts, HashMap_Find(t)
        PROVE  CountInv'
    BY <1>3, <1>6 DEF HashMap_Find, Return, ghosts
  <1>7. ASSUME NEW destroyers \in BOOLEAN, HashMap_Destroy(destroyers)
        PROVE  CountInv'
    BY <1>7 DEF HashMap_Destroy, CountInv
  <1>8. ASSUME NEW k \in Buffers, NEW t \in Texts, Overwrite(k, t)
        PROVE  CountInv'
    BY <1>3, <1>8 DEF Overwrite
  <1>9. CASE UNCHANGED vars
    BY <1>3, <1>9 DEF vars, ghosts
  <1> QED
    BY <1>4, <1>5, <1>6, <1>7, <1>8, <1>9 DEF Next, Call

\* HashMap_Size is the number of entries (GenericHash.c:266, 330) for every map
\* and every order of calls in which every list could be created.
THEOREM SizeCountsEntries == Spec => []CountIsEntries
  <1>1. CountInv => CountIsEntries
    <2> SUFFICES ASSUME CountInv, status = "valid", lost = 0
                 PROVE  m_numOfItems = Cardinality(Entries)
      BY DEF CountIsEntries
    <2>1. Cardinality(Entries) \in Nat /\ m_numOfItems = Cardinality(Entries) + 0
      BY FS_CardinalityType DEF CountInv
    <2> QED
      BY <2>1
  <1>2. Spec => []CountInv
    BY InitCounts, NextKeepsCount, MapInvariant, PTL DEF Spec
  <1> QED
    BY <1>1, <1>2, PTL
-----------------------------------------------------------------------------
(***************************************************************************)
(* The types, and the size of the table.                                   *)
(***************************************************************************)

\* CheckIfPrime tries the odd numbers up to the square root: of two factors
\* the smaller is one of them.
LEMMA PrimeHasNoDivisor ==
  ASSUME NEW n \in Nat, n > 1, CheckIfPrime(n), NEW d \in 2 .. n - 1
  PROVE  n % d # 0
  <1> SUFFICES ASSUME n % d = 0 PROVE FALSE
    OBVIOUS
  <1> DEFINE e == n \div d
  <1>1. e \in Nat /\ n = d * e
    <2>1. d \in Nat \ {0}
      OBVIOUS
    <2>2. n = d * e + (n % d) /\ e \in Nat
      BY <2>1, Division
    <2> QED
      BY <2>1, <2>2
  <1>2. n % 2 # 0 /\ \A i \in 3 .. n : i * i <= n /\ i % 2 = 1 => n % i # 0
    BY DEF CheckIfPrime
  <1>3. ASSUME NEW i \in Nat \ {0}, NEW j \in Nat, n = i * j
        PROVE  i % 2 = 1
    <2>1. i = 2 * (i \div 2) + (i % 2) /\ i \div 2 \in Nat /\ i % 2 \in 0 .. 1
      <3>1. i \in Nat /\ 2 \in Nat \ {0} /\ 2 - 1 = 1
        OBVIOUS
      <3> QED
        BY <3>1, Division
    <2>2. ASSUME i % 2 = 0 PROVE FALSE
      <3> DEFINE h == i \div 2
      <3>1. i = 2 * h /\ h \in Nat
        BY <2>1, <2>2
      <3> HIDE DEF h
      <3>2. n = 2 * (h * j) /\ h * j \in Nat
        BY <1>3, <3>1
      <3>3. n % 2 = 0
        BY <3>2, MultipleOf
      <3> QED
        BY <3>3, <1>2
    <2> QED
      BY <2>1, <2>2
  <1> HIDE DEF e
  <1>4. e # 0 /\ e # 1
    BY <1>1
  <1>5. d % 2 = 1 /\ e % 2 = 1
    <2>1. n = e * d
      BY <1>1
    <2> QED
      BY <1>1, <1>3, <1>4, <2>1
  <1>6. n % e = 0
    <2>1. n = e * d
      BY <1>1
    <2> QED
      BY <1>1, <1>4, <2>1, MultipleOf
  <1>7. d \in 3 .. n
    BY <1>5
  <1>8. e \in 3 .. n
    <2>1. e <= d * e
      BY <1>1
    <2>2. e # 2
      BY <1>5
    <2> QED
      BY <1>1, <1>4, <2>1, <2>2
  <1>9. CASE d <= e
    <2>1. d * d <= d * e
      BY <1>1, <1>9
    <2> QED
      BY <1>1, <1>2, <1>5, <1>7, <2>1
  <1>10. CASE e <= d
    <2>1. e * e <= d * e
      BY <1>1, <1>10
    <2> QED
      BY <1>1, <1>2, <1>5, <1>6, <1>8, <2>1
  <1> QED
    BY <1>1, <1>9, <1>10

\* A prime passes: no odd number up to its square root divides it.
LEMMA PrimePasses ==
  ASSUME NEW n \in Nat, Prime(n)
  PROVE  CheckIfPrime(n)
  <1>1. n > 1 /\ \A d \in 2 .. n - 1 : n % d # 0
    BY DEF Prime
  <1>2. n = 2 \/ n % 2 # 0
    BY <1>1
  <1>3. ASSUME NEW i \in 3 .. n, i * i <= n
        PROVE  n % i # 0
    <2>1. i < i * i
      OBVIOUS
    <2>2. i \in 2 .. n - 1
      BY <1>3, <2>1
    <2> QED
      BY <1>1, <2>2
  <1> QED
    BY <1>2, <1>3 DEF CheckIfPrime

\* CheckIfPrime lets the primes pass and, of the other numbers, only one.
LEMMA PrimesPass ==
  ASSUME NEW n \in Nat, n > 1
  PROVE  CheckIfPrime(n) <=> Prime(n)
  <1>1. CheckIfPrime(n) => Prime(n)
    BY PrimeHasNoDivisor DEF Prime
  <1> QED
    BY <1>1, PrimePasses

\* The table of a capacity that is neither a prime nor one: FindPrimeLargerThan
\* goes up to the first number that passes.
LEMMA FirstLargerPrime ==
  ASSUME NEW n \in Capacities, n > 1, ~Prime(n)
  PROVE  NearestLargerPrime(FindPrimeLargerThan(n), n)
  <1> DEFINE p == FindPrimeLargerThan(n)
  <1>1. n \in Nat \ {0}
    BY HashAssumption
  <1>2. p \in n .. 2 * n /\ IsFirstPrime(p, n)
    BY <1>1, PrimeAssumption DEF FindPrimeLargerThan
  <1> HIDE DEF p
  <1>3. p \in Nat /\ p > 1
    BY <1>1, <1>2
  <1>4. CheckIfPrime(p) /\ \A q \in n .. p - 1 : ~CheckIfPrime(q)
    BY <1>2 DEF IsFirstPrime
  <1>5. Prime(p)
    BY <1>3, <1>4, PrimesPass
  <1>6. p # n
    BY <1>5
  <1>7. ASSUME NEW q \in n + 1 .. p - 1 PROVE ~Prime(q)
    <2>1. q \in Nat /\ q \in n .. p - 1
      BY <1>1
    <2> QED
      BY <1>4, <2>1, PrimePasses
  <1>8. p > n
    BY <1>1, <1>2, <1>6
  <1>9. NearestLargerPrime(p, n)
    BY <1>5, <1>7, <1>8 DEF NearestLargerPrime
  <1> QED
    BY <1>9 DEF p

\* HashMap_Create's table, as long as the map lives.
TableOf == m_hashSize \in Capacities /\ m_allocSize = FindPrimeLargerThan(m_hashSize)

LEMMA NextKeepsTable == TableOf /\ [Next]_vars => TableOf'
  <1> SUFFICES ASSUME TableOf, [Next]_vars PROVE TableOf'
    OBVIOUS
  <1>1. ASSUME NEW k \in Keys, NEW v \in Values, HashMap_Insert(k, v)
        PROVE  UNCHANGED <<m_hashSize, m_allocSize>>
    BY <1>1 DEF HashMap_Insert, InsertWithoutList, InsertRefused, InsertStored, mapVars
  <1>2. ASSUME NEW t \in Texts, HashMap_Remove(t) \/ HashMap_Find(t)
        PROVE  UNCHANGED <<m_hashSize, m_allocSize>>
    BY <1>2 DEF HashMap_Remove, HashMap_Find, mapVars
  <1>3. ASSUME NEW destroyers \in BOOLEAN, HashMap_Destroy(destroyers)
        PROVE  UNCHANGED <<m_hashSize, m_allocSize>>
    BY <1>3 DEF HashMap_Destroy
  <1>4. ASSUME NEW k \in Buffers, NEW t \in Texts, Overwrite(k, t)
        PROVE  UNCHANGED <<m_hashSize, m_allocSize>>
    BY <1>4 DEF Overwrite, mapVars
  <1>5. UNCHANGED <<m_hashSize, m_allocSize>>
    BY <1>1, <1>2, <1>3, <1>4 DEF Next, Call, vars, mapVars
  <1> QED
    BY <1>5 DEF TableOf

\* GenericHash.c:58-94: for every capacity that is neither a prime nor one, the
\* table has as many buckets as the nearest larger prime, and keeps them.
THEOREM TableIsPrime == Spec => []PrimeTable
  <1>1. Init => TableOf
    BY DEF Init, HashMap_Create, TableOf
  <1>2. TableOf => PrimeTable
    BY FirstLargerPrime DEF TableOf, PrimeTable
  <1> QED
    BY <1>1, <1>2, NextKeepsTable, PTL DEF Spec

\* What a call answers, and the count of a map that is no more.
AnswerType ==
  /\ lost \in 0 .. MaxLost /\ undestroyed \in Nat
  /\ result \in {"MAP_SUCCESS", "MAP_KEY_DUPLICATE_ERROR", "MAP_KEY_NOT_FOUND_ERROR",
                 "MAP_ALLOCATION_ERROR"}
  /\ reply \in Values \cup {NULL}
  /\ status \in {"valid", "destroyed", "crashed", "hung"}
  /\ status # "valid" => m_numOfItems = 0

LEMMA InitTypes == Init => AnswerType
  BY HashAssumption DEF Init, HashMap_Create, AnswerType

\* Every call returns one of its codes and a value that was inserted.
LEMMA NextKeepsTypes ==
  MapInv /\ CountInv /\ AnswerType /\ [Next]_vars => AnswerType'
  <1> SUFFICES ASSUME MapInv, CountInv, AnswerType, [Next]_vars PROVE AnswerType'
    OBVIOUS
  <1>2. ASSUME NEW k \in Keys, NEW v \in Values, status = "valid", HashMap_Insert(k, v)
        PROVE  AnswerType'
    <2>1. CASE Return("MAP_KEY_DUPLICATE_ERROR", NULL) /\ UNCHANGED <<mapVars, ghosts>>
      BY <1>2, <2>1 DEF Return, mapVars, ghosts, AnswerType
    <2>2. CASE InsertWithoutList(k, v)
      <3>1. lost' = lost + 1 /\ lost < MaxLost /\ MaxLost \in Nat
        BY <2>2, HashAssumption DEF InsertWithoutList
      <3> QED
        BY <1>2, <2>2, <3>1 DEF InsertWithoutList, Return, AnswerType
    <2>3. CASE InsertRefused(k, v)
      BY <1>2, <2>3 DEF InsertRefused, Return, ghosts, AnswerType
    <2>4. CASE InsertStored(k, v)
      BY <1>2, <2>4 DEF InsertStored, Return, ghosts, AnswerType
    <2> QED
      BY <1>2, <2>1, <2>2, <2>3, <2>4 DEF HashMap_Insert
  <1>3. ASSUME NEW t \in Texts, Matches(Chain(t), t) # {}
        PROVE  Chain(t)[First(Chain(t), t)].m_value \in Values
    <2>1. Chain(t) \in Seq(EntryType) /\ Matches(Chain(t), t) \subseteq 1 .. Len(Chain(t))
      BY BucketOfText DEF MapInv
    <2>2. First(Chain(t), t) \in 1 .. Len(Chain(t))
      BY <1>3, <2>1, FirstIsMatch
    <2>3. Chain(t)[First(Chain(t), t)] \in EntryType
      BY <2>1, <2>2
    <2> QED
      BY <2>3 DEF EntryType
  <1>4. ASSUME NEW t \in Texts, status = "valid", HashMap_Remove(t)
        PROVE  AnswerType'
    <2>1. CASE Matches(Chain(t), t) = {}
      BY <1>4, <2>1 DEF HashMap_Remove, Return, mapVars, ghosts, AnswerType
    <2>2. CASE Matches(Chain(t), t) # {}
      BY <1>3, <1>4, <2>2 DEF HashMap_Remove, Return, ghosts, AnswerType
    <2> QED
      BY <2>1, <2>2
  <1>5. ASSUME NEW t \in Texts, status = "valid", HashMap_Find(t)
        PROVE  AnswerType'
    BY <1>3, <1>5 DEF HashMap_Find, Return, mapVars, ghosts, AnswerType
  <1>6. ASSUME NEW destroyers \in BOOLEAN, status = "valid",
               HashMap_Destroy(destroyers)
        PROVE  AnswerType'
    <2>1. undestroyed' = 0 \/ \E S \in SUBSET Entries : undestroyed' = Cardinality(S)
      BY <1>6 DEF HashMap_Destroy
    <2>2. undestroyed' \in Nat
      BY <1>6, <2>1, FS_CardinalityType, FS_Subset DEF CountInv
    <2> QED
      BY <1>6, <2>2 DEF HashMap_Destroy, AnswerType
  <1>7. ASSUME NEW k \in Buffers, NEW t \in Texts, status = "valid", Overwrite(k, t)
        PROVE  AnswerType'
    BY <1>7 DEF Overwrite, mapVars, AnswerType
  <1>8. CASE UNCHANGED vars
    BY <1>8 DEF vars, mapVars, ghosts, AnswerType
  <1> QED
    BY <1>2, <1>4, <1>5, <1>6, <1>7, <1>8 DEF Next, Call

\* Every call keeps the types, and HashMap_Remove never counts below zero
\* (GenericHash.c:330).
THEOREM TypeCorrect == Spec => []TypeOK
  <1>1. MapInv /\ CountInv /\ TableOf /\ AnswerType => TypeOK
    <2> SUFFICES ASSUME MapInv, CountInv, TableOf, AnswerType PROVE TypeOK
      OBVIOUS
    <2>1. m_numOfItems \in Nat
      <3>1. CASE status = "valid"
        BY <3>1, FS_CardinalityType DEF CountInv, AnswerType
      <3> QED
        BY <3>1 DEF AnswerType
    <2>2. /\ DOMAIN m_data = 0 .. m_allocSize - 1
          /\ \A b \in DOMAIN m_data : /\ m_data[b].list \in BOOLEAN
                                      /\ m_data[b].chain \in Seq(EntryType)
                                      /\ ~m_data[b].list => m_data[b].chain = << >>
      BY DEF MapInv, MapType, BucketType
    <2> QED
      BY <2>1, <2>2 DEF TypeOK, TableOf, AnswerType, MapInv, MapType
  <1>2. Init => TableOf
    BY DEF Init, HashMap_Create, TableOf
  <1> QED
    BY <1>1, <1>2, InitTypes, NextKeepsTypes, NextKeepsTable, InitCounts, NextKeepsCount,
       MapInvariant, PTL DEF Spec
-----------------------------------------------------------------------------
(***************************************************************************)
(* That the hash map implements AssocMap: chains, places in them and       *)
(* collisions cannot be told from the answers, until a stored key is       *)
(* written over or a list is not created.                                  *)
(***************************************************************************)

\* Some entry in the bucket of text t reads t and has value v.
Holds(t, v) ==
  \E i \in 1 .. Len(m_data[Bucket(t)].chain) :
    /\ text[m_data[Bucket(t)].chain[i].m_key] = t
    /\ m_data[Bucket(t)].chain[i].m_value = v

BoundIfHeld ==
  \A t \in Texts :
    /\ BoundValues[t] \in Values \cup {NULL}
    /\ BoundValues[t] # NULL <=> Matches(Chain(t), t) # {}
    /\ \A v \in Values : BoundValues[t] = v <=> Holds(t, v)

\* A search that stops at the first match has found the only one
\* (HashMap_Find, HashMap_Remove).
LEMMA BoundIsHeld == MapInv /\ ~overwritten => BoundIfHeld
  <1> SUFFICES ASSUME MapInv, ~overwritten, NEW t \in Texts
               PROVE  /\ BoundValues[t] \in Values \cup {NULL}
                      /\ BoundValues[t] # NULL <=> Matches(Chain(t), t) # {}
                      /\ \A v \in Values : BoundValues[t] = v <=> Holds(t, v)
    BY DEF BoundIfHeld
  <1> DEFINE b == Bucket(t)
             c == m_data[b].chain
             at == First(c, t)
  <1>1. b \in 0 .. m_allocSize - 1 /\ c \in Seq(EntryType) /\ Chain(t) = c
    BY BucketOfText DEF MapInv
  <1>2. NULL \notin Values
    BY HashAssumption
  <1>3. BoundValues[t] = IF Matches(c, t) = {} THEN NULL ELSE c[at].m_value
    BY <1>1 DEF BoundValues
  <1>4. Matches(c, t) = {i \in 1 .. Len(c) : text[c[i].m_key] = t}
    BY <1>1 DEF Matches
  <1>5. ASSUME NEW i \in 1 .. Len(c)
        PROVE  c[i].m_key \in Fixed /\ c[i].m_value \in Values
    <2>1. c[i] \in EntryType
      BY <1>1
    <2> QED
      BY <2>1 DEF EntryType, Fixed
  <1>6. CASE Matches(c, t) = {}
    BY <1>1, <1>2, <1>3, <1>4, <1>6 DEF Holds
  <1>7. CASE Matches(c, t) # {}
    <2>1. at \in 1 .. Len(c) /\ text[c[at].m_key] = t
      <3> HIDE DEF c
      <3> QED
        BY <1>1, <1>4, <1>7, FirstIsMatch
    <2>2. ASSUME NEW i \in 1 .. Len(c), text[c[i].m_key] = t
          PROVE  i = at
      BY <1>1, <1>5, <2>1, <2>2 DEF MapInv, OncePerChain, DifferentKeys
    <2> HIDE DEF at
    <2>3. BoundValues[t] = c[at].m_value /\ c[at].m_value \in Values
      BY <1>3, <1>5, <1>7, <2>1
    <2>4. ASSUME NEW v \in Values PROVE Holds(t, v) <=> c[at].m_value = v
      BY <2>1, <2>2 DEF Holds
    <2> QED
      BY <1>1, <1>2, <1>7, <2>3, <2>4
  <1> QED
    BY <1>6, <1>7

\* The same, after a step.
LEMMA BoundIsHeldNext ==
  ASSUME MapInv', ~overwritten', NEW u \in Texts
  PROVE  /\ BoundValues'[u] \in Values \cup {NULL}
         /\ \A v \in Values : BoundValues'[u] = v <=> Holds(u, v)'
  <1>1. (MapInv /\ ~overwritten => BoundIfHeld)'
    BY BoundIsHeld, PTL
  <1> QED
    BY <1>1 DEF BoundIfHeld

\* A text is bound as before if it is held as before.
LEMMA SameBound ==
  ASSUME MapInv, MapInv', ~overwritten, ~overwritten', NEW t \in Texts,
         \A v \in Values : Holds(t, v)' <=> Holds(t, v)
  PROVE  BoundValues'[t] = BoundValues[t]
  <1>1. /\ BoundValues[t] \in Values \cup {NULL}
        /\ \A v \in Values : BoundValues[t] = v <=> Holds(t, v)
    BY BoundIsHeld DEF BoundIfHeld
  <1> QED
    BY <1>1, BoundIsHeldNext

LEMMA BoundDomain ==
  /\ BoundValues = [t \in Texts |-> BoundValues[t]]
  /\ BoundValues' = [t \in Texts |-> BoundValues'[t]]
  BY DEF BoundValues

\* Chains that are as they were bind every text as before.
LEMMA SameAnswers ==
  ASSUME m_allocSize' = m_allocSize, text' = text, MapType, MapType',
         \A b \in 0 .. m_allocSize - 1 : m_data'[b].chain = m_data[b].chain
  PROVE  BoundValues' = BoundValues
  <1>1. ASSUME NEW t \in Texts
        PROVE  Bucket(t)' = Bucket(t) /\ Chain(t)' = Chain(t)
    <2>1. Bucket(t) \in 0 .. m_allocSize - 1
      BY BucketOfText
    <2> QED
      BY <2>1 DEF Bucket, Chain
  <1>2. ASSUME NEW t \in Texts
        PROVE  /\ Matches(Chain(t), t)' = Matches(Chain(t), t)
               /\ First(Chain(t), t)' = First(Chain(t), t)
    <2>1. Matches(Chain(t), t)' = Matches(Chain(t), t)
      BY <1>1 DEF Matches
    <2> QED
      BY <2>1 DEF First
  <1>3. ASSUME NEW t \in Texts
        PROVE  BoundValues'[t] = BoundValues[t]
    BY <1>1, <1>2 DEF BoundValues
  <1> QED
    BY <1>3, BoundDomain
-----------------------------------------------------------------------------
(***************************************************************************)
(* One lemma per call, for steps after which the map is not Broken.        *)
(***************************************************************************)

\* An entry that is stored binds its text and no other (HashMap_Insert).
LEMMA StoredBinds ==
  ASSUME MapInv, MapInv', ~overwritten, ~overwritten',
         NEW k \in Keys, NEW v \in Values, NEW s \in Texts, text[k] = s,
         Matches(Chain(s), s) = {}, InsertStored(k, v)
  PROVE  Abstract!Bind(s, v)
  <1> DEFINE b == Bucket(s)
             e == [m_key |-> k, m_value |-> v]
             c == m_data[b].chain
             d == m_data'[b].chain
  <1>1. MapType
    BY DEF MapInv
  <1>2. PushedTo(b, e)
    BY <1>1, StoredEffect
  <1>3. /\ m_allocSize' = m_allocSize /\ text' = text
        /\ m_numOfItems' = m_numOfItems + 1
        /\ result' = "MAP_SUCCESS" /\ reply' = NULL
    BY DEF InsertStored, Store, Return
  <1>4. c \in Seq(EntryType) /\ Chain(s) = c
    BY <1>1, BucketOfText
  <1>5. text[e.m_key] = s /\ e.m_value = v
    OBVIOUS
  <1> HIDE DEF b, e
  <1>6. /\ Len(d) = Len(c) + 1 /\ d[1] = e
        /\ \A j \in 1 .. Len(c) : d[j + 1] = c[j]
    BY <1>2 DEF PushedTo
  <1>7. BoundValues[s] = NULL
    BY BoundIsHeld DEF BoundIfHeld
  <1>8. BoundValues'[s] = v
    <2>1. Holds(s, v)'
      <3>1. Bucket(s)' = b /\ 1 \in 1 .. Len(d)
        BY <1>3, <1>4, <1>6 DEF Bucket, b
      <3> QED
        BY <3>1, <1>3, <1>5, <1>6 DEF Holds
    <2> QED
      BY <2>1, BoundIsHeldNext
  <1>9. ASSUME NEW t \in Texts, t # s
        PROVE  BoundValues'[t] = BoundValues[t]
    <2>1. Bucket(t)' = Bucket(t) /\ Bucket(t) \in 0 .. m_allocSize - 1
      BY <1>1, <1>3, BucketOfText DEF Bucket
    <2>2. ASSUME NEW w \in Values PROVE Holds(t, w)' <=> Holds(t, w)
      <3>1. CASE Bucket(t) # b
        <4>1. m_data'[Bucket(t)] = m_data[Bucket(t)]
          BY <1>2, <2>1, <3>1 DEF PushedTo
        <4> QED
          BY <1>3, <2>1, <4>1 DEF Holds
      <3>2. CASE Bucket(t) = b
        <4>1. Holds(t, w) <=> \E i \in 1 .. Len(c) : text[c[i].m_key] = t /\ c[i].m_value = w
          BY <3>2 DEF Holds
        <4>2. Holds(t, w)' <=> \E i \in 1 .. Len(d) : text[d[i].m_key] = t /\ d[i].m_value = w
          BY <1>3, <2>1, <3>2 DEF Holds
        <4> HIDE DEF c, d
        <4>3. ASSUME NEW i \in 1 .. Len(c) PROVE i + 1 \in 1 .. Len(d) /\ d[i + 1] = c[i]
          BY <1>4, <1>6
        <4>4. ASSUME NEW i \in 1 .. Len(d), text[d[i].m_key] = t
              PROVE  i - 1 \in 1 .. Len(c) /\ d[i] = c[i - 1]
          <5>1. i # 1
            BY <1>5, <1>6, <1>9, <4>4
          <5> QED
            BY <1>4, <1>6, <5>1
        <4> QED
          BY <4>1, <4>2, <4>3, <4>4
      <3> QED
        BY <3>1, <3>2
    <2> QED
      BY <2>2, SameBound
  <1>10. BoundValues' = [BoundValues EXCEPT ![s] = v]
    BY <1>8, <1>9, BoundDomain
  <1> QED
    BY <1>3, <1>7, <1>10 DEF Abstract!Bind, Abstract!Answer

\* The entry that is taken out is its text's only one (HashMap_Remove).
LEMMA RemovedUnbinds ==
  ASSUME MapInv, MapInv', ~overwritten, ~overwritten',
         NEW s \in Texts, Matches(Chain(s), s) # {}, HashMap_Remove(s)
  PROVE  Abstract!Unbind(s)
  <1> DEFINE b == Bucket(s)
             c == m_data[b].chain
             at == First(Chain(s), s)
             d == m_data'[b].chain
  <1>1. MapType
    BY DEF MapInv
  <1>2. TakenFrom(b, at)
    BY <1>1, RemovedEffect
  <1>3. /\ m_allocSize' = m_allocSize /\ text' = text
        /\ m_numOfItems' = m_numOfItems - 1
        /\ result' = "MAP_SUCCESS" /\ reply' = Chain(s)[at].m_value
    BY DEF HashMap_Remove, Return
  <1>4. c \in Seq(EntryType) /\ Chain(s) = c /\ b \in 0 .. m_allocSize - 1
    BY <1>1, BucketOfText
  <1>5. BoundValues[s] = c[at].m_value /\ BoundValues[s] # NULL
    BY <1>4, BoundIsHeld DEF BoundIfHeld, BoundValues
  <1>6. at \in 1 .. Len(c) /\ text[c[at].m_key] = s
    <2>1. at \in Matches(c, s)
      <3> HIDE DEF c
      <3> QED
        BY <1>4, FirstIsMatch
    <2> QED
      BY <1>4, <2>1 DEF Matches
  <1> HIDE DEF b, at
  <1>7. /\ Len(d) = Len(c) - 1
        /\ \A j \in 1 .. Len(d) : d[j] = c[IF j < at THEN j ELSE j + 1]
    BY <1>2 DEF TakenFrom
  <1>8. ASSUME NEW i \in 1 .. Len(c), i # at
        PROVE  text[c[i].m_key] # s
    <2>1. c[i] \in EntryType /\ c[at] \in EntryType
      BY <1>4, <1>6
    <2>2. c[i].m_key \in Fixed /\ c[at].m_key \in Fixed
      BY <2>1 DEF EntryType, Fixed
    <2> QED
      BY <1>4, <1>6, <1>8, <2>2 DEF MapInv, OncePerChain, DifferentKeys
  <1> HIDE DEF c, d
  <1>9. ASSUME NEW j \in 1 .. Len(d)
        PROVE  \E i \in 1 .. Len(c) : i # at /\ d[j] = c[i]
    <2> DEFINE i == IF j < at THEN j ELSE j + 1
    <2>1. i \in 1 .. Len(c) /\ i # at
      BY <1>4, <1>6, <1>7
    <2> QED
      BY <1>7, <2>1
  <1>10. ASSUME NEW i \in 1 .. Len(c), i # at
         PROVE  \E j \in 1 .. Len(d) : d[j] = c[i]
    <2> DEFINE j == IF i < at THEN i ELSE i - 1
    <2>1. j \in 1 .. Len(d) /\ i = IF j < at THEN j ELSE j + 1
      BY <1>4, <1>6, <1>7, <1>10
    <2> QED
      BY <1>7, <2>1
  <1>11. BoundValues'[s] = NULL
    <2>1. Bucket(s)' = b
      BY <1>3 DEF Bucket, b
    <2>2. ASSUME NEW w \in Values PROVE ~Holds(s, w)'
      BY <1>3, <1>8, <1>9, <2>1 DEF Holds, d
    <2> QED
      BY <2>2, BoundIsHeldNext
  <1>12. ASSUME NEW t \in Texts, t # s
         PROVE  BoundValues'[t] = BoundValues[t]
    <2>1. Bucket(t)' = Bucket(t) /\ Bucket(t) \in 0 .. m_allocSize - 1
      BY <1>1, <1>3, BucketOfText DEF Bucket
    <2>2. ASSUME NEW w \in Values PROVE Holds(t, w)' <=> Holds(t, w)
      <3>1. CASE Bucket(t) # b
        <4>1. m_data'[Bucket(t)] = m_data[Bucket(t)]
          BY <1>2, <2>1, <3>1 DEF TakenFrom
        <4> QED
          BY <1>3, <2>1, <4>1 DEF Holds
      <3>2. CASE Bucket(t) = b
        <4>1. Holds(t, w) <=> \E i \in 1 .. Len(c) : text[c[i].m_key] = t /\ c[i].m_value = w
          BY <3>2 DEF Holds, c
        <4>2. Holds(t, w)' <=> \E i \in 1 .. Len(d) : text[d[i].m_key] = t /\ d[i].m_value = w
          BY <1>3, <2>1, <3>2 DEF Holds, d
        <4>3. ASSUME NEW i \in 1 .. Len(c), text[c[i].m_key] = t PROVE i # at
          BY <1>6, <1>12, <4>3
        <4>4. Holds(t, w)' => Holds(t, w)
          BY <1>9, <4>1, <4>2
        <4>5. ASSUME NEW i \in 1 .. Len(c), text[c[i].m_key] = t, c[i].m_value = w
              PROVE  \E j \in 1 .. Len(d) : text[d[j].m_key] = t /\ d[j].m_value = w
          BY <1>10, <4>3, <4>5
        <4> QED
          BY <4>1, <4>2, <4>4, <4>5
      <3> QED
        BY <3>1, <3>2
    <2> QED
      BY <2>2, SameBound
  <1>13. BoundValues' = [BoundValues EXCEPT ![s] = NULL]
    BY <1>11, <1>12, BoundDomain
  <1> QED
    BY <1>3, <1>4, <1>5, <1>13 DEF Abstract!Unbind, Abstract!Answer

\* A call that changes no chain answers as the abstract map does.
LEMMA UnchangedChains ==
  ASSUME MapInv, MapInv', UNCHANGED <<m_allocSize, text>>,
         m_data' = m_data
  PROVE  BoundValues' = BoundValues
  BY SameAnswers DEF MapInv

LEMMA InsertSimulates ==
  ASSUME MapInv, MapInv', ~Broken, ~Broken',
         NEW k \in Keys, NEW v \in Values, HashMap_Insert(k, v)
  PROVE  \E t \in Texts : Abstract!Insert(t, v)
  <1>1. MapType /\ MapType' /\ text[k] \in Texts
    BY DEF MapInv, MapType
  <1>2. PICK t \in Texts : t = text[k]
    BY <1>1
  <1>3. BoundValues[t] # NULL <=> Matches(Chain(t), t) # {}
    BY BoundIsHeld DEF BoundIfHeld, Broken
  <1>4. CASE Matches(Chain(t), t) # {}
    <2>1. /\ result' = "MAP_KEY_DUPLICATE_ERROR" /\ reply' = NULL
          /\ UNCHANGED mapVars /\ text' = text
      BY <1>2, <1>4 DEF HashMap_Insert, Return
    <2>2. BoundValues' = BoundValues /\ m_numOfItems' = m_numOfItems
      BY <2>1, UnchangedChains DEF mapVars
    <2>3. Abstract!Insert(t, v)
      BY <1>3, <1>4, <2>1, <2>2 DEF Abstract!Insert, Abstract!Fails, Abstract!Answer
    <2> QED
      BY <2>3
  <1>5. CASE Matches(Chain(t), t) = {} /\ InsertWithoutList(k, v)
    BY <1>1, <1>5 DEF InsertWithoutList, Broken, MapType
  <1>6. CASE Matches(Chain(t), t) = {} /\ InsertRefused(k, v)
    <2>1. /\ result' = "MAP_ALLOCATION_ERROR" /\ reply' = NULL /\ text' = text
          /\ UNCHANGED <<m_allocSize, m_numOfItems>>
      BY <1>6 DEF InsertRefused, Return
    <2>2. \A b \in 0 .. m_allocSize - 1 : m_data'[b].chain = m_data[b].chain
      <3> DEFINE o == Bucket(text[k])
      <3>1. CASE m_data' = m_data
        BY <3>1
      <3>2. CASE m_data' = [m_data EXCEPT ![o].list = TRUE]
        <4>1. o \in 0 .. m_allocSize - 1
          BY <1>1, BucketOfText
        <4> HIDE DEF o
        <4> QED
          BY <1>1, <3>2, <4>1 DEF MapType, BucketType
      <3> QED
        BY <1>6, <3>1, <3>2 DEF InsertRefused
    <2>3. BoundValues' = BoundValues
      BY <1>1, <2>1, <2>2, SameAnswers
    <2>4. Abstract!Insert(t, v)
      BY <1>3, <1>6, <2>1, <2>3 DEF Abstract!Insert, Abstract!Fails, Abstract!Answer
    <2> QED
      BY <2>4
  <1>7. CASE Matches(Chain(t), t) = {} /\ InsertStored(k, v)
    <2>1. Abstract!Bind(t, v)
      BY <1>2, <1>7, StoredBinds DEF Broken
    <2> QED
      BY <2>1 DEF Abstract!Insert
  <1> QED
    BY <1>2, <1>4, <1>5, <1>6, <1>7 DEF HashMap_Insert

LEMMA RemoveSimulates ==
  ASSUME MapInv, MapInv', ~Broken, ~Broken', NEW t \in Texts, HashMap_Remove(t)
  PROVE  Abstract!Unbind(t) \/ Abstract!Missing(t)
  <1>1. BoundValues[t] # NULL <=> Matches(Chain(t), t) # {}
    BY BoundIsHeld DEF BoundIfHeld, Broken
  <1>2. CASE Matches(Chain(t), t) = {}
    <2>1. /\ result' = "MAP_KEY_NOT_FOUND_ERROR" /\ reply' = NULL
          /\ UNCHANGED mapVars /\ text' = text
      BY <1>2 DEF HashMap_Remove, Return
    <2>2. BoundValues' = BoundValues /\ m_numOfItems' = m_numOfItems
      BY <2>1, UnchangedChains DEF mapVars
    <2> QED
      BY <1>1, <1>2, <2>1, <2>2 DEF Abstract!Missing, Abstract!Fails, Abstract!Answer
  <1>3. CASE Matches(Chain(t), t) # {}
    BY <1>3, RemovedUnbinds DEF Broken
  <1> QED
    BY <1>2, <1>3

LEMMA FindSimulates ==
  ASSUME MapInv, MapInv', ~Broken, NEW t \in Texts, HashMap_Find(t)
  PROVE  Abstract!Lookup(t) \/ Abstract!Missing(t)
  <1>1. BoundValues[t] # NULL <=> Matches(Chain(t), t) # {}
    BY BoundIsHeld DEF BoundIfHeld, Broken
  <1>2. BoundValues' = BoundValues /\ m_numOfItems' = m_numOfItems
    BY UnchangedChains DEF HashMap_Find, Return, mapVars
  <1>3. CASE Matches(Chain(t), t) = {}
    BY <1>1, <1>2, <1>3 DEF HashMap_Find, Return, Abstract!Missing, Abstract!Fails,
                            Abstract!Answer
  <1>4. CASE Matches(Chain(t), t) # {}
    <2>1. BoundValues[t] = Chain(t)[First(Chain(t), t)].m_value
      BY <1>4 DEF BoundValues
    <2>2. result' = "MAP_SUCCESS" /\ reply' = Chain(t)[First(Chain(t), t)].m_value
      BY <1>4 DEF HashMap_Find, Return
    <2> QED
      BY <1>1, <1>2, <1>4, <2>1, <2>2 DEF Abstract!Lookup, Abstract!Answer
  <1> QED
    BY <1>3, <1>4

LEMMA DestroySimulates ==
  ASSUME MapInv, NEW destroyers \in BOOLEAN, HashMap_Destroy(destroyers)
  PROVE  Abstract!Destroy
  <1>1. MapType /\ text' = text /\ m_allocSize' = m_allocSize
        /\ m_data' = NoLists(m_allocSize) /\ m_numOfItems' = 0
        /\ result' = result /\ reply' = reply
    BY DEF MapInv, HashMap_Destroy
  <1>2. ASSUME NEW t \in Texts
        PROVE  Matches(Chain(t), t)' = {}
    <2>1. Bucket(t)' \in 0 .. m_allocSize - 1
      BY <1>1, BucketOfText DEF Bucket
    <2>2. Chain(t)' = << >>
      BY <1>1, <2>1 DEF Chain, NoLists, NoList
    <2> QED
      BY <2>2 DEF Matches
  <1>3. BoundValues' = [t \in Texts |-> NULL]
    BY <1>2 DEF BoundValues
  <1> QED
    BY <1>1, <1>3 DEF Abstract!Destroy, Abstract!Nothing

\* A buffer that no entry points at can be written over unseen.
LEMMA OverwriteSimulates ==
  ASSUME MapInv, MapInv', ~Broken, ~Broken', NEW k \in Buffers, NEW r \in Texts,
         Overwrite(k, r)
  PROVE  UNCHANGED Abstract!vars
  <1>1. MapType /\ k \in Keys
    BY DEF MapInv, Keys
  <1>2. /\ m_data' = m_data /\ m_allocSize' = m_allocSize
        /\ text' = [text EXCEPT ![k] = r]
        /\ ~PointedAt(k)
        /\ UNCHANGED <<m_numOfItems, result, reply>>
    BY <1>1, EntriesPoint DEF Overwrite, mapVars, Broken
  <1>3. ASSUME NEW t \in Texts
        PROVE  BoundValues'[t] = BoundValues[t]
    <2>1. /\ Bucket(t)' = Bucket(t) /\ Bucket(t) \in 0 .. m_allocSize - 1
          /\ Chain(t) = m_data[Bucket(t)].chain /\ Chain(t) \in Seq(EntryType)
      BY <1>1, <1>2, BucketOfText DEF Bucket
    <2>2. ASSUME NEW i \in 1 .. Len(m_data[Bucket(t)].chain)
          PROVE  text'[m_data[Bucket(t)].chain[i].m_key] = text[m_data[Bucket(t)].chain[i].m_key]
      <3>1. m_data[Bucket(t)].chain[i] \in EntryType
        BY <2>1
      <3>2. m_data[Bucket(t)].chain[i].m_key # k
        BY <1>2, <2>1 DEF PointedAt
      <3> QED
        BY <1>1, <1>2, <3>1, <3>2 DEF MapType, EntryType
    <2>3. ASSUME NEW v \in Values PROVE Holds(t, v)' <=> Holds(t, v)
      BY <1>2, <2>1, <2>2 DEF Holds
    <2> QED
      BY <2>3, SameBound DEF Broken
  <1>4. BoundValues' = BoundValues
    BY <1>3, BoundDomain
  <1>5. Broken' = Broken
    BY DEF Broken, Overwrite
  <1> QED
    BY <1>2, <1>4, <1>5 DEF Abstract!vars

\* GenericHash.c is a map from what keys read like to values, whatever the hash
\* function, the capacity and the allocations that fail, until a key that is
\* stored was written over or an entry's list was not created.
THEOREM MapImplementsAssoc == Spec => ImplementsMap
  <1>1. Init => Abstract!Init
    <2> SUFFICES ASSUME Init PROVE Abstract!Init
      OBVIOUS
    <2>1. MapType /\ m_data = NoLists(m_allocSize)
      BY InitInv DEF MapInv, Init, HashMap_Create
    <2>2. ASSUME NEW t \in Texts PROVE Matches(Chain(t), t) = {}
      <3>1. Chain(t) = << >>
        BY <2>1, BucketOfText DEF NoLists, NoList
      <3> QED
        BY <3>1 DEF Matches
    <2>3. BoundValues = [t \in Texts |-> NULL]
      BY <2>2 DEF BoundValues
    <2> QED
      BY <2>3 DEF Init, HashMap_Create, Abstract!Init, Abstract!Nothing, Broken
  <1>2. MapInv /\ [Next]_vars => [Abstract!Next]_(Abstract!vars)
    <2> SUFFICES ASSUME MapInv, [Next]_vars
                 PROVE  [Abstract!Next]_(Abstract!vars)
      OBVIOUS
    <2>1. MapInv'
      BY NextKeepsInv
    <2>2. CASE Broken'
      BY <2>2 DEF Abstract!Next
    <2>3. CASE UNCHANGED vars
      <3>1. BoundValues' = BoundValues
        BY <2>1, <2>3, UnchangedChains DEF vars, mapVars
      <3> QED
        BY <2>3, <3>1 DEF vars, mapVars, ghosts, Abstract!vars, Broken
    <2>4. CASE Next /\ ~Broken'
      <3>1. ~Broken
        <4>1. overwritten => overwritten'
          BY <2>4 DEF Next, Call, HashMap_Insert, InsertWithoutList, InsertRefused,
                      InsertStored, HashMap_Remove, HashMap_Find, HashMap_Destroy,
                      Overwrite, ghosts
        <4>2. lost \in Nat /\ lost' \in Nat
          BY <2>1 DEF MapInv, MapType
        <4>3. ASSUME NEW k \in Keys, NEW v \in Values, HashMap_Insert(k, v)
              PROVE  lost' = lost \/ lost' = lost + 1
          <5>1. CASE UNCHANGED ghosts
            BY <5>1 DEF ghosts
          <5>2. CASE InsertWithoutList(k, v)
            BY <5>2 DEF InsertWithoutList
          <5>3. CASE InsertRefused(k, v)
            BY <5>3 DEF InsertRefused, ghosts
          <5>4. CASE InsertStored(k, v)
            BY <5>4 DEF InsertStored, ghosts
          <5> QED
            BY <4>3, <5>1, <5>2, <5>3, <5>4 DEF HashMap_Insert
        <4>4. ASSUME NEW t \in Texts, HashMap_Remove(t) \/ HashMap_Find(t)
              PROVE  lost' = lost
          BY <4>4 DEF HashMap_Remove, HashMap_Find, ghosts
        <4>5. ASSUME NEW destroyers \in BOOLEAN, HashMap_Destroy(destroyers)
              PROVE  lost' = lost
          BY <4>5 DEF HashMap_Destroy, ghosts
        <4>6. ASSUME NEW k \in Buffers, NEW t \in Texts, Overwrite(k, t)
              PROVE  lost' = lost
          BY <4>6 DEF Overwrite
        <4>7. lost' = lost \/ lost' = lost + 1
          BY <2>4, <4>3, <4>4, <4>5, <4>6 DEF Next, Call
        <4>8. lost' > 0 \/ lost = 0
          BY <4>2, <4>7
        <4> QED
          BY <2>4, <4>1, <4>2, <4>8 DEF Broken
      <3>2. Broken' = Broken
        BY <2>4, <3>1 DEF Broken, MapInv, MapType
      <3>3. ASSUME NEW k \in Keys, NEW v \in Values, HashMap_Insert(k, v)
            PROVE  Abstract!Next
        BY <2>1, <2>4, <3>1, <3>2, <3>3, InsertSimulates DEF Abstract!Next, Abstract!Promised
      <3>4. ASSUME NEW t \in Texts, HashMap_Remove(t) PROVE Abstract!Next
        BY <2>1, <2>4, <3>1, <3>2, <3>4, RemoveSimulates DEF Abstract!Next, Abstract!Promised
      <3>5. ASSUME NEW t \in Texts, HashMap_Find(t) PROVE Abstract!Next
        BY <2>1, <2>4, <3>1, <3>2, <3>5, FindSimulates DEF Abstract!Next, Abstract!Promised
      <3>6. ASSUME NEW destroyers \in BOOLEAN, HashMap_Destroy(destroyers)
            PROVE  Abstract!Next
        BY <3>1, <3>2, <3>6, DestroySimulates DEF Abstract!Next, Abstract!Promised
      <3>7. ASSUME NEW k \in Buffers, NEW t \in Texts, Overwrite(k, t)
            PROVE  UNCHANGED Abstract!vars
        BY <2>1, <2>4, <3>1, <3>7, OverwriteSimulates
      <3> QED
        BY <2>4, <3>3, <3>4, <3>5, <3>6, <3>7 DEF Next, Call
    <2> QED
      BY <2>2, <2>3, <2>4
  <1> QED
    BY <1>1, <1>2, MapInvariant, PTL DEF Spec, ImplementsMap, Abstract!Spec
=============================================================================
