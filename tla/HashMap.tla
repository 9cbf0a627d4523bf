------------------------------ MODULE HashMap ------------------------------
(***************************************************************************)
(* The hash map of GenericHash/GenericHash.c: buckets of chained entries.  *)
(* An entry holds pointers to its key and its value and owns neither, so a *)
(* key is an address here and `text` is what it reads like.  The caller's  *)
(* stable keys keep their text, its buffers are written over at any time,  *)
(* whether or not an entry points at them.  Any malloc may fail.           *)
(***************************************************************************)
EXTENDS Integers, Sequences, FiniteSets

CONSTANTS Texts, Values,
          Stable, Buffers,      \* the addresses that keys are kept at
          m_hashFunc,           \* [Texts -> Nat]
          Capacities,           \* what HashMap_Create is asked for
          NULL,
          MaxLost               \* bound: how often List_Create fails

ASSUME HashAssumption ==
  /\ m_hashFunc \in [Texts -> Nat]
  /\ Capacities \subseteq Nat \ {0}
  /\ Stable \cap Buffers = {}
  /\ NULL \notin Values /\ MaxLost \in Nat

Keys == Stable \cup Buffers

VARIABLES m_hashSize,   \* the capacity that was asked for
          m_allocSize,  \* the number of buckets
          m_data,       \* per bucket the chain of its list, NoList before one is created
          m_numOfItems,
          text,         \* what each key address reads like
          result, reply,        \* the last call's return value and the value it found
          status,       \* "valid", "destroyed", or how HashMap_Destroy went on for ever
          lost,         \* how many entries were counted and put nowhere
          undestroyed,  \* how many HashMap_Destroy was to destroy and passed by
          overwritten   \* a buffer changed while an entry pointed at it

mapVars == <<m_hashSize, m_allocSize, m_data, m_numOfItems>>
ghosts == <<lost, undestroyed, overwritten>>
vars == <<mapVars, text, result, reply, status, ghosts>>

NoList == [list |-> FALSE, chain |-> << >>]
ListOf(chain) == [list |-> TRUE, chain |-> chain]

\* Defect: the square of the last factor is left out.
DefectPrime(n) ==
  n = 2 \/ (n % 2 # 0 /\ \A i \in 3 .. n : i * i < n /\ i % 2 = 1 => n % i # 0)

CheckIfPrime(n) ==
  n = 2 \/ (n % 2 # 0 /\ \A i \in 3 .. n : i * i <= n /\ i % 2 = 1 => n % i # 0)

IsFirstPrime(p, n) ==
  p >= n /\ CheckIfPrime(p) /\ \A q \in n .. p - 1 : ~CheckIfPrime(q)

\* The loop of FindPrimeLargerThan ends: Bertrand's postulate, for the
\* capacities that are asked for.
ASSUME PrimeAssumption ==
  \A n \in Capacities : \E p \in n .. 2 * n : IsFirstPrime(p, n)

FindPrimeLargerThan(n) == CHOOSE p \in n .. 2 * n : IsFirstPrime(p, n)

NoLists(size) == [b \in 0 .. size - 1 |-> NoList]

HashMap_Create ==
  /\ m_hashSize \in Capacities
  /\ m_allocSize = FindPrimeLargerThan(m_hashSize)
  /\ m_data = NoLists(m_allocSize)
  /\ m_numOfItems = 0

Init ==
  /\ HashMap_Create
  /\ text \in [Keys -> Texts]
  /\ result = "MAP_SUCCESS" /\ reply = NULL /\ status = "valid"
  /\ lost = 0 /\ undestroyed = 0 /\ overwritten = FALSE

Bucket(t) == m_hashFunc[t] % m_allocSize
Chain(t) == m_data[Bucket(t)].chain

\* Defect: the comparison is with the entry at the head only.
DefectMatches(chain, t) == {i \in DOMAIN chain : i = 1 /\ text[chain[i].m_key] = t}

\* The entries of a chain whose key reads t now.
Matches(chain, t) == {i \in DOMAIN chain : text[chain[i].m_key] = t}

\* The loop from the list's begin to its end breaks at the first of them.
First(chain, t) ==
  CHOOSE i \in Matches(chain, t) : \A j \in Matches(chain, t) : i <= j

Return(r, v) == result' = r /\ reply' = v /\ UNCHANGED <<text, status>>

\* Defect: the entry is counted when its list is created.
DefectStore(b, chain) ==
  /\ m_data' = [m_data EXCEPT ![b] = ListOf(chain)]
  /\ m_numOfItems' = m_numOfItems + (IF m_data[b].list THEN 0 ELSE 1)

Store(b, chain) ==
  /\ m_data' = [m_data EXCEPT ![b] = ListOf(chain)]
  /\ m_numOfItems' = m_numOfItems + 1

\* What List_Create returns is not tested, and List_PushHead's refusal of
\* NULL is not the error that is looked for.
InsertWithoutList(k, v) ==
  /\ ~m_data[Bucket(text[k])].list /\ lost < MaxLost
  /\ m_numOfItems' = m_numOfItems + 1 /\ lost' = lost + 1
  /\ Return("MAP_SUCCESS", NULL)
  /\ UNCHANGED <<m_hashSize, m_allocSize, m_data, undestroyed, overwritten>>

\* malloc fails for the entry or for its node.  A list that was created for it
\* stays, with no entry in it.
InsertRefused(k, v) ==
  /\ \/ UNCHANGED m_data
     \/ /\ ~m_data[Bucket(text[k])].list
        /\ m_data' = [m_data EXCEPT ![Bucket(text[k])].list = TRUE]
  /\ Return("MAP_ALLOCATION_ERROR", NULL)
  /\ UNCHANGED <<m_hashSize, m_allocSize, m_numOfItems, ghosts>>

InsertStored(k, v) ==
  /\ Store(Bucket(text[k]), <<[m_key |-> k, m_value |-> v]>> \o Chain(text[k]))
  /\ Return("MAP_SUCCESS", NULL)
  /\ UNCHANGED <<m_hashSize, m_allocSize, ghosts>>

HashMap_Insert(k, v) ==
  IF Matches(Chain(text[k]), text[k]) # {}
  THEN Return("MAP_KEY_DUPLICATE_ERROR", NULL) /\ UNCHANGED <<mapVars, ghosts>>
  ELSE InsertWithoutList(k, v) \/ InsertRefused(k, v) \/ InsertStored(k, v)

\* Defect: the head is taken out, whichever entry was found.
DefectWithout(chain, i) == Tail(chain)

Without(chain, i) == SubSeq(chain, 1, i - 1) \o SubSeq(chain, i + 1, Len(chain))

HashMap_Remove(t) ==
  LET b == Bucket(t)
      i == First(Chain(t), t)
  IN IF Matches(Chain(t), t) = {}
     THEN Return("MAP_KEY_NOT_FOUND_ERROR", NULL) /\ UNCHANGED <<mapVars, ghosts>>
     ELSE /\ m_data' = [m_data EXCEPT ![b].chain = Without(@, i)]
          /\ m_numOfItems' = m_numOfItems - 1
          /\ Return("MAP_SUCCESS", Chain(t)[i].m_value)
          /\ UNCHANGED <<m_hashSize, m_allocSize, ghosts>>

HashMap_Find(t) ==
  /\ IF Matches(Chain(t), t) = {}
     THEN Return("MAP_KEY_NOT_FOUND_ERROR", NULL)
     ELSE Return("MAP_SUCCESS", Chain(t)[First(Chain(t), t)].m_value)
  /\ UNCHANGED <<mapVars, ghosts>>

\* The entries, by bucket and place in the chain.
Entries == UNION {{b} \X DOMAIN m_data[b].chain : b \in DOMAIN m_data}
KeyAt(p) == m_data[p[1]].chain[p[2]].m_key

Lists == {b \in DOMAIN m_data : m_data[b].list}
EmptyLists == {b \in Lists : m_data[b].chain = << >>}

\* The loop over a list goes on while List_PopHead fails.  On a list with
\* entries it takes one out and ends, the destroyers are not called, and
\* List_Destroy frees the nodes.  On an empty one the entry popped last is
\* destroyed and freed, again and again; if there is none NULL is read, or
\* freed for ever without destroyers.
HashMap_Destroy(destroyers) ==
  LET first == CHOOSE e \in EmptyLists : \A f \in EmptyLists : e <= f
      Passed == {p \in Entries : EmptyLists = {} \/ p[1] < first}
  IN /\ status' = IF EmptyLists = {} THEN "destroyed"
                  ELSE IF destroyers \/ \E b \in Lists : b < first
                  THEN "crashed" ELSE "hung"
     /\ undestroyed' = IF destroyers THEN Cardinality(Passed) ELSE 0
     /\ m_data' = NoLists(m_allocSize) /\ m_numOfItems' = 0
     /\ UNCHANGED <<m_hashSize, m_allocSize, text, result, reply, lost, overwritten>>

\* The caller's next request, into a buffer it has used before.
Overwrite(k, t) ==
  /\ text' = [text EXCEPT ![k] = t] /\ t # text[k]
  /\ overwritten' = (overwritten \/ \E p \in Entries : KeyAt(p) = k)
  /\ UNCHANGED <<mapVars, result, reply, status, lost, undestroyed>>

Call ==
  \/ \E k \in Keys, v \in Values : HashMap_Insert(k, v)
  \/ \E t \in Texts : HashMap_Remove(t) \/ HashMap_Find(t)
  \/ \E destroyers \in BOOLEAN : HashMap_Destroy(destroyers)
  \/ \E k \in Buffers, t \in Texts : Overwrite(k, t)

Next == status = "valid" /\ Call

Spec == Init /\ [][Next]_vars
-----------------------------------------------------------------------------
EntryType == [m_key : Keys, m_value : Values]

\* GenericHash.c:13-26: the variables have their types, and the count of entries
\* never passes below zero.
TypeOK ==
  /\ m_hashSize \in Capacities /\ m_allocSize \in Nat \ {0}
  /\ DOMAIN m_data = 0 .. m_allocSize - 1
  /\ \A b \in DOMAIN m_data : /\ m_data[b].list \in BOOLEAN
                              /\ m_data[b].chain \in Seq(EntryType)
                              /\ ~m_data[b].list => m_data[b].chain = << >>
  /\ m_numOfItems \in Nat /\ lost \in 0 .. MaxLost
  /\ text \in [Keys -> Texts]
  /\ result \in {"MAP_SUCCESS", "MAP_KEY_DUPLICATE_ERROR", "MAP_KEY_NOT_FOUND_ERROR",
                 "MAP_ALLOCATION_ERROR"}
  /\ reply \in Values \cup {NULL}
  /\ status \in {"valid", "destroyed", "crashed", "hung"}
  /\ undestroyed \in Nat /\ overwritten \in BOOLEAN

\* GenericHash.c:198-268: whatever the caller writes over its buffers, an entry
\* whose key stays as it was can be found in its own bucket, no two such
\* entries have the same key, and no chain holds one address twice.
StableKeysOnce ==
  /\ \A p \in Entries : KeyAt(p) \in Stable => p[1] = Bucket(text[KeyAt(p)])
  /\ \A p, q \in Entries :
       p # q /\ p[1] = q[1] =>
         /\ KeyAt(p) # KeyAt(q)
         /\ {KeyAt(p), KeyAt(q)} \subseteq Stable => text[KeyAt(p)] # text[KeyAt(q)]

Prime(n) == n > 1 /\ \A d \in 2 .. n - 1 : n % d # 0

NearestLargerPrime(p, n) == p > n /\ Prime(p) /\ \A q \in n + 1 .. p - 1 : ~Prime(q)

\* GenericHash.c:58-94: CheckIfPrime tries odd numbers up to the square root, and
\* the table gets the first prime above a capacity that is not a prime itself,
\* nor one.
PrimeTable ==
  m_hashSize > 1 /\ ~Prime(m_hashSize) => NearestLargerPrime(m_allocSize, m_hashSize)

\* GenericHash.c:266, 330: as long as every list could be created, HashMap_Size
\* says how many entries there are, through collisions and refused allocations.
CountIsEntries == status = "valid" /\ lost = 0 => m_numOfItems = Cardinality(Entries)
-----------------------------------------------------------------------------
(***************************************************************************)
(* What HashMap.h says of every map.                                       *)
(***************************************************************************)

\* HashMap.h:12: "size of allocated table will be the nearest prime number
\* greater than requested capacity".  GenericHash.c:86 keeps a capacity that
\* CheckIfPrime lets pass, a prime or the number one.
TableIsLargerPrime == NearestLargerPrime(m_allocSize, m_hashSize)

\* HashMap.h:119: HashMap_Size is the "number of key-value pairs inserted into
\* the hash map", and 77 "MAP_ALLOCATION_ERROR on failer to allocate": no
\* pair is counted that was put nowhere.  GenericHash.c:227 tests neither that
\* there is a list nor, at 260, that pushing to NULL was refused.
CountedPairsAreIn == lost = 0

\* HashMap.h:50: "destroy hash map and set *_map to null".  GenericHash.c:162
\* goes round for ever on a list with no entry in it.
DestroyEnds == status \notin {"crashed", "hung"}

\* HashMap.h:54: "optionally destroy all keys and values using user provided
\* functions".  GenericHash.c:162 ends the loop when an entry was popped.
AllDestroyed == undestroyed = 0

\* One of the four at the least is kept.  A state in which none is shows a map
\* with a table of the size asked for that has counted an entry it did not
\* keep, then passed by entries it was to destroy, and then has hung.
MapAsDocumented == TableIsLargerPrime \/ CountedPairsAreIn \/ DestroyEnds \/ AllDestroyed
-----------------------------------------------------------------------------
\* What each text is bound to, and whether the map has lost an entry or had a
\* key written over.
BoundValues ==
  [t \in Texts |-> IF Matches(Chain(t), t) = {} THEN NULL
                   ELSE Chain(t)[First(Chain(t), t)].m_value]
Broken == overwritten \/ lost > 0

Abstract == INSTANCE AssocMap WITH
  bound <- BoundValues, size <- m_numOfItems, broken <- Broken

\* HashMap.h: the chains answer as a map from what keys read like to values,
\* for every collision of the hash function and every failure of an allocation,
\* until the first key that an entry points at is written over or the first
\* list is not created.
ImplementsMap == Abstract!Spec
=============================================================================
