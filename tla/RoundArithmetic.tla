--------------------------- MODULE RoundArithmetic ---------------------------
(***************************************************************************)
(* Lemmas about indices that run round an array of n slots and counters    *)
(* that wrap at n; division and remainder.                                 *)
(***************************************************************************)
EXTENDS Integers, WellFoundedInduction, TLAPS

\* One step round an array of n slots.
LEMMA StepRound ==
  ASSUME NEW n \in Nat \ {0}, NEW a \in 0 .. n - 1
  PROVE  /\ (a + 1) % n = IF a = n - 1 THEN 0 ELSE a + 1
         /\ a % n = a
  OBVIOUS

\* At most one whole turn round an array of n slots.
LEMMA OneTurn ==
  ASSUME NEW n \in Nat \ {0}, NEW a \in 0 .. 2 * n - 1
  PROVE  a % n = IF a < n THEN a ELSE a - n
  OBVIOUS

\* The tail of a queue with head h and k items, after one insertion.
LEMMA TailAfterInsert ==
  ASSUME NEW n \in Nat \ {0}, NEW h \in 0 .. n - 1, NEW k \in 0 .. n - 1
  PROVE  (((h + k) % n) + 1) % n = (h + (k + 1)) % n
  <1>0. h + k \in 0 .. 2 * n - 1 /\ h + (k + 1) \in 0 .. 2 * n - 1
    OBVIOUS
  <1>1. (h + k) % n = IF h + k < n THEN h + k ELSE h + k - n
    BY <1>0
  <1>2. (h + (k + 1)) % n = IF h + (k + 1) < n THEN h + (k + 1) ELSE h + (k + 1) - n
    BY <1>0
  <1>3. (h + k) % n \in 0 .. n - 1
    BY <1>1
  <1>4. (((h + k) % n) + 1) % n = IF (h + k) % n = n - 1 THEN 0 ELSE ((h + k) % n) + 1
    BY <1>3, StepRound
  <1> QED
    BY <1>1, <1>2, <1>4

\* The head and tail of a queue with head h and k > 0 items, after a removal.
LEMMA TailAfterRemove ==
  ASSUME NEW n \in Nat \ {0}, NEW h \in 0 .. n - 1, NEW k \in 1 .. n
  PROVE  (h + k) % n = (((h + 1) % n) + (k - 1)) % n
  <1>1. (h + 1) % n = IF h = n - 1 THEN 0 ELSE h + 1
    BY StepRound
  <1>2. ((h + 1) % n) + (k - 1) = IF h = n - 1 THEN k - 1 ELSE h + k
    BY <1>1
  <1>3. CASE h = n - 1
    <2>1. (h + k) % n = IF h + k < n THEN h + k ELSE h + k - n
      OBVIOUS
    <2>2. k - 1 \in 0 .. n - 1
      OBVIOUS
    <2>3. (k - 1) % n = k - 1
      BY <2>2, StepRound
    <2> QED
      BY <1>2, <1>3, <2>1, <2>3
  <1>4. CASE h # n - 1
    BY <1>2, <1>4
  <1> QED
    BY <1>3, <1>4

\* The slot the next item goes to is none of the k occupied ones.
LEMMA TailSlotIsFree ==
  ASSUME NEW n \in Nat \ {0}, NEW h \in 0 .. n - 1, NEW k \in 0 .. n - 1,
         NEW i \in 1 .. k
  PROVE  (h + i - 1) % n # (h + k) % n
  <1>1. (h + i - 1) % n = IF h + i - 1 < n THEN h + i - 1 ELSE h + i - 1 - n
    OBVIOUS
  <1>2. (h + k) % n = IF h + k < n THEN h + k ELSE h + k - n
    OBVIOUS
  <1> QED
    BY <1>1, <1>2

\* A counter that stands at c - k modulo n and is taken down by one.
LEMMA CountDown ==
  ASSUME NEW n \in Nat \ {0}, NEW c \in 0 .. n - 1, NEW k \in 0 .. n - 1
  PROVE  (((c + n - k) % n) + n - 1) % n = (c + n - (k + 1)) % n
  <1>1. (c + n - k) % n = IF c + n - k < n THEN c + n - k ELSE c - k
    <2>1. c + n - k \in 0 .. 2 * n - 1
      OBVIOUS
    <2>2. c + n - k - n = c - k
      OBVIOUS
    <2> QED
      BY <2>1, <2>2
  <1>2. CASE k <= c
    <2>1. (c + n - k) % n = c - k
      BY <1>1, <1>2
    <2>2. ((c + n - k) % n) + n - 1 = c + n - (k + 1)
      BY <2>1
    <2> QED
      BY <2>2
  <1>3. CASE k > c
    <2>1. (c + n - k) % n = c + n - k
      BY <1>1, <1>3
    <2> DEFINE a == c + n - (k + 1)
    <2>2. a \in 0 .. n - 1 /\ ((c + n - k) % n) + n - 1 = a + n
      BY <1>3, <2>1
    <2> HIDE DEF a
    <2>3. a % n = a /\ (a + n) % n = a
      BY <2>2
    <2> QED
      BY <2>2, <2>3 DEF a
  <1> QED
    BY <1>2, <1>3

\* Quotient and remainder.
LEMMA Division ==
  ASSUME NEW n \in Nat, NEW d \in Nat \ {0}
  PROVE  /\ n \div d \in Nat /\ n % d \in 0 .. d - 1
         /\ n = d * (n \div d) + (n % d)
  OBVIOUS

\* A multiple of d leaves no remainder: two multiples of d are d apart or equal.
LEMMA NoRemainder ==
  ASSUME NEW d \in Nat \ {0}, NEW e \in Nat, NEW q \in Nat, NEW r \in 0 .. d - 1,
         d * e = d * q + r
  PROVE  r = 0
  <1>1. CASE e = q
    BY <1>1
  <1>2. CASE e < q
    <2>1. d * e <= d * q - d
      <3>1. e <= q - 1
        BY <1>2
      <3>2. d * e <= d * (q - 1)
        BY <3>1
      <3> QED
        BY <3>2
    <2> QED
      BY <2>1
  <1>3. CASE e > q
    <2>1. d * e >= d * q + d
      <3>1. e >= q + 1
        BY <1>3
      <3>2. d * e >= d * (q + 1)
        BY <3>1
      <3> QED
        BY <3>2
    <2> QED
      BY <2>1
  <1> QED
    BY <1>1, <1>2, <1>3

\* Every multiple of d is divided by d.
LEMMA MultipleOf ==
  ASSUME NEW n \in Nat, NEW d \in Nat \ {0}, NEW e \in Nat, n = d * e
  PROVE  n % d = 0
  <1>1. n = d * (n \div d) + (n % d) /\ n \div d \in Nat /\ n % d \in 0 .. d - 1
    BY Division
  <1> QED
    BY <1>1, NoRemainder

\* Some number of a set is the least.
LEMMA LeastNumber ==
  ASSUME NEW M, M \subseteq Nat, M # {}
  PROVE  \E i \in M : \A j \in M : i <= j
  <1> DEFINE Less == {ss \in Nat \X Nat : ss[1] < ss[2]}
  <1>1. IsWellFoundedOn(Less, Nat)
    BY NatLessThanWellFounded DEF OpToRel
  <1>2. PICK i \in M : \A j \in M : ~ (<<j, i>> \in Less)
    <2> HIDE DEF Less
    <2> QED
      BY <1>1, WFMin
  <1>3. ASSUME NEW j \in M PROVE i <= j
    <2>1. i \in Nat /\ j \in Nat
      OBVIOUS
    <2>2. ~ (<<j, i>> \in Less)
      BY <1>2
    <2>3. ~ (j < i)
      BY <2>1, <2>2
    <2> QED
      BY <2>1, <2>3
  <1> QED
    BY <1>3
=============================================================================
