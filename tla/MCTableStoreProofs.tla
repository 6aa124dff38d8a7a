------------------------- MODULE MCTableStoreProofs -------------------------
(***************************************************************************)
(* For any keys, any page capacity and any bounds: ordered access to a     *)
(* table in memory and a search in its index return what their bounds say, *)
(* and every kind of table, on disk or in memory, implements the storage   *)
(* port.                                                                   *)
(*                                                                         *)
(* The first holds because `keys` and `order` stay side by side, sorted    *)
(* and complete (MemoryInv), and bisect then finds where a slice begins    *)
(* and ends (Bisected).  The second holds because each key of the index    *)
(* has a bucket with the rows that have it, each once, and no key has an   *)
(* empty one (IndexInv).  The third takes a behaviour apart into one of a  *)
(* HEAP table, one of a SEQUENTIAL table (TableStoreProofs) and one of a   *)
(* table in memory.                                                        *)
(***************************************************************************)
EXTENDS MCTableStore, Sequences, FiniteSetTheorems, WellFoundedInduction, TLAPS

(* list.insert: one entry more, at place p, the others in their order. *)
LEMMA InsertAtShape ==
  ASSUME NEW S, NEW s \in Seq(S), NEW e \in S, NEW p \in 1..(Len(s) + 1)
  PROVE  /\ Memory!InsertAt(s, p, e) \in Seq(S)
         /\ Len(Memory!InsertAt(s, p, e)) = Len(s) + 1
         /\ \A i \in 1..(Len(s) + 1) :
              Memory!InsertAt(s, p, e)[i] = IF i < p THEN s[i] ELSE IF i = p THEN e ELSE s[i - 1]
<1>1. Len(s) \in Nat /\ p \in Nat
  OBVIOUS
<1> DEFINE a == SubSeq(s, 1, p - 1)
           b == SubSeq(s, p, Len(s))
<1>2. /\ a \in Seq(S) /\ Len(a) = p - 1 /\ \A i \in 1..(p - 1) : a[i] = s[i]
      /\ b \in Seq(S) /\ Len(b) = Len(s) - p + 1 /\ \A i \in 1..(Len(s) - p + 1) : b[i] = s[p + i - 1]
  BY <1>1
<1>3. PICK c : c = a \o <<e>>
  OBVIOUS
<1>4. Memory!InsertAt(s, p, e) = c \o b
  BY <1>3 DEF Memory!InsertAt
<1> HIDE DEF a, b
<1>5. c \in Seq(S) /\ Len(c) = p /\ c[p] = e /\ \A i \in 1..(p - 1) : c[i] = s[i]
  BY <1>1, <1>2, <1>3
<1>6. /\ c \o b \in Seq(S) /\ Len(c \o b) = Len(s) + 1
      /\ \A i \in 1..p : (c \o b)[i] = c[i]
      /\ \A i \in (p + 1)..(Len(s) + 1) : (c \o b)[i] = b[i - p]
  BY <1>1, <1>2, <1>5
<1> QED  BY <1>1, <1>2, <1>4, <1>5, <1>6

(* list.pop: one entry less, the others in their order. *)
LEMMA RemoveAtShape ==
  ASSUME NEW S, NEW s \in Seq(S), NEW p \in 1..Len(s)
  PROVE  /\ Memory!RemoveAt(s, p) \in Seq(S)
         /\ Len(Memory!RemoveAt(s, p)) = Len(s) - 1
         /\ \A i \in 1..(Len(s) - 1) :
              Memory!RemoveAt(s, p)[i] = IF i < p THEN s[i] ELSE s[i + 1]
<1>1. Len(s) \in Nat /\ p \in Nat
  OBVIOUS
<1> DEFINE a == SubSeq(s, 1, p - 1)
           b == SubSeq(s, p + 1, Len(s))
<1>2. /\ a \in Seq(S) /\ Len(a) = p - 1 /\ \A i \in 1..(p - 1) : a[i] = s[i]
      /\ b \in Seq(S) /\ Len(b) = Len(s) - p /\ \A i \in 1..(Len(s) - p) : b[i] = s[p + i]
  BY <1>1
<1>3. Memory!RemoveAt(s, p) = a \o b
  BY DEF Memory!RemoveAt
<1> HIDE DEF a, b
<1>4. /\ a \o b \in Seq(S) /\ Len(a \o b) = Len(s) - 1
      /\ \A i \in 1..(p - 1) : (a \o b)[i] = a[i]
  <2>1. a \in Seq(S) /\ b \in Seq(S)
    BY <1>2
  <2>2. a \o b \in Seq(S) /\ Len(a \o b) = Len(a) + Len(b)
    BY <2>1
  <2>3. \A i \in 1..Len(a) : (a \o b)[i] = a[i]
    BY <2>1
  <2> QED  BY <1>1, <1>2, <2>2, <2>3
<1>5. ASSUME NEW i \in 1..(Len(s) - 1), ~(i < p)
      PROVE  (a \o b)[i] = s[i + 1]
  <2>1. PICK j : j = i - (p - 1)
    OBVIOUS
  <2>2. j \in 1..(Len(s) - p) /\ i = Len(a) + j
    BY <1>1, <1>2, <1>5, <2>1
  <2>3. (a \o b)[i] = b[j]
    BY <1>1, <1>2, <1>5, <2>1, <2>2
  <2>4. b[j] = s[p + j] /\ p + j = i + 1
    BY <1>1, <1>2, <2>1, <2>2
  <2> QED  BY <2>3, <2>4
<1>6. ASSUME NEW i \in 1..(Len(s) - 1), i < p
      PROVE  (a \o b)[i] = s[i]
  BY <1>1, <1>2, <1>4, <1>6
<1> QED  BY <1>3, <1>4, <1>5, <1>6

(* A set of naturals has a least element. *)
LEMMA LeastElement ==
  ASSUME NEW T, T \subseteq Nat, T # {}
  PROVE  \E x \in T : \A y \in T : x <= y
<1>1. PICK x \in T : \A y \in T : <<y, x>> \notin OpToRel(<, Nat)
  BY NatLessThanWellFounded, WFMin
<1>2. \A y \in T : ~(y < x)
  BY <1>1 DEF OpToRel
<1> QED  BY <1>2

-----------------------------------------------------------------------------
(* Bisection.  MemoryStore counts as the library does. *)
LEMMA SameCardinality ==
  /\ \A S : Memory!Cardinality(S) = Cardinality(S)
BY DEF Memory!Cardinality, Cardinality

(* A set of places that has, with a place, those before it is a first part. *)
LEMMA FirstPart ==
  ASSUME NEW n \in Nat, NEW D \in SUBSET (1..n),
         \A i, j \in 1..n : i <= j /\ j \in D => i \in D
  PROVE  Cardinality(D) \in 0..n /\ D = 1..Cardinality(D)
<1> DEFINE T == {j \in 1..(n + 1) : j \notin D}
<1>1. T \subseteq Nat /\ n + 1 \in T
  OBVIOUS
<1>2. PICK x \in T : \A y \in T : x <= y
  BY <1>1, LeastElement
<1>3. x \in 1..(n + 1) /\ x \notin D /\ \A y \in 1..(x - 1) : y \in D
  BY <1>2
<1>4. ASSUME NEW y \in D PROVE y \in 1..(x - 1)
  <2>1. y \in 1..n /\ x \in Int
    BY <1>3
  <2>2. CASE x <= y
    <3>1. x \in 1..n
      BY <1>3, <2>1, <2>2
    <3> QED  BY <1>3, <2>2, <2>1, <3>1
  <2> QED  BY <2>1, <2>2
<1>5. D = 1..(x - 1)
  BY <1>3, <1>4
<1>6. Cardinality(1..(x - 1)) = x - 1
  BY <1>3, FS_Interval
<1> QED  BY <1>3, <1>5, <1>6

(* A list in ascending order; entries may be equal. *)
SortedKeys(s) == \A i, j \in 1..Len(s) : i <= j => s[i] <= s[j]

(* In a sorted list, bisect finds how many entries are smaller, or no greater. *)
LEMMA Bisected ==
  ASSUME NEW s \in Seq(Int), SortedKeys(s), NEW k \in Int
  PROVE  /\ Memory!BisectLeft(s, k) \in 0..Len(s)
         /\ \A i \in 1..Len(s) : s[i] < k <=> i <= Memory!BisectLeft(s, k)
         /\ Memory!BisectRight(s, k) \in 0..Len(s)
         /\ \A i \in 1..Len(s) : s[i] <= k <=> i <= Memory!BisectRight(s, k)
<1> DEFINE less == {i \in 1..Len(s) : s[i] < k}
           most == {i \in 1..Len(s) : s[i] <= k}
<1>1. Len(s) \in Nat /\ DOMAIN s = 1..Len(s) /\ \A i \in 1..Len(s) : s[i] \in Int
  OBVIOUS
<1>2. \A i, j \in 1..Len(s) : i <= j /\ j \in less => i \in less
  BY <1>1 DEF SortedKeys
<1>3. \A i, j \in 1..Len(s) : i <= j /\ j \in most => i \in most
  BY <1>1 DEF SortedKeys
<1>4. Memory!BisectLeft(s, k) = Cardinality(less) /\ Memory!BisectRight(s, k) = Cardinality(most)
  BY <1>1, SameCardinality DEF Memory!BisectLeft, Memory!BisectRight
<1>5. less \in SUBSET (1..Len(s)) /\ most \in SUBSET (1..Len(s))
  OBVIOUS
<1>6. PICK a, b : a = Cardinality(less) /\ b = Cardinality(most)
  OBVIOUS
<1>7. a \in 0..Len(s) /\ less = 1..a /\ b \in 0..Len(s) /\ most = 1..b
  <2> HIDE DEF less, most
  <2> QED  BY <1>1, <1>2, <1>3, <1>5, <1>6, FirstPart
<1>8. ASSUME NEW i \in 1..Len(s) PROVE (s[i] < k <=> i <= a) /\ (s[i] <= k <=> i <= b)
  <2>1. (s[i] < k <=> i \in 1..a) /\ (s[i] <= k <=> i \in 1..b)
    BY <1>7
  <2> QED  BY <1>1, <1>7, <2>1
<1> HIDE DEF less, most
<1> QED  BY <1>4, <1>6, <1>7, <1>8

-----------------------------------------------------------------------------
(* The memory backend's table: `order` has every RID once and, for an ordered
   table, `keys` has their keys, sorted.                                    *)
KeysAligned ==
  /\ keys \in Seq(Keys) /\ Len(keys) = Len(order)
  /\ \A i \in 1..Len(order) : keys[i] = records[order[i]]
  /\ SortedKeys(keys)

OrderExact ==
  /\ order \in Seq(DOMAIN records)
  /\ \A i, j \in 1..Len(order) : order[i] = order[j] => i = j
  /\ \A r \in DOMAIN records : \E i \in 1..Len(order) : order[i] = r

RecordsTyped ==
  /\ slots \in Nat
  /\ records \in [DOMAIN records -> Keys]
  /\ DOMAIN records \subseteq {Memory!Rid(n) : n \in 0..(slots - 1)}

MemoryInv == RecordsTyped /\ OrderExact /\ (ordered => KeysAligned)

(* Two slots have different RIDs: divmod by the page capacity loses nothing. *)
LEMMA RidsDiffer ==
  ASSUME NEW m \in Nat, NEW n \in Nat, Memory!Rid(m) = Memory!Rid(n)
  PROVE  m = n
<1>1. Capacity \in Nat \ {0}
  BY RowsAssumption
<1>2. m \div Capacity = n \div Capacity /\ m % Capacity = n % Capacity
  BY DEF Memory!Rid
<1>3. /\ m = Capacity * (m \div Capacity) + (m % Capacity)
      /\ n = Capacity * (n \div Capacity) + (n % Capacity)
  BY <1>1
<1> QED  BY <1>2, <1>3

(* An RID that is handed out is new. *)
LEMMA RidIsNew == ASSUME RecordsTyped PROVE Memory!Rid(slots) \notin DOMAIN records
<1>1. ASSUME NEW n \in 0..(slots - 1) PROVE Memory!Rid(slots) # Memory!Rid(n)
  <2>1. n \in Nat /\ slots \in Nat /\ n # slots
    BY DEF RecordsTyped
  <2> QED  BY <2>1, RidsDiffer
<1> QED  BY <1>1 DEF RecordsTyped

(* An insert puts the RID and its key at one place, after those no greater. *)
LEMMA InsertKeepsMemory ==
  ASSUME MemoryInv, NEW k \in Keys, Memory!Insert(k), ordered' = ordered
  PROVE  MemoryInv'
<1>1. PICK r : r = Memory!Rid(slots)
  OBVIOUS
<1>2. r \notin DOMAIN records /\ RecordsTyped /\ OrderExact /\ Len(order) \in Nat
  BY <1>1, RidIsNew DEF MemoryInv, OrderExact
<1>3. /\ records' = [q \in DOMAIN records \cup {r} |-> IF q = r THEN k ELSE records[q]]
      /\ slots' = slots + 1
  BY <1>1 DEF Memory!Insert
<1>4. DOMAIN records' = DOMAIN records \cup {r}
  BY <1>3
<1>5. RecordsTyped'
  <2>1. records' \in [DOMAIN records' -> Keys]
    BY <1>2, <1>3 DEF RecordsTyped
  <2>2. slots' \in Nat /\ slots \in 0..(slots' - 1) /\ 0..(slots - 1) \subseteq 0..(slots' - 1)
    BY <1>2, <1>3 DEF RecordsTyped
  <2>3. DOMAIN records' \subseteq {Memory!Rid(n) : n \in 0..(slots' - 1)}
    BY <1>1, <1>2, <1>4, <2>2 DEF RecordsTyped
  <2>4. {Memory!Rid(n) : n \in 0..(slots' - 1)} = {Memory!Rid(n) : n \in 0..(slots - 1)}'
    BY DEF Memory!Rid
  <2> QED  BY <2>1, <2>2, <2>3, <2>4 DEF RecordsTyped
<1>6. CASE ordered
  <2>1. PICK place : place = Memory!BisectRight(keys, k) + 1
    OBVIOUS
  <2>2. /\ keys' = Memory!InsertAt(keys, place, k)
        /\ order' = Memory!InsertAt(order, place, r)
    BY <1>1, <1>6, <2>1 DEF Memory!Insert
  <2>3. /\ keys \in Seq(Keys) /\ Len(keys) = Len(order) /\ SortedKeys(keys)
        /\ \A i \in 1..Len(order) : keys[i] = records[order[i]]
    BY <1>6 DEF MemoryInv, KeysAligned
  <2>4. /\ place \in 1..(Len(order) + 1)
        /\ \A i \in 1..Len(order) : keys[i] <= k <=> i < place
    <3>1. keys \in Seq(Int) /\ k \in Int
      BY <2>3, RowsAssumption
    <3>2. /\ Memory!BisectRight(keys, k) \in 0..Len(keys)
          /\ \A i \in 1..Len(keys) : keys[i] <= k <=> i <= Memory!BisectRight(keys, k)
      BY <2>3, <3>1, Bisected
    <3> QED  BY <1>2, <2>1, <2>3, <3>2
  <2>5. /\ keys' \in Seq(Keys) /\ Len(keys') = Len(order) + 1
        /\ \A i \in 1..(Len(order) + 1) :
             keys'[i] = IF i < place THEN keys[i] ELSE IF i = place THEN k ELSE keys[i - 1]
    BY <2>2, <2>3, <2>4, InsertAtShape
  <2>6. /\ order' \in Seq(DOMAIN records') /\ Len(order') = Len(order) + 1
        /\ \A i \in 1..(Len(order) + 1) :
             order'[i] = IF i < place THEN order[i] ELSE IF i = place THEN r ELSE order[i - 1]
    <3>1. PICK S : S = DOMAIN records'
      OBVIOUS
    <3>2. order \in Seq(S) /\ r \in S
      BY <1>2, <1>4, <3>1 DEF OrderExact
    <3>3. /\ Memory!InsertAt(order, place, r) \in Seq(S)
          /\ Len(Memory!InsertAt(order, place, r)) = Len(order) + 1
          /\ \A i \in 1..(Len(order) + 1) : Memory!InsertAt(order, place, r)[i] =
               IF i < place THEN order[i] ELSE IF i = place THEN r ELSE order[i - 1]
      <4>1. place \in 1..(Len(order) + 1)
        BY <2>4
      <4>2. Memory!InsertAt(order, place, r) \in Seq(S)
        BY <3>2, <4>1, InsertAtShape
      <4>3. Len(Memory!InsertAt(order, place, r)) = Len(order) + 1
        BY <3>2, <4>1, InsertAtShape
      <4>4. \A i \in 1..(Len(order) + 1) : Memory!InsertAt(order, place, r)[i] =
              IF i < place THEN order[i] ELSE IF i = place THEN r ELSE order[i - 1]
        BY <3>2, <4>1, InsertAtShape
      <4> QED  BY <4>2, <4>3, <4>4
    <3> QED  BY <2>2, <3>1, <3>3
  <2>7. \A i \in 1..Len(order) : order[i] \in DOMAIN records /\ order[i] # r
    BY <1>2 DEF OrderExact
  <2>8. ASSUME NEW i \in 1..(Len(order) + 1)
        PROVE  \/ i < place /\ i \in 1..Len(order)
               \/ i = place
               \/ i > place /\ i - 1 \in 1..Len(order) /\ i - 1 >= place
    BY <1>2, <2>4
  <2>9. OrderExact'
    <3>1. ASSUME NEW i \in 1..Len(order'), NEW j \in 1..Len(order'), order'[i] = order'[j]
          PROVE  i = j
      <4>1. i \in 1..(Len(order) + 1) /\ j \in 1..(Len(order) + 1) /\ i \in Int /\ j \in Int
        BY <1>2, <2>6
      <4>2. \A m, n \in 1..Len(order) : order[m] = order[n] => m = n
        BY <1>2 DEF OrderExact
      <4> QED  BY <1>2, <2>4, <2>6, <2>7, <2>8, <3>1, <4>1, <4>2
    <3>2. ASSUME NEW q \in DOMAIN records'
          PROVE  \E i \in 1..Len(order') : order'[i] = q
      <4>1. CASE q = r
        BY <2>4, <2>6, <4>1
      <4>2. CASE q # r
        <5>1. PICK i \in 1..Len(order) : order[i] = q
          BY <1>2, <1>4, <4>2 DEF OrderExact
        <5>2. CASE i < place
          BY <1>2, <2>6, <5>1, <5>2
        <5>3. CASE ~(i < place)
          <6>1. i + 1 \in 1..(Len(order) + 1) /\ ~(i + 1 < place) /\ i + 1 # place /\ (i + 1) - 1 = i
            BY <1>2, <2>4, <5>1, <5>3
          <6> QED  BY <2>6, <5>1, <6>1
        <5> QED  BY <5>2, <5>3
      <4> QED  BY <4>1, <4>2
    <3> QED  BY <2>6, <3>1, <3>2 DEF OrderExact
  <2>10. KeysAligned'
    <3>1. ASSUME NEW i \in 1..Len(order') PROVE keys'[i] = records'[order'[i]]
      <4>1. i \in 1..(Len(order) + 1)
        BY <2>6
      <4>2. \A q \in DOMAIN records : records'[q] = records[q]
        BY <1>2, <1>3
      <4>3. records'[r] = k
        BY <1>3
      <4>4. CASE i < place /\ i \in 1..Len(order)
        BY <2>3, <2>5, <2>6, <2>7, <4>1, <4>2, <4>4
      <4>5. CASE i = place
        BY <2>4, <2>5, <2>6, <4>1, <4>3, <4>5
      <4>6. CASE i > place /\ i - 1 \in 1..Len(order)
        <5>1. ~(i < place) /\ i # place
          BY <2>4, <4>1, <4>6
        <5> QED  BY <2>3, <2>5, <2>6, <2>7, <4>1, <4>2, <4>6, <5>1
      <4> QED  BY <2>8, <4>1, <4>4, <4>5, <4>6
    <3>2. ASSUME NEW i \in 1..Len(keys'), NEW j \in 1..Len(keys'), i <= j
          PROVE  keys'[i] <= keys'[j]
      <4>1. i \in 1..(Len(order) + 1) /\ j \in 1..(Len(order) + 1) /\ i \in Int /\ j \in Int
        BY <1>2, <2>5
      <4>2. /\ \A m, n \in 1..Len(order) : m <= n => keys[m] <= keys[n]
            /\ \A m \in 1..Len(order) : keys[m] \in Int
            /\ k \in Int
        <5>1. \A m \in 1..Len(order) : keys[m] \in Keys
          BY <2>3
        <5> QED  BY <2>3, <5>1, RowsAssumption DEF SortedKeys
      <4>3. \A m \in 1..Len(order) : ~(m < place) => k <= keys[m]
        BY <2>4, <4>2
      <4>4. place \in Int
        BY <2>4
      <4>5. CASE i < place /\ i \in 1..Len(order)
        <5>1. keys'[i] = keys[i] /\ keys[i] <= k
          BY <2>4, <2>5, <4>1, <4>5
        <5>2. CASE j < place /\ j \in 1..Len(order)
          BY <2>5, <3>2, <4>1, <4>2, <4>5, <5>1, <5>2
        <5>3. CASE j = place
          BY <2>5, <4>1, <4>4, <5>1, <5>3
        <5>4. CASE j > place /\ j - 1 \in 1..Len(order) /\ j - 1 >= place
          <6>1. ~(j < place) /\ j # place /\ ~(j - 1 < place)
            BY <4>1, <4>4, <5>4
          <6>2. keys'[j] = keys[j - 1] /\ k <= keys[j - 1]
            BY <2>5, <4>1, <4>3, <5>4, <6>1
          <6> QED  BY <4>2, <4>5, <5>1, <5>4, <6>2
        <5> QED  BY <2>8, <4>1, <5>2, <5>3, <5>4
      <4>6. CASE i = place
        <5>1. keys'[i] = k
          BY <2>5, <4>1, <4>4, <4>6
        <5>2. CASE j = place
          BY <4>2, <4>6, <5>1, <5>2
        <5>3. CASE j > place /\ j - 1 \in 1..Len(order) /\ j - 1 >= place
          <6>1. ~(j < place) /\ j # place /\ ~(j - 1 < place)
            BY <4>1, <4>4, <5>3
          <6> QED  BY <2>5, <4>1, <4>3, <5>1, <5>3, <6>1
        <5> QED  BY <2>8, <3>2, <4>1, <4>6, <5>2, <5>3
      <4>7. CASE i > place /\ i - 1 \in 1..Len(order) /\ i - 1 >= place
        <5>1. ~(i < place) /\ i # place /\ ~(j < place) /\ j # place
          BY <3>2, <4>1, <4>4, <4>7
        <5>2. j - 1 \in 1..Len(order) /\ i - 1 <= j - 1
          BY <2>8, <3>2, <4>1, <5>1
        <5> QED  BY <2>5, <4>1, <4>2, <4>7, <5>1, <5>2
      <4> QED  BY <2>8, <4>1, <4>5, <4>6, <4>7
    <3> QED  BY <2>5, <2>6, <3>1, <3>2 DEF KeysAligned, SortedKeys
  <2> QED  BY <1>5, <2>9, <2>10 DEF MemoryInv
<1>7. CASE ~ordered
  <2>1. order' = Append(order, r)
    BY <1>1, <1>7 DEF Memory!Insert
  <2>2. order \in Seq(DOMAIN records') /\ r \in DOMAIN records'
    BY <1>2, <1>4 DEF OrderExact
  <2>3. /\ order' \in Seq(DOMAIN records') /\ Len(order') = Len(order) + 1
        /\ order'[Len(order) + 1] = r
        /\ \A i \in 1..Len(order) : order'[i] = order[i]
    BY <2>1, <2>2
  <2>4. \A i \in 1..Len(order) : order[i] \in DOMAIN records /\ order[i] # r
    BY <1>2 DEF OrderExact
  <2>5. \A i \in 1..Len(order') : i \in 1..Len(order) \/ i = Len(order) + 1
    BY <1>2, <2>3
  <2>6. OrderExact'
    <3>1. ASSUME NEW i \in 1..Len(order'), NEW j \in 1..Len(order'), order'[i] = order'[j]
          PROVE  i = j
      <4>1. \A m, n \in 1..Len(order) : order[m] = order[n] => m = n
        BY <1>2 DEF OrderExact
      <4>2. CASE i \in 1..Len(order) /\ j \in 1..Len(order)
        BY <2>3, <3>1, <4>1, <4>2
      <4>3. CASE i = Len(order) + 1 /\ j \in 1..Len(order)
        BY <2>3, <2>4, <3>1, <4>3
      <4>4. CASE i \in 1..Len(order) /\ j = Len(order) + 1
        BY <2>3, <2>4, <3>1, <4>4
      <4> QED  BY <2>5, <4>2, <4>3, <4>4
    <3>2. ASSUME NEW q \in DOMAIN records'
          PROVE  \E i \in 1..Len(order') : order'[i] = q
      <4>1. 1..Len(order) \subseteq 1..Len(order') /\ Len(order) + 1 \in 1..Len(order')
        BY <1>2, <2>3
      <4>2. CASE q = r
        BY <2>3, <4>1, <4>2
      <4>3. CASE q # r
        BY <1>2, <1>4, <2>3, <4>1, <4>3 DEF OrderExact
      <4> QED  BY <4>2, <4>3
    <3> QED  BY <2>3, <3>1, <3>2 DEF OrderExact
  <2> QED  BY <1>5, <1>7, <2>6 DEF MemoryInv
<1> QED  BY <1>6, <1>7

(* A deletion takes the RID and its key from one place. *)
LEMMA DeleteKeepsMemory ==
  ASSUME MemoryInv, NEW r \in DOMAIN records, Memory!Delete(r), ordered' = ordered
  PROVE  MemoryInv'
<1>1. /\ RecordsTyped /\ OrderExact /\ Len(order) \in Nat /\ DOMAIN order = 1..Len(order)
      /\ \A i, j \in 1..Len(order) : order[i] = order[j] => i = j
  BY DEF MemoryInv, OrderExact
<1>2. PICK place : place = CHOOSE i \in DOMAIN order : order[i] = r
  OBVIOUS
<1>3. place \in 1..Len(order) /\ order[place] = r
  BY <1>1, <1>2 DEF OrderExact
<1>4. /\ order' = Memory!RemoveAt(order, place)
      /\ ordered => keys' = Memory!RemoveAt(keys, place)
      /\ records' = [q \in DOMAIN records \ {r} |-> records[q]]
      /\ slots' = slots
  BY <1>2 DEF Memory!Delete
<1>5. DOMAIN records' = DOMAIN records \ {r} /\ \A q \in DOMAIN records' : records'[q] = records[q]
  BY <1>4
<1>6. RecordsTyped'
  <2>1. records' \in [DOMAIN records' -> Keys]
    BY <1>1, <1>5, <1>4 DEF RecordsTyped
  <2>2. {Memory!Rid(n) : n \in 0..(slots - 1)}' = {Memory!Rid(n) : n \in 0..(slots - 1)}
    BY <1>4 DEF Memory!Rid
  <2> QED  BY <1>1, <1>4, <1>5, <2>1, <2>2 DEF RecordsTyped
<1>7. /\ order' \in Seq(DOMAIN records) /\ Len(order') = Len(order) - 1
      /\ \A i \in 1..(Len(order) - 1) : order'[i] = IF i < place THEN order[i] ELSE order[i + 1]
  <2>1. PICK S : S = DOMAIN records
    OBVIOUS
  <2>2. order \in Seq(S)
    BY <1>1, <2>1 DEF OrderExact
  <2>3. /\ Memory!RemoveAt(order, place) \in Seq(S)
        /\ Len(Memory!RemoveAt(order, place)) = Len(order) - 1
    BY <1>3, <2>2, RemoveAtShape
  <2>4. \A i \in 1..(Len(order) - 1) :
          Memory!RemoveAt(order, place)[i] = IF i < place THEN order[i] ELSE order[i + 1]
    BY <1>3, <2>2, RemoveAtShape
  <2> QED  BY <1>4, <2>1, <2>3, <2>4
(* What is at a place of the new list was at `from` of the old one. *)
<1> DEFINE from(i) == IF i < place THEN i ELSE i + 1
<1>8. ASSUME NEW i \in 1..Len(order')
      PROVE  /\ from(i) \in 1..Len(order) /\ from(i) # place /\ order'[i] = order[from(i)]
             /\ i \in 1..(Len(order) - 1) /\ i \in Int
  <2>1. i \in 1..(Len(order) - 1) /\ i \in Int /\ place \in Int
    BY <1>1, <1>3, <1>7
  <2>2. CASE i < place
    BY <1>1, <1>7, <2>1, <2>2
  <2>3. CASE ~(i < place)
    BY <1>1, <1>7, <2>1, <2>3
  <2> QED  BY <2>2, <2>3
<1>9. \A i, j \in 1..Len(order') : (i <= j => from(i) <= from(j)) /\ (from(i) = from(j) => i = j)
  BY <1>3, <1>8
<1>10. ASSUME NEW j \in 1..Len(order), j # place PROVE \E i \in 1..Len(order') : from(i) = j
  <2>1. j \in Int /\ place \in Int /\ Len(order') = Len(order) - 1
    BY <1>1, <1>3, <1>7
  <2>2. CASE j < place
    <3>1. j \in 1..Len(order') /\ from(j) = j
      BY <1>1, <1>3, <2>1, <2>2
    <3> QED  BY <3>1
  <2>3. CASE j > place
    <3>1. j - 1 \in 1..Len(order') /\ from(j - 1) = j
      BY <1>1, <1>3, <2>1, <2>3
    <3> QED  BY <3>1
  <2> QED  BY <1>10, <2>1, <2>2, <2>3
<1> HIDE DEF from
<1>11. OrderExact'
  <2>1. \A i \in 1..Len(order') : order'[i] \in DOMAIN records'
    BY <1>1, <1>3, <1>5, <1>8 DEF OrderExact
  <2>2. order' \in Seq(DOMAIN records')
    BY <1>7, <2>1
  <2>3. \A i, j \in 1..Len(order') : order'[i] = order'[j] => i = j
    BY <1>1, <1>8, <1>9
  <2>4. ASSUME NEW q \in DOMAIN records' PROVE \E i \in 1..Len(order') : order'[i] = q
    <3>1. PICK j \in 1..Len(order) : order[j] = q
      BY <1>1, <1>5 DEF OrderExact
    <3>2. j # place
      BY <1>3, <1>5, <3>1
    <3> QED  BY <1>8, <1>10, <3>1, <3>2
  <2> QED  BY <2>2, <2>3, <2>4 DEF OrderExact
<1>12. ASSUME ordered PROVE KeysAligned'
  <2>1. /\ keys \in Seq(Keys) /\ Len(keys) = Len(order) /\ SortedKeys(keys)
        /\ \A i \in 1..Len(order) : keys[i] = records[order[i]]
    BY <1>12 DEF MemoryInv, KeysAligned
  <2>2. /\ keys' \in Seq(Keys) /\ Len(keys') = Len(order')
        /\ \A i \in 1..(Len(order) - 1) : keys'[i] = IF i < place THEN keys[i] ELSE keys[i + 1]
    <3>1. /\ Memory!RemoveAt(keys, place) \in Seq(Keys)
          /\ Len(Memory!RemoveAt(keys, place)) = Len(keys) - 1
      BY <1>3, <2>1, RemoveAtShape
    <3>2. \A i \in 1..(Len(keys) - 1) :
            Memory!RemoveAt(keys, place)[i] = IF i < place THEN keys[i] ELSE keys[i + 1]
      BY <1>3, <2>1, RemoveAtShape
    <3> QED  BY <1>4, <1>7, <1>12, <2>1, <3>1, <3>2
  <2>3. \A i \in 1..Len(order') : keys'[i] = keys[from(i)]
    BY <1>8, <2>2 DEF from
  <2>4. ASSUME NEW i \in 1..Len(order')
        PROVE  keys'[i] = records'[order'[i]]
    <3>1. PICK j \in 1..Len(order) : j = from(i)
      BY <1>8
    <3>2. order'[i] = order[j] /\ keys'[i] = keys[j]
      BY <1>8, <2>3, <3>1
    <3>3. order'[i] \in DOMAIN records'
      BY <1>11, <2>4 DEF OrderExact
    <3>4. keys[j] = records[order[j]]
      BY <2>1, <3>1
    <3> QED  BY <1>5, <3>2, <3>3, <3>4
  <2>5. ASSUME NEW i \in 1..Len(order'), NEW j \in 1..Len(order'), i <= j
        PROVE  keys'[i] <= keys'[j]
    <3>1. PICK a \in 1..Len(order) : a = from(i)
      BY <1>8
    <3>2. PICK b \in 1..Len(order) : b = from(j)
      BY <1>8
    <3>3. a <= b
      BY <1>9, <2>5, <3>1, <3>2
    <3>4. keys[a] <= keys[b]
      BY <2>1, <3>3 DEF SortedKeys
    <3> QED  BY <2>3, <3>1, <3>2, <3>4
  <2>6. SortedKeys(keys')
    BY <2>2, <2>5 DEF SortedKeys
  <2> QED  BY <2>2, <2>4, <2>6 DEF KeysAligned
<1> QED  BY <1>6, <1>11, <1>12 DEF MemoryInv

(* A reorganization sorts every RID there is. *)
LEMMA ReorganizeKeepsMemory ==
  ASSUME MemoryInv, Memory!Reorganize, ordered' = ordered
  PROVE  MemoryInv'
<1>1. PICK S : S = DOMAIN records
  OBVIOUS
<1>2. PICK n : n = Cardinality(S)
  OBVIOUS
<1>3. /\ records' = records /\ slots' = slots /\ S = DOMAIN records'
      /\ keys' = [i \in DOMAIN order' |-> records'[order'[i]]]
      /\ order' \in Memory!SetToSeqs(S)
      /\ \A i, j \in DOMAIN order' : i < j => Memory!SortedBefore(order'[i], order'[j])
  BY <1>1 DEF Memory!Reorganize
<1>4. order' \in [1..n -> S] /\ \A i, j \in 1..n : i # j => order'[i] # order'[j]
  BY <1>2, <1>3, SameCardinality DEF Memory!SetToSeqs
<1>5. IsFiniteSet(S) /\ n \in Nat
  <2>0. OrderExact
    BY DEF MemoryInv
  <2>1. /\ order \in Seq(S) /\ Len(order) \in Nat
        /\ \A r \in S : \E i \in 1..Len(order) : order[i] = r
    <3>1. order \in Seq(S)
      BY <1>1, <2>0 DEF OrderExact
    <3>2. Len(order) \in Nat
      BY <3>1
    <3> QED  BY <1>1, <2>0, <3>1, <3>2 DEF OrderExact
  <2>2. order \in Surjection(1..Len(order), S)
    BY <2>1 DEF Surjection
  <2>3. IsFiniteSet(1..Len(order))
    BY <2>1, FS_Interval
  <2> QED  BY <1>2, <2>2, <2>3, FS_Surjection, FS_CardinalityType
<1>6. order' \in Injection(1..n, S)
  BY <1>4 DEF Injection, IsInjective
<1>7. Cardinality(1..n) = n
  BY <1>5, FS_Interval
<1>8. order' \in Surjection(1..n, S)
  BY <1>2, <1>5, <1>6, <1>7, FS_Injection
<1>9. order' \in Seq(S) /\ Len(order') = n /\ DOMAIN order' = 1..n
  BY <1>4, <1>5
<1>10. OrderExact'
  BY <1>3, <1>4, <1>8, <1>9 DEF OrderExact, Surjection
<1>11. RecordsTyped'
  BY <1>3 DEF MemoryInv, RecordsTyped, Memory!Rid
<1>12. KeysAligned'
  <2>1. \A i \in 1..n : records[order'[i]] \in Keys /\ records[order'[i]] \in Int
    BY <1>1, <1>4, RowsAssumption DEF MemoryInv, RecordsTyped
  <2>2. keys' = [i \in 1..n |-> records[order'[i]]]
    BY <1>3, <1>9
  <2>3. keys' \in Seq(Keys) /\ Len(keys') = n /\ \A i \in 1..n : keys'[i] = records[order'[i]]
    BY <1>5, <2>1, <2>2
  <2>4. ASSUME NEW i \in 1..n, NEW j \in 1..n, i <= j PROVE keys'[i] <= keys'[j]
    <3>1. CASE i = j
      BY <2>1, <2>3, <3>1
    <3>2. CASE i < j
      <4>1. Memory!SortedBefore(order'[i], order'[j])
        BY <1>3, <1>9, <3>2
      <4> QED  BY <2>1, <2>3, <4>1 DEF Memory!SortedBefore
    <3> QED  BY <1>5, <2>4, <3>1, <3>2
  <2> QED  BY <1>3, <1>9, <2>3, <2>4 DEF KeysAligned, SortedKeys
<1> QED  BY <1>10, <1>11, <1>12 DEF MemoryInv

(* A table just created has nothing. *)
LEMMA NothingKeepsMemory ==
  ASSUME slots = 0, records = <<>>, order = <<>>, keys = <<>>
  PROVE  MemoryInv
<1>1. DOMAIN records = {} /\ Len(order) = 0 /\ Len(keys) = 0
  OBVIOUS
<1>2. records \in [DOMAIN records -> Keys]
  OBVIOUS
<1>3. order \in Seq(DOMAIN records) /\ keys \in Seq(Keys)
  OBVIOUS
<1> QED  BY <1>1, <1>2, <1>3 DEF MemoryInv, RecordsTyped, OrderExact, KeysAligned, SortedKeys

(* A table that has just been created, or dropped, or lost with its process. *)
NoTable == slots = 0 /\ records = <<>> /\ order = <<>> /\ keys = <<>>

(* Dropping or losing a table leaves the lists as they start. *)
LEMMA NoTableNext == NoTable' => MemoryInv'
<1>1. NoTable => MemoryInv
  BY NothingKeepsMemory DEF NoTable
<1> QED  BY <1>1, PTL

(* Every step of the memory backend keeps the two lists together. *)
LEMMA NextKeepsMemory ==
  ASSUME MemoryInv, [Memory!MemoryNext]_memoryVars
  PROVE  MemoryInv'
<1>1. ASSUME NEW k \in Keys, Memory!Insert(k), ordered' = ordered PROVE MemoryInv'
  BY <1>1, InsertKeepsMemory
<1>2. ASSUME NEW r \in DOMAIN records, Memory!Delete(r), ordered' = ordered PROVE MemoryInv'
  BY <1>2, DeleteKeepsMemory
<1>3. ASSUME Memory!Reorganize, ordered' = ordered PROVE MemoryInv'
  BY <1>3, ReorganizeKeepsMemory
<1>4. ASSUME UNCHANGED <<records, order, keys, slots, ordered>> PROVE MemoryInv'
  BY <1>4 DEF MemoryInv, RecordsTyped, OrderExact, KeysAligned, Memory!Rid
<1>5. CASE Memory!DropTable \/ Memory!StartAgain
  BY <1>5, NoTableNext DEF NoTable, Memory!DropTable, Memory!StartAgain, Memory!NewTable
<1> QED  BY <1>1, <1>2, <1>3, <1>4, <1>5
         DEF Memory!MemoryNext, Memory!CreateIndex, Memory!DropIndex, memoryVars
-----------------------------------------------------------------------------
(* Behaviours of the memory backend. *)
MemorySpec == Memory!MemoryInit /\ [][Memory!MemoryNext]_memoryVars

(* Whatever backend keeps the table, the one in memory takes its own steps. *)
LEMMA MemoryBehaves == Spec => MemorySpec
<1>1. Init => Memory!MemoryInit
  BY DEF Init
<1>2. [Next]_vars => [Memory!MemoryNext]_memoryVars
  BY DEF Next, vars, memoryVars
<1> QED  BY <1>1, <1>2, PTL DEF Spec, MemorySpec

(* `order` has every RID once; the keys of an ordered table are beside it. *)
THEOREM MemoryCorrect == Spec => []MemoryInv
<1>1. Memory!MemoryInit => MemoryInv
  BY NothingKeepsMemory DEF Memory!MemoryInit
<1>2. MemoryInv /\ [Memory!MemoryNext]_memoryVars => MemoryInv'
  BY NextKeepsMemory
<1> QED  BY <1>1, <1>2, MemoryBehaves, PTL DEF MemorySpec

(* In a sorted list, a range is the places after Start up to End. *)
LEMMA BoundsTaken ==
  ASSUME NEW s \in Seq(Int), SortedKeys(s),
         NEW lower \in Memory!Bounds, NEW upper \in Memory!Bounds
  PROVE  /\ Memory!Start(s, lower) \in 0..Len(s)
         /\ \A i \in 1..Len(s) : (lower = None \/ s[i] >= lower) <=> Memory!Start(s, lower) < i
         /\ Memory!End(s, upper) \in 0..Len(s)
         /\ \A i \in 1..Len(s) : (upper = None \/ s[i] <= upper) <=> i <= Memory!End(s, upper)
<1>1. PICK n \in Nat : n = Len(s)
  OBVIOUS
<1>2. \A i \in 1..n : s[i] \in Int
  BY <1>1
<1>3. PICK a : a = Memory!Start(s, lower)
  OBVIOUS
<1>4. PICK b : b = Memory!End(s, upper)
  OBVIOUS
<1>5. a \in 0..n /\ \A i \in 1..n : (lower = None \/ s[i] >= lower) <=> a < i
  <2>1. CASE lower = None
    BY <1>3, <2>1 DEF Memory!Start
  <2>2. CASE lower # None
    <3>1. lower \in Int /\ a = Memory!BisectLeft(s, lower)
      BY <1>3, <2>2, RowsAssumption DEF Memory!Start, Memory!Bounds
    <3>2. a \in 0..n /\ \A i \in 1..n : s[i] < lower <=> i <= a
      BY <1>1, <3>1, Bisected
    <3> QED  BY <1>2, <2>2, <3>1, <3>2
  <2> QED  BY <2>1, <2>2
<1>6. b \in 0..n /\ \A i \in 1..n : (upper = None \/ s[i] <= upper) <=> i <= b
  <2>1. CASE upper = None
    BY <1>1, <1>4, <2>1 DEF Memory!End
  <2>2. CASE upper # None
    <3>1. upper \in Int /\ b = Memory!BisectRight(s, upper)
      BY <1>4, <2>2, RowsAssumption DEF Memory!End, Memory!Bounds
    <3>2. b \in 0..n /\ \A i \in 1..n : s[i] <= upper <=> i <= b
      BY <1>1, <3>1, Bisected
    <3> QED  BY <2>2, <3>1, <3>2
  <2> QED  BY <2>1, <2>2
<1> QED  BY <1>1, <1>3, <1>4, <1>5, <1>6

(* The places a slice takes are those with a key between its bounds. *)
LEMMA SliceTakesRange ==
  ASSUME MemoryInv, ordered, NEW lower \in Memory!Bounds, NEW upper \in Memory!Bounds
  PROVE  Memory!IsRange(Memory!Slice(lower, upper), lower, upper)
<1>1. /\ RecordsTyped /\ OrderExact /\ KeysAligned
      /\ Len(order) \in Nat /\ DOMAIN order = 1..Len(order)
  BY DEF MemoryInv, OrderExact
<1>2. PICK n \in Nat : n = Len(order)
  BY <1>1
<1>3. /\ keys \in Seq(Int) /\ Len(keys) = n /\ SortedKeys(keys)
      /\ \A i \in 1..n : keys[i] = records[order[i]] /\ keys[i] \in Int
  <2>1. keys \in Seq(Keys) /\ Keys \subseteq Int /\ Len(keys) = n
    BY <1>1, <1>2, RowsAssumption DEF KeysAligned
  <2>2. \A i \in 1..Len(keys) : keys[i] \in Keys
    BY <2>1
  <2>3. \A i \in 1..Len(keys) : keys[i] \in Int
    BY <2>1, <2>2
  <2>4. keys \in Seq(Int)
    BY <2>1, <2>3
  <2> QED  BY <1>1, <1>2, <2>1, <2>3, <2>4 DEF KeysAligned
<1>4. PICK a : a = Memory!Start(keys, lower)
  OBVIOUS
<1>5. PICK b : b = Memory!End(keys, upper)
  OBVIOUS
<1>6. a \in 0..n /\ \A i \in 1..n : (lower = None \/ keys[i] >= lower) <=> a < i
  BY <1>3, <1>4, BoundsTaken
<1>7. b \in 0..n /\ \A i \in 1..n : (upper = None \/ keys[i] <= upper) <=> i <= b
  BY <1>3, <1>5, BoundsTaken
<1>8. PICK rids : rids = Memory!Slice(lower, upper)
  OBVIOUS
<1>9. rids = SubSeq(order, a + 1, b) /\ order \in Seq(DOMAIN records)
  BY <1>1, <1>4, <1>5, <1>8 DEF Memory!Slice, OrderExact
<1>10. /\ DOMAIN rids = 1..(b - a)
       /\ \A i \in 1..(b - a) : rids[i] = order[a + i] /\ a + i \in 1..n /\ a < a + i /\ a + i <= b
  <2>1. DOMAIN rids = 1..(b - a) /\ \A i \in 1..(b - a) : rids[i] = order[a + 1 + i - 1]
    BY <1>2, <1>6, <1>7, <1>9
  <2>2. ASSUME NEW i \in 1..(b - a)
        PROVE  a + 1 + i - 1 = a + i /\ a + i \in 1..n /\ a < a + i /\ a + i <= b
    BY <1>6, <1>7
  <2> QED  BY <2>1, <2>2
<1>11. Memory!IsInjective(rids)
  <2>1. ASSUME NEW i \in DOMAIN rids, NEW j \in DOMAIN rids, rids[i] = rids[j] PROVE i = j
    <3>1. a + i = a + j
      BY <1>1, <1>2, <1>10, <2>1 DEF OrderExact
    <3> QED  BY <1>6, <1>7, <1>10, <3>1
  <2> QED  BY <2>1 DEF Memory!IsInjective
<1>12. ASSUME NEW i \in DOMAIN rids
       PROVE  /\ rids[i] \in DOMAIN records /\ records[rids[i]] = keys[a + i]
              /\ lower = None \/ records[rids[i]] >= lower
              /\ upper = None \/ records[rids[i]] <= upper
  <2>1. PICK j \in 1..n : j = a + i
    BY <1>10
  <2>2. rids[i] = order[j] /\ a < j /\ j <= b
    BY <1>10, <2>1
  <2>3. order[j] \in DOMAIN records
    BY <1>2, <1>9, <2>1
  <2>4. records[rids[i]] = keys[j]
    BY <1>3, <2>1, <2>2
  <2>5. lower = None \/ keys[j] >= lower
    BY <1>6, <2>1, <2>2
  <2>6. upper = None \/ keys[j] <= upper
    BY <1>7, <2>1, <2>2
  <2> QED  BY <2>1, <2>2, <2>3, <2>4, <2>5, <2>6
<1>13. ASSUME NEW r \in DOMAIN records,
              lower = None \/ records[r] >= lower, upper = None \/ records[r] <= upper
       PROVE  \E i \in DOMAIN rids : rids[i] = r
  <2>1. PICK j \in 1..n : order[j] = r
    BY <1>1, <1>2 DEF OrderExact
  <2>2. a < j /\ j <= b
    BY <1>3, <1>6, <1>7, <1>13, <2>1
  <2>3. j - a \in 1..(b - a) /\ a + (j - a) = j
    BY <1>6, <1>7, <2>2
  <2> QED  BY <1>10, <2>1, <2>3
<1>14. Memory!ToSet(rids) =
         {r \in DOMAIN records : /\ lower = None \/ records[r] >= lower
                                 /\ upper = None \/ records[r] <= upper}
  BY <1>12, <1>13 DEF Memory!ToSet
<1>15. ASSUME NEW i \in DOMAIN rids, NEW j \in DOMAIN rids, i < j
       PROVE  records[rids[i]] <= records[rids[j]]
  <2>1. PICK x \in 1..n : x = a + i
    BY <1>10
  <2>2. PICK y \in 1..n : y = a + j
    BY <1>10
  <2>3. x <= y
    BY <1>6, <1>7, <1>10, <1>15, <2>1, <2>2
  <2>4. keys[x] <= keys[y]
    BY <1>3, <2>3 DEF SortedKeys
  <2> QED  BY <1>12, <2>1, <2>2, <2>4
<1> QED  BY <1>8, <1>11, <1>14, <1>15 DEF Memory!IsRange

(* Ordered access to a table in memory returns the rows between its bounds,
   each once and in key order, whatever came before.                       *)
THEOREM SlicesAreExact == Spec => []SlicesExact
<1>1. MemoryInv => SlicesExact
  BY SliceTakesRange DEF SlicesExact, Memory!SlicesExact
<1> QED  BY <1>1, MemoryCorrect, PTL

-----------------------------------------------------------------------------
(* Lists that have each element of a set once: the buckets of an index, and
   its keys.                                                               *)
(* A list with the elements of S, each once. *)
Lists(s, S) ==
  /\ \A i, j \in 1..Len(s) : s[i] = s[j] => i = j
  /\ {s[i] : i \in 1..Len(s)} = S

(* What such a list says of its elements. *)
LEMMA ListsElements ==
  ASSUME NEW E, NEW s \in Seq(E), NEW S, Lists(s, S)
  PROVE  /\ \A i \in 1..Len(s) : s[i] \in S
         /\ \A x \in S : \E i \in 1..Len(s) : s[i] = x
         /\ S \subseteq E /\ (s = <<>> <=> S = {})
<1>1. PICK n \in Nat : n = Len(s)
  OBVIOUS
<1>2. \A i \in 1..n : s[i] \in S /\ s[i] \in E
  BY <1>1 DEF Lists
<1>3. \A x \in S : \E i \in 1..n : s[i] = x
  BY <1>1 DEF Lists
<1>4. s = <<>> <=> n = 0
  BY <1>1
<1>5. n = 0 <=> S = {}
  <2>1. n # 0 => 1 \in 1..n
    OBVIOUS
  <2> QED  BY <1>2, <1>3, <2>1
<1> QED  BY <1>1, <1>2, <1>3, <1>4, <1>5

(* ... and what says of a list that it is one. *)
LEMMA ListsAsSaid ==
  ASSUME NEW E, NEW s \in Seq(E), NEW S,
         \A i, j \in 1..Len(s) : s[i] = s[j] => i = j,
         \A i \in 1..Len(s) : s[i] \in S,
         \A x \in S : \E i \in 1..Len(s) : s[i] = x
  PROVE  Lists(s, S)
BY DEF Lists

(* The empty list. *)
LEMMA EmptyLists == Lists(<<>>, {})
BY DEF Lists

(* One element more, at any place. *)
LEMMA ListsInserted ==
  ASSUME NEW E, NEW s \in Seq(E), NEW S, Lists(s, S), NEW e \in E, e \notin S,
         NEW p \in 1..(Len(s) + 1)
  PROVE  Lists(Memory!InsertAt(s, p, e), S \cup {e})
<1>1. PICK n \in Nat : n = Len(s)
  OBVIOUS
<1>2. PICK t : t = Memory!InsertAt(s, p, e)
  OBVIOUS
<1>3. /\ t \in Seq(E) /\ Len(t) = n + 1 /\ p \in 1..(n + 1)
      /\ \A i \in 1..(n + 1) : t[i] = IF i < p THEN s[i] ELSE IF i = p THEN e ELSE s[i - 1]
  BY <1>1, <1>2, InsertAtShape
<1>4. /\ \A i \in 1..n : s[i] \in S
      /\ \A x \in S : \E i \in 1..n : s[i] = x
      /\ \A i, j \in 1..n : s[i] = s[j] => i = j
  BY <1>1, ListsElements DEF Lists
<1>5. ASSUME NEW i \in 1..(n + 1)
      PROVE  \/ i < p /\ i \in 1..n /\ t[i] = s[i]
             \/ i = p /\ t[i] = e
             \/ i > p /\ i - 1 \in 1..n /\ t[i] = s[i - 1]
  <2>1. \/ i < p /\ i \in 1..n
        \/ i = p
        \/ i > p /\ i - 1 \in 1..n /\ ~(i < p) /\ i # p
    BY <1>3
  <2> QED  BY <1>3, <2>1
<1>6. ASSUME NEW i \in 1..(n + 1), NEW j \in 1..(n + 1), t[i] = t[j] PROVE i = j
  <2>1. i \in Int /\ j \in Int /\ p \in Int
    BY <1>3
  <2>2. CASE i < p /\ i \in 1..n /\ t[i] = s[i]
    <3>1. CASE j < p /\ j \in 1..n /\ t[j] = s[j]
      BY <1>4, <1>6, <2>2, <3>1
    <3>2. CASE j = p /\ t[j] = e
      BY <1>4, <1>6, <2>2, <3>2
    <3>3. CASE j > p /\ j - 1 \in 1..n /\ t[j] = s[j - 1]
      <4>1. i = j - 1
        BY <1>4, <1>6, <2>2, <3>3
      <4> QED  BY <2>1, <2>2, <3>3, <4>1
    <3> QED  BY <1>5, <3>1, <3>2, <3>3
  <2>3. CASE i = p /\ t[i] = e
    BY <1>4, <1>5, <1>6, <2>1, <2>3
  <2>4. CASE i > p /\ i - 1 \in 1..n /\ t[i] = s[i - 1]
    <3>1. CASE j > p /\ j - 1 \in 1..n /\ t[j] = s[j - 1]
      <4>1. i - 1 = j - 1
        BY <1>4, <1>6, <2>4, <3>1
      <4> QED  BY <2>1, <4>1
    <3>2. CASE j = p /\ t[j] = e
      BY <1>4, <1>6, <2>4, <3>2
    <3>3. CASE j < p /\ j \in 1..n /\ t[j] = s[j]
      <4>1. i - 1 = j
        BY <1>4, <1>6, <2>4, <3>3
      <4> QED  BY <2>1, <2>4, <3>3, <4>1
    <3> QED  BY <1>5, <3>1, <3>2, <3>3
  <2> QED  BY <1>5, <2>2, <2>3, <2>4
<1>7. \A i \in 1..(n + 1) : t[i] \in S \cup {e}
  BY <1>4, <1>5
<1>8. ASSUME NEW x \in S \cup {e} PROVE \E i \in 1..(n + 1) : t[i] = x
  <2>1. CASE x = e
    <3>1. t[p] = e
      BY <1>3
    <3> QED  BY <1>3, <2>1, <3>1
  <2>2. CASE x # e
    <3>1. PICK i \in 1..n : s[i] = x
      BY <1>4, <1>8, <2>2
    <3>2. CASE i < p
      <4>1. i \in 1..(n + 1) /\ t[i] = s[i]
        BY <1>3, <3>2
      <4> QED  BY <3>1, <4>1
    <3>3. CASE ~(i < p)
      <4>1. i + 1 \in 1..(n + 1) /\ ~(i + 1 < p) /\ i + 1 # p /\ (i + 1) - 1 = i
        BY <1>3, <3>3
      <4>2. t[i + 1] = s[i]
        BY <1>3, <4>1
      <4> QED  BY <3>1, <4>1, <4>2
    <3> QED  BY <3>2, <3>3
  <2> QED  BY <2>1, <2>2
<1>9. PICK T : T = S \cup {e}
  OBVIOUS
<1>10. Lists(t, T)
  BY <1>3, <1>6, <1>7, <1>8, <1>9, ListsAsSaid
<1> QED  BY <1>2, <1>9, <1>10

(* ... or at the end. *)
LEMMA ListsAppended ==
  ASSUME NEW E, NEW s \in Seq(E), NEW S, Lists(s, S), NEW e \in E, e \notin S
  PROVE  Lists(Append(s, e), S \cup {e}) /\ Append(s, e) \in Seq(E)
<1>1. PICK n \in Nat : n = Len(s)
  OBVIOUS
<1>2. PICK t : t = Append(s, e)
  OBVIOUS
<1>3. t \in Seq(E) /\ Len(t) = n + 1 /\ t[n + 1] = e /\ \A i \in 1..n : t[i] = s[i]
  BY <1>1, <1>2
<1>4. /\ \A i \in 1..n : s[i] \in S
      /\ \A x \in S : \E i \in 1..n : s[i] = x
      /\ \A i, j \in 1..n : s[i] = s[j] => i = j
  BY <1>1, ListsElements DEF Lists
<1>5. \A i \in 1..(n + 1) : i \in 1..n \/ i = n + 1
  OBVIOUS
<1>6. \A i \in 1..n : i \in 1..(n + 1) /\ n + 1 \in 1..(n + 1)
  OBVIOUS
<1>7. \A i, j \in 1..(n + 1) : t[i] = t[j] => i = j
  BY <1>3, <1>4, <1>5
<1>8. \A i \in 1..(n + 1) : t[i] \in S \cup {e}
  BY <1>3, <1>4, <1>5
<1>9. ASSUME NEW x \in S \cup {e} PROVE \E i \in 1..(n + 1) : t[i] = x
  <2>1. n + 1 \in 1..(n + 1)
    OBVIOUS
  <2>2. CASE x = e
    BY <1>3, <2>1, <2>2
  <2>3. CASE x # e
    <3>1. PICK i \in 1..n : s[i] = x
      BY <1>4, <1>9, <2>3
    <3> QED  BY <1>3, <1>6, <3>1
  <2> QED  BY <2>2, <2>3
<1>10. PICK T : T = S \cup {e}
  OBVIOUS
<1>11. Lists(t, T)
  BY <1>3, <1>7, <1>8, <1>9, <1>10, ListsAsSaid
<1> QED  BY <1>2, <1>3, <1>10, <1>11

(* One element less; what is sorted stays so. *)
LEMMA ListsRemoved ==
  ASSUME NEW E, NEW s \in Seq(E), NEW S, Lists(s, S), NEW p \in 1..Len(s)
  PROVE  /\ Memory!RemoveAt(s, p) \in Seq(E)
         /\ Lists(Memory!RemoveAt(s, p), S \ {s[p]})
         /\ SortedKeys(s) => SortedKeys(Memory!RemoveAt(s, p))
<1>1. PICK n \in Nat : n = Len(s) /\ p \in 1..n
  OBVIOUS
<1>2. PICK t : t = Memory!RemoveAt(s, p)
  OBVIOUS
<1>3. /\ t \in Seq(E) /\ Len(t) = n - 1
      /\ \A i \in 1..(n - 1) : t[i] = IF i < p THEN s[i] ELSE s[i + 1]
  BY <1>1, <1>2, RemoveAtShape
<1>4. /\ \A i \in 1..n : s[i] \in S
      /\ \A x \in S : \E i \in 1..n : s[i] = x
      /\ \A i, j \in 1..n : s[i] = s[j] => i = j
  BY <1>1, ListsElements DEF Lists
<1>5. ASSUME NEW i \in 1..(n - 1)
      PROVE  \/ i < p /\ i \in 1..n /\ t[i] = s[i]
             \/ i >= p /\ i + 1 \in 1..n /\ t[i] = s[i + 1]
  <2>1. \/ i < p /\ i \in 1..n
        \/ i >= p /\ i + 1 \in 1..n /\ ~(i < p)
    BY <1>1
  <2> QED  BY <1>3, <2>1
<1>6. ASSUME NEW i \in 1..(n - 1), NEW j \in 1..(n - 1), t[i] = t[j] PROVE i = j
  BY <1>1, <1>4, <1>5, <1>6
<1>7. ASSUME NEW i \in 1..(n - 1) PROVE t[i] \in S \ {s[p]}
  BY <1>1, <1>4, <1>5
<1>8. ASSUME NEW x \in S \ {s[p]} PROVE \E i \in 1..(n - 1) : t[i] = x
  <2>1. PICK i \in 1..n : s[i] = x
    BY <1>4, <1>8
  <2>2. CASE i < p
    <3>1. i \in 1..(n - 1) /\ t[i] = s[i]
      BY <1>1, <1>3, <2>2
    <3> QED  BY <2>1, <3>1
  <2>3. CASE ~(i < p)
    <3>1. i # p
      BY <1>8, <2>1
    <3>2. i - 1 \in 1..(n - 1) /\ ~(i - 1 < p) /\ (i - 1) + 1 = i
      BY <1>1, <2>3, <3>1
    <3>3. t[i - 1] = s[i]
      BY <1>3, <3>2
    <3> QED  BY <2>1, <3>2, <3>3
  <2> QED  BY <2>2, <2>3
<1>9. ASSUME SortedKeys(s), NEW i \in 1..(n - 1), NEW j \in 1..(n - 1), i <= j PROVE t[i] <= t[j]
  <2>1. PICK a : a = IF i < p THEN i ELSE i + 1
    OBVIOUS
  <2>2. PICK b : b = IF j < p THEN j ELSE j + 1
    OBVIOUS
  <2>3. a \in 1..n /\ t[i] = s[a] /\ b \in 1..n /\ t[j] = s[b]
    BY <1>1, <1>5, <2>1, <2>2
  <2>4. a <= b
    BY <1>1, <1>9, <2>1, <2>2
  <2> QED  BY <1>1, <1>9, <2>3, <2>4 DEF SortedKeys
<1>10. SortedKeys(s) => SortedKeys(t)
  BY <1>3, <1>9 DEF SortedKeys
<1>11. {t[i] : i \in 1..(n - 1)} = S \ {s[p]}
  BY <1>7, <1>8
<1>12. Lists(t, S \ {s[p]})
  BY <1>3, <1>6, <1>11 DEF Lists
<1> QED  BY <1>2, <1>3, <1>10, <1>12

(* list.remove of an element takes that one out. *)
LEMMA ListsWithout ==
  ASSUME NEW E, NEW s \in Seq(E), NEW S, Lists(s, S), NEW r \in S
  PROVE  Memory!Without(s, r) \in Seq(E) /\ Lists(Memory!Without(s, r), S \ {r})
<1>1. PICK n \in Nat : n = Len(s) /\ DOMAIN s = 1..n
  OBVIOUS
<1>2. PICK q \in 1..n : s[q] = r
  BY <1>1, ListsElements
<1>3. \A j \in 1..(q - 1) : s[j] # r
  <2>1. \A j \in 1..(q - 1) : j \in 1..n /\ j # q
    BY <1>1
  <2> QED  BY <1>1, <1>2, <2>1 DEF Lists
<1>4. PICK p : p = CHOOSE i \in DOMAIN s : s[i] = r /\ \A j \in 1..(i - 1) : s[j] # r
  OBVIOUS
<1>5. p \in 1..n /\ s[p] = r
  BY <1>1, <1>2, <1>3, <1>4
<1>6. r \in Memory!ToSet(s)
  BY <1>1, <1>2 DEF Memory!ToSet
<1>7. Memory!Without(s, r) = Memory!RemoveAt(s, p)
  BY <1>4, <1>6 DEF Memory!Without
<1> QED  BY <1>1, <1>5, <1>7, ListsRemoved

(* A key goes into a sorted list after those no greater. *)
LEMMA SortedInserted ==
  ASSUME NEW s \in Seq(Keys), SortedKeys(s), NEW k \in Keys
  PROVE  /\ Memory!BisectRight(s, k) + 1 \in 1..(Len(s) + 1)
         /\ Memory!InsertAt(s, Memory!BisectRight(s, k) + 1, k) \in Seq(Keys)
         /\ SortedKeys(Memory!InsertAt(s, Memory!BisectRight(s, k) + 1, k))
<1>1. PICK n \in Nat : n = Len(s)
  OBVIOUS
<1>2. Keys \subseteq Int /\ s \in Seq(Int) /\ k \in Int /\ \A i \in 1..n : s[i] \in Int
  <2>1. Keys \subseteq Int
    BY RowsAssumption
  <2>2. \A i \in 1..n : s[i] \in Keys
    BY <1>1
  <2>3. \A i \in 1..Len(s) : s[i] \in Int
    BY <1>1, <2>1, <2>2
  <2>4. s \in Seq(Int)
    BY <2>3
  <2> QED  BY <1>1, <2>1, <2>3, <2>4
<1>3. PICK p : p = Memory!BisectRight(s, k) + 1
  OBVIOUS
<1>4. p \in 1..(n + 1) /\ \A i \in 1..n : s[i] <= k <=> i < p
  <2>1. PICK b : b = Memory!BisectRight(s, k)
    OBVIOUS
  <2>2. b \in 0..n /\ \A i \in 1..n : s[i] <= k <=> i <= b
    BY <1>1, <1>2, <2>1, Bisected
  <2> QED  BY <1>3, <2>1, <2>2
<1>5. PICK t : t = Memory!InsertAt(s, p, k)
  OBVIOUS
<1>6. /\ t \in Seq(Keys) /\ Len(t) = n + 1
      /\ \A i \in 1..(n + 1) : t[i] = IF i < p THEN s[i] ELSE IF i = p THEN k ELSE s[i - 1]
  <2>1. s \in Seq(Keys) /\ k \in Keys /\ p \in 1..(Len(s) + 1)
    BY <1>1, <1>4
  <2>2. t \in Seq(Keys) /\ Len(t) = n + 1
    BY <1>1, <1>5, <2>1, InsertAtShape
  <2>3. \A i \in 1..(Len(s) + 1) :
          Memory!InsertAt(s, p, k)[i] = IF i < p THEN s[i] ELSE IF i = p THEN k ELSE s[i - 1]
    BY <2>1, InsertAtShape
  <2> QED  BY <1>1, <1>5, <2>2, <2>3
<1>7. ASSUME NEW i \in 1..(n + 1)
      PROVE  \/ i < p /\ i \in 1..n /\ t[i] = s[i] /\ s[i] <= k
             \/ i = p /\ t[i] = k
             \/ i > p /\ i - 1 \in 1..n /\ t[i] = s[i - 1] /\ k < s[i - 1]
  <2>1. \/ i < p /\ i \in 1..n
        \/ i = p
        \/ i > p /\ i - 1 \in 1..n /\ ~(i < p) /\ i # p /\ ~(i - 1 < p)
    BY <1>4
  <2>2. \A m \in 1..n : ~(m < p) => k < s[m]
    BY <1>2, <1>4
  <2> QED  BY <1>4, <1>6, <2>1, <2>2
<1>8. ASSUME NEW i \in 1..(n + 1), NEW j \in 1..(n + 1), i <= j PROVE t[i] <= t[j]
  <2>1. p \in Int /\ \A a, b \in 1..n : a <= b => s[a] <= s[b]
    BY <1>1, <1>4 DEF SortedKeys
  <2>2. CASE i < p /\ i \in 1..n /\ t[i] = s[i] /\ s[i] <= k
    <3>1. CASE j < p /\ j \in 1..n /\ t[j] = s[j]
      BY <1>8, <2>1, <2>2, <3>1
    <3>2. CASE j = p /\ t[j] = k
      BY <2>2, <3>2
    <3>3. CASE j > p /\ j - 1 \in 1..n /\ t[j] = s[j - 1] /\ k < s[j - 1]
      BY <1>2, <2>2, <3>3
    <3> QED  BY <1>7, <3>1, <3>2, <3>3
  <2>3. CASE i = p /\ t[i] = k
    <3>1. CASE j = p /\ t[j] = k
      BY <1>2, <2>3, <3>1
    <3>2. CASE j > p /\ j - 1 \in 1..n /\ t[j] = s[j - 1] /\ k < s[j - 1]
      BY <1>2, <2>3, <3>2
    <3> QED  BY <1>7, <1>8, <2>1, <2>3, <3>1, <3>2
  <2>4. CASE i > p /\ i - 1 \in 1..n /\ t[i] = s[i - 1]
    <3>1. j > p
      BY <1>8, <2>1, <2>4
    <3>2. j - 1 \in 1..n /\ t[j] = s[j - 1] /\ i - 1 <= j - 1
      <4>1. ~(j < p) /\ j # p
        BY <2>1, <3>1
      <4> QED  BY <1>7, <1>8, <4>1
    <3> QED  BY <2>1, <2>4, <3>2
  <2> QED  BY <1>7, <2>2, <2>3, <2>4
<1> QED  BY <1>1, <1>3, <1>4, <1>5, <1>6, <1>8 DEF SortedKeys

-----------------------------------------------------------------------------
(* The index in memory. *)

(* The buckets F and the keys ks of an index of the rows of D, whose keys are
   R's.                                                                     *)
Indexed(F, ks, R, D) ==
  /\ F \in [DOMAIN F -> Seq(Int \X Int)] /\ DOMAIN F \subseteq Keys
  /\ DOMAIN F = {R[q] : q \in D}
  /\ \A x \in DOMAIN F : Lists(F[x], {q \in D : R[q] = x})
  /\ ks \in Seq(Keys) /\ Lists(ks, DOMAIN F) /\ SortedKeys(ks)

Indexes(ix, R, D) ==
  /\ ix = [entries |-> ix.entries, keys |-> ix.keys, built |-> TRUE]
  /\ Indexed(ix.entries, ix.keys, R, D)

(* The bucket of a key has the rows with that key. *)
LEMMA BucketHolds ==
  ASSUME NEW ix, NEW R, NEW D, Indexes(ix, R, D), NEW F, F = ix.entries,
         NEW k, NEW b, b = Memory!Bucket(ix, k)
  PROVE  /\ b \in Seq(Int \X Int)
         /\ Lists(b, {q \in D : R[q] = k})
         /\ (k \in DOMAIN F => b # <<>>)
         /\ (k \in DOMAIN F => b = F[k])
<1>1. /\ F \in [DOMAIN F -> Seq(Int \X Int)] /\ DOMAIN F = {R[q] : q \in D}
      /\ \A x \in DOMAIN F : Lists(F[x], {q \in D : R[q] = x})
  BY DEF Indexes, Indexed
<1>2. CASE k \in DOMAIN F
  <2>1. b = F[k] /\ b \in Seq(Int \X Int) /\ Lists(b, {q \in D : R[q] = k})
    BY <1>1, <1>2 DEF Memory!Bucket
  <2>2. PICK B : B = {q \in D : R[q] = k}
    OBVIOUS
  <2>3. B # {}
    BY <1>1, <1>2, <2>2
  <2>4. b # <<>>
    BY <2>1, <2>2, <2>3, ListsElements
  <2> QED  BY <1>2, <2>1, <2>4
<1>3. CASE k \notin DOMAIN F
  <2>1. b = <<>>
    BY <1>3 DEF Memory!Bucket
  <2>2. {q \in D : R[q] = k} = {}
    BY <1>1, <1>3
  <2>3. <<>> \in Seq(Int \X Int)
    OBVIOUS
  <2> QED  BY <1>3, <2>1, <2>2, <2>3, EmptyLists
<1> QED  BY <1>2, <1>3

(* A row more. *)
LEMMA IndexWithKeeps ==
  ASSUME NEW ix, NEW R, NEW D, Indexes(ix, R, D),
         NEW r \in Int \X Int, r \notin D, NEW k \in Keys,
         NEW T, T[r] = k, \A q \in D : T[q] = R[q]
  PROVE  Indexes(Memory!IndexWith(ix, k, r), T, D \cup {r})
<1>1. PICK F : F = ix.entries
  OBVIOUS
<1>2. PICK ks : ks = ix.keys
  OBVIOUS
<1>3. /\ ix = [entries |-> F, keys |-> ks, built |-> TRUE]
      /\ F \in [DOMAIN F -> Seq(Int \X Int)] /\ DOMAIN F \subseteq Keys
      /\ DOMAIN F = {R[q] : q \in D}
      /\ \A x \in DOMAIN F : Lists(F[x], {q \in D : R[q] = x})
      /\ ks \in Seq(Keys) /\ Lists(ks, DOMAIN F) /\ SortedKeys(ks)
  BY <1>1, <1>2 DEF Indexes, Indexed
<1>4. PICK b : b = Memory!Bucket(ix, k)
  OBVIOUS
<1>5. /\ b \in Seq(Int \X Int) /\ Lists(b, {q \in D : R[q] = k})
      /\ (b = <<>> <=> k \notin DOMAIN F)
  <2>1. b \in Seq(Int \X Int)
    BY <1>1, <1>4, BucketHolds
  <2>2. Lists(b, {q \in D : R[q] = k})
    BY <1>1, <1>4, BucketHolds
  <2>3. b = <<>> <=> k \notin DOMAIN F
    <3>1. PICK B : B = {q \in D : R[q] = k}
      OBVIOUS
    <3>2. b = <<>> <=> B = {}
      BY <2>1, <2>2, <3>1, ListsElements
    <3>3. B = {} <=> k \notin DOMAIN F
      BY <1>3, <3>1
    <3> QED  BY <3>2, <3>3
  <2> QED  BY <2>1, <2>2, <2>3
<1>6. PICK K : K = DOMAIN F \cup {k}
  OBVIOUS
<1>7. PICK G : G = [x \in K |-> IF x = k THEN Append(b, r) ELSE F[x]]
  OBVIOUS
<1>8. PICK new : new = IF b = <<>> THEN Memory!InsertAt(ks, Memory!BisectRight(ks, k) + 1, k) ELSE ks
  OBVIOUS
<1>9. Memory!IndexWith(ix, k, r) = [entries |-> G, keys |-> new, built |-> TRUE]
  <2>1. Memory!IndexWith(ix, k, r) =
          [ix EXCEPT !.entries = [x \in DOMAIN ix.entries \cup {k} |->
                                    IF x = k THEN Append(b, r) ELSE ix.entries[x]],
                     !.keys = new]
    BY <1>1, <1>2, <1>4, <1>8 DEF Memory!IndexWith
  <2>2. G = [x \in DOMAIN F \cup {k} |-> IF x = k THEN Append(b, r) ELSE F[x]]
    BY <1>6, <1>7
  <2>3. Memory!IndexWith(ix, k, r) = [ix EXCEPT !.entries = G, !.keys = new]
    BY <1>1, <2>1, <2>2
  <2> QED  BY <1>3, <2>3
<1>10. Append(b, r) \in Seq(Int \X Int) /\ Lists(Append(b, r), {q \in D : R[q] = k} \cup {r})
  <2>1. r \notin {q \in D : R[q] = k}
    OBVIOUS
  <2> QED  BY <1>5, <2>1, ListsAppended
<1>11. K \in SUBSET Keys /\ G \in [K -> Seq(Int \X Int)]
  <2>1. K \in SUBSET Keys
    BY <1>3, <1>6
  <2>2. \A x \in K : G[x] \in Seq(Int \X Int)
    BY <1>3, <1>6, <1>7, <1>10
  <2> QED  BY <1>7, <2>1, <2>2
<1>12. PICK E : E = D \cup {r}
  OBVIOUS
<1>13. K = {T[q] : q \in E}
  BY <1>3, <1>6, <1>12
<1>14. ASSUME NEW x \in K PROVE Lists(G[x], {q \in E : T[q] = x})
  <2>1. CASE x = k
    <3>1. {q \in E : T[q] = x} = {q \in D : R[q] = k} \cup {r}
      BY <1>12, <2>1
    <3> QED  BY <1>7, <1>10, <1>14, <2>1, <3>1
  <2>2. CASE x # k
    <3>1. {q \in E : T[q] = x} = {q \in D : R[q] = x} /\ x \in DOMAIN F
      BY <1>6, <1>12, <2>2
    <3> QED  BY <1>3, <1>7, <1>14, <2>2, <3>1
  <2> QED  BY <2>1, <2>2
<1>15. new \in Seq(Keys) /\ Lists(new, K) /\ SortedKeys(new)
  <2>1. CASE b = <<>>
    <3>1. k \notin DOMAIN F
      BY <1>5, <2>1
    <3>2. PICK p : p = Memory!BisectRight(ks, k) + 1
      OBVIOUS
    <3>3. /\ p \in 1..(Len(ks) + 1) /\ new = Memory!InsertAt(ks, p, k)
          /\ new \in Seq(Keys) /\ SortedKeys(new)
      BY <1>3, <1>8, <2>1, <3>2, SortedInserted
    <3>4. Lists(Memory!InsertAt(ks, p, k), DOMAIN F \cup {k})
      BY <1>3, <3>1, <3>3, ListsInserted
    <3> QED  BY <1>6, <3>3, <3>4
  <2>2. CASE b # <<>>
    <3>1. new = ks /\ K = DOMAIN F
      BY <1>5, <1>6, <1>8, <2>2
    <3> QED  BY <1>3, <3>1
  <2> QED  BY <2>1, <2>2
<1>16. Indexed(G, new, T, E)
  <2>1. DOMAIN G = K
    BY <1>11
  <2> QED  BY <1>11, <1>13, <1>14, <1>15, <2>1 DEF Indexed
<1> QED  BY <1>9, <1>12, <1>16 DEF Indexes

(* A row less. *)
LEMMA IndexWithoutKeeps ==
  ASSUME NEW ix, NEW R, NEW D, Indexes(ix, R, D), NEW r \in D, NEW k, R[r] = k,
         NEW T, \A q \in D \ {r} : T[q] = R[q]
  PROVE  Indexes(Memory!IndexWithout(ix, k, r), T, D \ {r})
<1>1. PICK F : F = ix.entries
  OBVIOUS
<1>2. PICK ks : ks = ix.keys
  OBVIOUS
<1>3. /\ ix = [entries |-> F, keys |-> ks, built |-> TRUE]
      /\ F \in [DOMAIN F -> Seq(Int \X Int)] /\ DOMAIN F \subseteq Keys
      /\ DOMAIN F = {R[q] : q \in D}
      /\ \A x \in DOMAIN F : Lists(F[x], {q \in D : R[q] = x})
      /\ ks \in Seq(Keys) /\ Lists(ks, DOMAIN F) /\ SortedKeys(ks)
  BY <1>1, <1>2 DEF Indexes, Indexed
<1>4. k \in DOMAIN F
  BY <1>3
<1>5. PICK b : b = Memory!Bucket(ix, k)
  OBVIOUS
<1>6. /\ b \in Seq(Int \X Int) /\ Lists(b, {q \in D : R[q] = k}) /\ b # <<>> /\ b = F[k]
  BY <1>1, <1>4, <1>5, BucketHolds
<1>7. PICK left : left = Memory!Without(b, r)
  OBVIOUS
<1>8. PICK E : E = D \ {r}
  OBVIOUS
<1>9. left \in Seq(Int \X Int) /\ Lists(left, {q \in E : R[q] = k})
  <2>1. r \in {q \in D : R[q] = k}
    OBVIOUS
  <2>2. {q \in E : R[q] = k} = {q \in D : R[q] = k} \ {r}
    BY <1>8
  <2>3. left \in Seq(Int \X Int) /\ Lists(left, {q \in D : R[q] = k} \ {r})
    BY <1>6, <1>7, <2>1, ListsWithout
  <2> QED  BY <2>2, <2>3
<1>10. \A x : {q \in E : T[q] = x} = {q \in E : R[q] = x}
  BY <1>8
<1>11. CASE left # <<>>
  <2>1. PICK G : G = [F EXCEPT ![k] = left]
    OBVIOUS
  <2>2. Memory!IndexWithout(ix, k, r) = [entries |-> G, keys |-> ks, built |-> TRUE]
    BY <1>3, <1>5, <1>6, <1>7, <1>11, <2>1 DEF Memory!IndexWithout
  <2>3. /\ DOMAIN G = DOMAIN F /\ G[k] = left /\ \A x \in DOMAIN F : x # k => G[x] = F[x]
    BY <1>3, <1>4, <2>1
  <2>4. PICK K : K = DOMAIN F
    OBVIOUS
  <2>5. K \in SUBSET Keys /\ G \in [K -> Seq(Int \X Int)]
    BY <1>3, <1>9, <2>1, <2>4
  <2>6. PICK q \in E : R[q] = k
    BY <1>9, <1>11, ListsElements
  <2>7. K = {T[y] : y \in E}
    <3>1. {R[y] : y \in E} = {T[y] : y \in E}
      BY <1>8
    <3>2. {R[y] : y \in D} = {R[y] : y \in E}
      BY <1>8, <2>6
    <3> QED  BY <1>3, <2>4, <3>1, <3>2
  <2>8. ASSUME NEW x \in K PROVE Lists(G[x], {y \in E : T[y] = x})
    <3>1. CASE x = k
      BY <1>9, <1>10, <2>3, <3>1
    <3>2. CASE x # k
      <4>1. {y \in E : T[y] = x} = {y \in D : R[y] = x}
        BY <1>8, <3>2
      <4> QED  BY <1>3, <2>3, <2>4, <2>8, <3>2, <4>1
    <3> QED  BY <3>1, <3>2
  <2>9. Indexed(G, ks, T, E)
    <3>1. DOMAIN G = K
      BY <2>5
    <3> QED  BY <1>3, <2>4, <2>5, <2>7, <2>8, <3>1 DEF Indexed
  <2> QED  BY <1>8, <2>2, <2>9 DEF Indexes
<1>12. CASE left = <<>>
  <2>1. PICK K : K = DOMAIN F \ {k}
    OBVIOUS
  <2>2. PICK G : G = [x \in K |-> F[x]]
    OBVIOUS
  <2>3. PICK place : place = Memory!BisectLeft(ks, k) + 1
    OBVIOUS
  <2>4. place \in 1..Len(ks) /\ ks[place] = k
    <3>1. PICK n \in Nat : n = Len(ks)
      BY <1>3
    <3>2. PICK i \in 1..n : ks[i] = k
      <4>1. PICK W : W = DOMAIN F
        OBVIOUS
      <4>2. ks \in Seq(Keys) /\ Lists(ks, W) /\ k \in W
        BY <1>3, <1>4, <4>1
      <4> QED  BY <3>1, <4>2, ListsElements
    <3>3. ks \in Seq(Int) /\ k \in Int /\ \A j \in 1..n : ks[j] \in Int
      <4>1. \A j \in 1..Len(ks) : ks[j] \in Keys
        BY <1>3
      <4>2. \A j \in 1..Len(ks) : ks[j] \in Int
        BY <4>1, RowsAssumption
      <4>3. ks \in Seq(Int)
        BY <1>3, <4>2
      <4> QED  BY <3>1, <3>2, <4>2, <4>3
    <3>4. PICK a : a = Memory!BisectLeft(ks, k)
      OBVIOUS
    <3>5. a \in 0..n /\ \A j \in 1..n : ks[j] < k <=> j <= a
      BY <1>3, <3>1, <3>3, <3>4, Bisected
    <3>6. ~(i <= a)
      BY <3>2, <3>3, <3>5
    <3>7. a + 1 \in 1..n /\ a + 1 <= i /\ ~(a + 1 <= a)
      BY <3>2, <3>5, <3>6
    <3>8. ks[a + 1] <= ks[i]
      BY <1>3, <3>1, <3>2, <3>7 DEF SortedKeys
    <3>9. ~(ks[a + 1] < k) /\ ks[a + 1] \in Int
      BY <3>3, <3>5, <3>7
    <3>10. ks[a + 1] = k
      BY <3>2, <3>3, <3>8, <3>9
    <3> QED  BY <2>3, <3>1, <3>4, <3>7, <3>10
  <2>5. PICK new : new = Memory!RemoveAt(ks, place)
    OBVIOUS
  <2>6. place <= Len(ks)
    BY <1>3, <2>4
  <2>7. Memory!IndexWithout(ix, k, r) = [entries |-> G, keys |-> new, built |-> TRUE]
    BY <1>3, <1>5, <1>6, <1>7, <1>12, <2>1, <2>2, <2>3, <2>4, <2>5, <2>6 DEF Memory!IndexWithout
  <2>8. new \in Seq(Keys) /\ Lists(new, K) /\ SortedKeys(new)
    <3>1. PICK X : X = DOMAIN F
      OBVIOUS
    <3>2. ks \in Seq(Keys) /\ Lists(ks, X) /\ place \in 1..Len(ks)
      BY <1>3, <2>4, <3>1
    <3>3. new \in Seq(Keys)
      BY <2>5, <3>2, ListsRemoved
    <3>4. Lists(new, X \ {ks[place]})
      BY <2>5, <3>2, ListsRemoved
    <3>5. SortedKeys(new)
      BY <1>3, <2>5, <3>2, ListsRemoved
    <3> QED  BY <2>1, <2>4, <3>1, <3>3, <3>4, <3>5
  <2>9. K \in SUBSET Keys /\ G \in [K -> Seq(Int \X Int)]
    BY <1>3, <2>1, <2>2
  <2>10. \A y \in E : R[y] # k
    <3>1. PICK B : B = {y \in E : R[y] = k}
      OBVIOUS
    <3>2. B = {}
      BY <1>9, <1>12, <3>1, ListsElements
    <3> QED  BY <3>1, <3>2
  <2>11. K = {T[y] : y \in E}
    <3>1. {T[y] : y \in E} = {R[y] : y \in E}
      BY <1>8
    <3>2. {R[y] : y \in E} = {R[y] : y \in D} \ {k}
      BY <1>8, <2>10
    <3> QED  BY <1>3, <2>1, <3>1, <3>2
  <2>12. ASSUME NEW x \in K PROVE Lists(G[x], {y \in E : T[y] = x})
    <3>1. {y \in E : T[y] = x} = {y \in D : R[y] = x} /\ x \in DOMAIN F
      BY <1>8, <2>1, <2>12
    <3> QED  BY <1>3, <2>2, <2>12, <3>1
  <2>13. Indexed(G, new, T, E)
    <3>1. DOMAIN G = K
      BY <2>9
    <3> QED  BY <2>8, <2>9, <2>11, <2>12, <3>1 DEF Indexed
  <2> QED  BY <1>8, <2>7, <2>13 DEF Indexes
<1> QED  BY <1>11, <1>12

(* An RID is a page and a slot in it. *)
LEMMA RidsArePairs ==
  ASSUME RecordsTyped
  PROVE  DOMAIN records \subseteq Int \X Int /\ Memory!Rid(slots) \in Int \X Int
<1>1. Capacity \in Nat \ {0}
  BY RowsAssumption
<1>2. ASSUME NEW n \in Nat PROVE Memory!Rid(n) \in Int \X Int
  <2>1. n \div Capacity \in Int /\ n % Capacity \in Int
    BY <1>1
  <2> QED  BY <2>1 DEF Memory!Rid
<1>3. \A n \in 0..(slots - 1) : n \in Nat
  BY DEF RecordsTyped
<1> QED  BY <1>2, <1>3 DEF RecordsTyped

(* An index of nothing. *)
LEMMA EmptyIndexes == \A R : Indexes(Memory!EmptyIndex, R, {})
<1>1. /\ <<>> \in [DOMAIN <<>> -> Seq(Int \X Int)] /\ DOMAIN <<>> = {}
      /\ <<>> \in Seq(Keys)
  OBVIOUS
<1>2. SortedKeys(<<>>)
  BY DEF SortedKeys
<1>3. ASSUME NEW R PROVE Indexed(<<>>, <<>>, R, {})
  BY <1>1, <1>2, EmptyLists DEF Indexed
<1>4. Memory!EmptyIndex = [entries |-> <<>>, keys |-> <<>>, built |-> TRUE]
  <2>1. PICK none : none = <<>>
    OBVIOUS
  <2>2. Memory!EmptyIndex = [[entries |-> none, keys |-> none, built |-> FALSE] EXCEPT !.built = TRUE]
    BY <2>1 DEF Memory!EmptyIndex, Memory!NoIndex
  <2>3. Memory!EmptyIndex = [entries |-> none, keys |-> none, built |-> TRUE]
    BY <2>2
  <2> QED  BY <2>1, <2>3
<1> QED  BY <1>3, <1>4 DEF Indexes

(* What holds at first and is handed on from round to round of a loop. *)
LEMMA EveryRound ==
  ASSUME NEW N \in Nat, NEW G, 0 \in G, \A n \in 1..N : n - 1 \in G => n \in G
  PROVE  \A n \in 0..N : n \in G
<1>1. PICK T : T = {n \in 0..N : n \notin G}
  OBVIOUS
<1>2. ASSUME T # {} PROVE FALSE
  <2>1. T \subseteq Nat
    BY <1>1
  <2>2. PICK n \in T : \A y \in T : n <= y
    BY <1>2, <2>1, LeastElement
  <2>3. n \in 0..N /\ n \notin G /\ n # 0
    BY <1>1, <2>2
  <2>4. n \in 1..N /\ n - 1 \in 0..N /\ ~(n <= n - 1)
    BY <2>3
  <2>5. n - 1 \in G
    BY <1>1, <2>2, <2>4
  <2> QED  BY <2>3, <2>4, <2>5
<1> QED  BY <1>1, <1>2

(* bulk_load has an index after each row. *)
Loads(f, N) ==
  f = [n \in 0..N |-> IF n = 0 THEN Memory!EmptyIndex
                      ELSE Memory!IndexWith(f[n - 1], records[order[n]], order[n])]

(* There is such a run of bulk_load. *)
LEMMA LoadRuns == ASSUME NEW N \in Nat PROVE \E f : Loads(f, N)
<1>1. PICK G : G = {n \in 0..N : \E f : Loads(f, n)}
  OBVIOUS
<1>2. 0 \in G
  <2>1. PICK f : f = [n \in 0..0 |-> Memory!EmptyIndex]
    OBVIOUS
  <2>2. \A n \in 0..0 : n = 0
    OBVIOUS
  <2>3. Loads(f, 0)
    BY <2>1, <2>2 DEF Loads
  <2> QED  BY <1>1, <2>3
<1>3. ASSUME NEW n \in 1..N, n - 1 \in G PROVE n \in G
  <2>1. PICK f : Loads(f, n - 1)
    BY <1>1, <1>3
  <2>2. PICK g : g = [i \in 0..n |-> IF i = n THEN Memory!IndexWith(f[n - 1], records[order[n]], order[n])
                                     ELSE f[i]]
    OBVIOUS
  <2>3. \A i \in 0..n : i = n \/ i \in 0..(n - 1)
    OBVIOUS
  <2>4. n - 1 \in 0..n /\ n - 1 # n /\ n \in 0..n /\ n # 0
    OBVIOUS
  <2>5. ASSUME NEW i \in 0..n
        PROVE  g[i] = IF i = 0 THEN Memory!EmptyIndex
                      ELSE Memory!IndexWith(g[i - 1], records[order[i]], order[i])
    <3>1. CASE i = n
      <4>1. g[n - 1] = f[n - 1]
        BY <2>2, <2>4
      <4> QED  BY <2>2, <2>4, <3>1, <4>1
    <3>2. CASE i # n
      <4>1. i \in 0..(n - 1) /\ g[i] = f[i]
        BY <2>2, <2>3, <3>2
      <4>2. CASE i = 0
        BY <2>1, <4>1, <4>2 DEF Loads
      <4>3. CASE i # 0
        <5>1. i - 1 \in 0..n /\ i - 1 # n
          BY <4>1, <4>3
        <5>2. g[i - 1] = f[i - 1]
          BY <2>2, <5>1
        <5> QED  BY <2>1, <4>1, <4>3, <5>2 DEF Loads
      <4> QED  BY <4>2, <4>3
    <3> QED  BY <3>1, <3>2
  <2>6. Loads(g, n)
    BY <2>2, <2>5 DEF Loads
  <2> QED  BY <1>1, <2>6
<1>4. N \in G
  BY <1>2, <1>3, EveryRound
<1> QED  BY <1>1, <1>4

(* Loading takes the rows in, one after the other. *)
LEMMA LoadIsExact == ASSUME MemoryInv PROVE Indexes(Memory!Loaded, records, DOMAIN records)
<1>1. PICK N \in Nat : N = Len(order)
  BY DEF MemoryInv, OrderExact
<1> DEFINE chosen == CHOOSE f : f = [n \in 0..N |->
                       IF n = 0 THEN Memory!EmptyIndex
                       ELSE Memory!IndexWith(f[n - 1], records[order[n]], order[n])]
<1>2. Memory!Loaded = chosen[N]
  BY <1>1 DEF Memory!Loaded
<1>3. Loads(chosen, N)
  BY LoadRuns DEF Loads
<1> HIDE DEF chosen
<1>4. PICK load : load = chosen
  OBVIOUS
<1>5. load[0] = Memory!EmptyIndex
  <2>1. 0 \in 0..N
    OBVIOUS
  <2> QED  BY <1>3, <1>4, <2>1 DEF Loads
<1>6. \A n \in 1..N : load[n] = Memory!IndexWith(load[n - 1], records[order[n]], order[n])
  <2>1. \A n \in 1..N : n \in 0..N /\ n # 0
    OBVIOUS
  <2> QED  BY <1>3, <1>4, <2>1 DEF Loads
<1>7. PICK taken : taken = [n \in 0..N |-> {order[i] : i \in 1..n}]
  OBVIOUS
<1>8. /\ \A i \in 1..N : order[i] \in DOMAIN records
      /\ \A i, j \in 1..N : order[i] = order[j] => i = j
      /\ \A r \in DOMAIN records : \E i \in 1..N : order[i] = r
  BY <1>1 DEF MemoryInv, OrderExact
<1>9. PICK G : G = {n \in 0..N : Indexes(load[n], records, taken[n])}
  OBVIOUS
<1>10. 0 \in G
  <2>1. 0 \in 0..N /\ 1..0 = {}
    OBVIOUS
  <2>2. taken[0] = {}
    BY <1>7, <2>1
  <2> QED  BY <1>5, <1>9, <2>1, <2>2, EmptyIndexes
<1>11. ASSUME NEW n \in 1..N, n - 1 \in G PROVE n \in G
  <2>1. n - 1 \in 0..N /\ n \in 0..N
    OBVIOUS
  <2>2. PICK r : r = order[n]
    OBVIOUS
  <2>3. PICK k : k = records[r]
    OBVIOUS
  <2>4. r \in DOMAIN records /\ r \in Int \X Int /\ k \in Keys
    <3>1. r \in DOMAIN records
      BY <1>8, <2>2
    <3> QED  BY <2>3, <3>1, RidsArePairs DEF MemoryInv, RecordsTyped
  <2>5. taken[n] = taken[n - 1] \cup {r} /\ r \notin taken[n - 1]
    <3>1. \A i \in 1..n : i \in 1..(n - 1) \/ i = n
      OBVIOUS
    <3>2. \A i \in 1..(n - 1) : i \in 1..n /\ i \in 1..N /\ i # n
      OBVIOUS
    <3>3. n \in 1..n
      OBVIOUS
    <3>4. taken[n] = {order[i] : i \in 1..n} /\ taken[n - 1] = {order[i] : i \in 1..(n - 1)}
      BY <1>7, <2>1
    <3>5. r \notin taken[n - 1]
      BY <1>8, <2>2, <3>2, <3>4
    <3>6. taken[n] = taken[n - 1] \cup {r}
      BY <2>2, <3>1, <3>2, <3>3, <3>4
    <3> QED  BY <3>5, <3>6
  <2>6. PICK ix : ix = load[n - 1]
    OBVIOUS
  <2>7. PICK D : D = taken[n - 1]
    OBVIOUS
  <2>8. Indexes(ix, records, D) /\ r \notin D
    BY <1>9, <1>11, <2>5, <2>6, <2>7
  <2>9. Indexes(Memory!IndexWith(ix, k, r), records, D \cup {r})
    BY <2>3, <2>4, <2>8, IndexWithKeeps
  <2>10. load[n] = Memory!IndexWith(ix, k, r)
    BY <1>6, <2>2, <2>3, <2>6
  <2> QED  BY <1>9, <2>1, <2>5, <2>7, <2>9, <2>10
<1>12. N \in G
  BY <1>10, <1>11, EveryRound
<1>13. taken[N] = DOMAIN records
  <2>1. taken[N] = {order[i] : i \in 1..N}
    BY <1>7
  <2> QED  BY <1>8, <2>1
<1> QED  BY <1>2, <1>4, <1>9, <1>12, <1>13

-----------------------------------------------------------------------------
(* The index of the table, once it is built, has its rows. *)
IndexInv == index.built => Indexes(index, records, DOMAIN records)

(* ... and every step of the memory backend keeps it so. *)
LEMMA NextKeepsIndex ==
  ASSUME MemoryInv, IndexInv, [Memory!MemoryNext]_memoryVars
  PROVE  IndexInv'
<1>1. ASSUME NEW k \in Keys, Memory!Insert(k) PROVE IndexInv'
  <2>1. PICK r : r = Memory!Rid(slots)
    OBVIOUS
  <2>2. PICK T : T = records'
    OBVIOUS
  <2>3. T = [q \in DOMAIN records \cup {r} |-> IF q = r THEN k ELSE records[q]]
    BY <1>1, <2>1, <2>2 DEF Memory!Insert
  <2>4. index' = IF index.built THEN Memory!IndexWith(index, k, r) ELSE index
    BY <1>1, <2>1 DEF Memory!Insert
  <2>5. r \in Int \X Int /\ r \notin DOMAIN records
    BY <2>1, RidsArePairs, RidIsNew DEF MemoryInv
  <2>6. PICK D : D = DOMAIN records
    OBVIOUS
  <2>7. DOMAIN T = D \cup {r} /\ T[r] = k /\ \A q \in D : T[q] = records[q]
    BY <2>3, <2>5, <2>6
  <2>8. CASE index.built
    <3>1. Indexes(index, records, D)
      BY <2>6, <2>8 DEF IndexInv
    <3>2. PICK ix : ix = index
      OBVIOUS
    <3>3. PICK R : R = records
      OBVIOUS
    <3>4. Indexes(Memory!IndexWith(ix, k, r), T, D \cup {r})
      BY <2>5, <2>6, <2>7, <3>1, <3>2, <3>3, IndexWithKeeps
    <3>5. Indexes(index', T, DOMAIN T)
      BY <2>4, <2>7, <2>8, <3>2, <3>4
    <3> QED  BY <2>2, <3>5 DEF IndexInv
  <2>9. CASE ~index.built
    <3>1. ~index'.built
      BY <2>4, <2>9
    <3> QED  BY <3>1 DEF IndexInv
  <2> QED  BY <2>8, <2>9
<1>2. ASSUME NEW r \in DOMAIN records, Memory!Delete(r) PROVE IndexInv'
  <2>1. PICK k : k = records[r]
    OBVIOUS
  <2>2. PICK T : T = records'
    OBVIOUS
  <2>3. T = [q \in DOMAIN records \ {r} |-> records[q]]
    BY <1>2, <2>2 DEF Memory!Delete
  <2>4. index' = IF index.built THEN Memory!IndexWithout(index, k, r) ELSE index
    BY <1>2, <2>1 DEF Memory!Delete
  <2>5. PICK D : D = DOMAIN records
    OBVIOUS
  <2>6. DOMAIN T = D \ {r} /\ r \in D /\ \A q \in D \ {r} : T[q] = records[q]
    BY <2>3, <2>5
  <2>7. CASE index.built
    <3>1. Indexes(index, records, D)
      BY <2>5, <2>7 DEF IndexInv
    <3>2. PICK ix : ix = index
      OBVIOUS
    <3>3. PICK R : R = records
      OBVIOUS
    <3>4. Indexes(Memory!IndexWithout(ix, k, r), T, D \ {r})
      BY <2>1, <2>6, <3>1, <3>2, <3>3, IndexWithoutKeeps
    <3>5. Indexes(index', T, DOMAIN T)
      BY <2>4, <2>6, <2>7, <3>2, <3>4
    <3> QED  BY <2>2, <3>5 DEF IndexInv
  <2>8. CASE ~index.built
    <3>1. ~index'.built
      BY <2>4, <2>8
    <3> QED  BY <3>1 DEF IndexInv
  <2> QED  BY <2>7, <2>8
<1>3. ASSUME UNCHANGED <<records, index>> PROVE IndexInv'
  BY <1>3 DEF IndexInv
<1>4. CASE Memory!CreateIndex
  <2>1. index' = Memory!Loaded /\ records' = records
    BY <1>4 DEF Memory!CreateIndex
  <2> QED  BY <2>1, LoadIsExact DEF IndexInv
<1>5. CASE index' = Memory!NoIndex
  <2>1. ~index'.built
    BY <1>5 DEF Memory!NoIndex
  <2> QED  BY <2>1 DEF IndexInv
<1> QED  BY <1>1, <1>2, <1>3, <1>4, <1>5
         DEF Memory!MemoryNext, Memory!Reorganize, Memory!DropIndex, Memory!DropTable,
             Memory!StartAgain, Memory!NewTable, memoryVars

(* An index that is built has exactly the rows of its table. *)
THEOREM IndexCorrect == Spec => []IndexInv
<1>1. Memory!MemoryInit => IndexInv
  BY DEF Memory!MemoryInit, Memory!NoIndex, IndexInv
<1>2. MemoryInv /\ IndexInv /\ [Memory!MemoryNext]_memoryVars => IndexInv'
  BY NextKeepsIndex
<1> QED  BY <1>1, <1>2, MemoryCorrect, MemoryBehaves, PTL DEF MemorySpec

-----------------------------------------------------------------------------
(* Searching the index by range. *)

(* The rows of a list come in the order of their keys. *)
Ascends(s, R) == \A i, j \in 1..Len(s) : i < j => R[s[i]] <= R[s[j]]

(* Rows with one key after rows whose keys are smaller. *)
LEMMA Joined ==
  ASSUME NEW E, NEW s \in Seq(E), NEW S, Lists(s, S), NEW t \in Seq(E), NEW T, Lists(t, T),
         NEW R, \A x \in S \cup T : R[x] \in Int, Ascends(s, R), NEW k,
         \A y \in T : R[y] = k, \A x \in S : R[x] < k
  PROVE  s \o t \in Seq(E) /\ Lists(s \o t, S \cup T) /\ Ascends(s \o t, R)
<1>1. PICK m \in Nat : m = Len(s)
  OBVIOUS
<1>2. PICK n \in Nat : n = Len(t)
  OBVIOUS
<1>3. PICK u : u = s \o t
  OBVIOUS
<1>4. /\ u \in Seq(E) /\ Len(u) = m + n
      /\ \A i \in 1..m : u[i] = s[i]
      /\ \A i \in 1..n : u[m + i] = t[i]
  BY <1>1, <1>2, <1>3
<1>5. /\ \A i \in 1..m : s[i] \in S
      /\ \A x \in S : \E i \in 1..m : s[i] = x
      /\ \A i, j \in 1..m : s[i] = s[j] => i = j
  <2>1. /\ \A i \in 1..m : s[i] \in S
        /\ \A x \in S : \E i \in 1..m : s[i] = x
    BY <1>1, ListsElements
  <2> QED  BY <1>1, <2>1 DEF Lists
<1>6. /\ \A i \in 1..n : t[i] \in T
      /\ \A x \in T : \E i \in 1..n : t[i] = x
      /\ \A i, j \in 1..n : t[i] = t[j] => i = j
  <2>1. /\ \A i \in 1..n : t[i] \in T
        /\ \A x \in T : \E i \in 1..n : t[i] = x
    BY <1>2, ListsElements
  <2> QED  BY <1>2, <2>1 DEF Lists
<1>7. ASSUME NEW i \in 1..(m + n)
      PROVE  \/ i \in 1..m /\ u[i] = s[i] /\ u[i] \in S
             \/ i > m /\ i - m \in 1..n /\ u[i] = t[i - m] /\ u[i] \in T
  <2>1. CASE i \in 1..m
    BY <1>4, <1>5, <2>1
  <2>2. CASE i \notin 1..m
    <3>1. i > m /\ i - m \in 1..n /\ m + (i - m) = i
      BY <2>2
    <3>2. u[m + (i - m)] = t[i - m]
      BY <1>4, <3>1
    <3> QED  BY <1>6, <3>1, <3>2
  <2> QED  BY <2>1, <2>2
<1>8. \A x \in S, y \in T : x # y
  BY SMT
<1>9. ASSUME NEW i \in 1..(m + n), NEW j \in 1..(m + n), u[i] = u[j] PROVE i = j
  <2>1. CASE i \in 1..m /\ u[i] = s[i] /\ u[i] \in S
    <3>1. CASE j \in 1..m /\ u[j] = s[j]
      BY <1>5, <1>9, <2>1, <3>1
    <3>2. CASE u[j] \in T
      BY <1>8, <1>9, <2>1, <3>2
    <3> QED  BY <1>7, <3>1, <3>2
  <2>2. CASE i > m /\ i - m \in 1..n /\ u[i] = t[i - m] /\ u[i] \in T
    <3>1. CASE u[j] \in S
      BY <1>8, <1>9, <2>2, <3>1
    <3>2. CASE j > m /\ j - m \in 1..n /\ u[j] = t[j - m]
      <4>1. PICK a \in 1..n : a = i - m
        BY <2>2
      <4>2. PICK b \in 1..n : b = j - m
        BY <3>2
      <4>3. t[a] = t[b]
        BY <1>9, <2>2, <3>2, <4>1, <4>2
      <4>4. a = b
        BY <1>6, <4>3
      <4> QED  BY <4>1, <4>2, <4>4
    <3> QED  BY <1>7, <3>1, <3>2
  <2> QED  BY <1>7, <2>1, <2>2
<1>10. ASSUME NEW x \in S \cup T PROVE \E i \in 1..(m + n) : u[i] = x
  <2>1. CASE x \in S
    <3>1. PICK i \in 1..m : s[i] = x
      BY <1>5, <2>1
    <3>2. i \in 1..(m + n) /\ u[i] = x
      BY <1>4, <3>1
    <3> QED  BY <3>2
  <2>2. CASE x \in T
    <3>1. PICK i \in 1..n : t[i] = x
      BY <1>6, <2>2
    <3>2. m + i \in 1..(m + n) /\ u[m + i] = x
      BY <1>4, <3>1
    <3> QED  BY <3>2
  <2> QED  BY <2>1, <2>2
<1>11. PICK V : V = S \cup T
  OBVIOUS
<1>12. Lists(u, V)
  <2>1. \A i \in 1..(m + n) : u[i] \in V
    BY <1>7, <1>11
  <2>2. \A i, j \in 1..(m + n) : u[i] = u[j] => i = j
    BY <1>9
  <2>3. \A x \in V : \E i \in 1..(m + n) : u[i] = x
    BY <1>10, <1>11
  <2>4. {u[i] : i \in 1..(m + n)} = V
    BY <2>1, <2>3
  <2> QED  BY <1>4, <2>2, <2>4 DEF Lists
<1>13. ASSUME NEW i \in 1..(m + n), NEW j \in 1..(m + n), i < j PROVE R[u[i]] <= R[u[j]]
  <2>1. CASE u[j] \in T
    <3>1. R[u[j]] = k /\ R[u[i]] \in Int /\ k \in Int
      BY <1>7, <2>1
    <3>2. CASE u[i] \in S
      BY <3>1, <3>2
    <3>3. CASE u[i] \in T
      BY <3>1, <3>3
    <3> QED  BY <1>7, <3>2, <3>3
  <2>2. CASE j \in 1..m /\ u[j] = s[j]
    <3>1. i \in 1..m
      BY <1>13, <2>2
    <3>2. u[i] = s[i]
      BY <1>4, <3>1
    <3> QED  BY <1>1, <1>13, <2>2, <3>1, <3>2 DEF Ascends
  <2> QED  BY <1>7, <2>1, <2>2
<1>14. Ascends(u, R)
  BY <1>4, <1>13 DEF Ascends
<1> QED  BY <1>3, <1>4, <1>11, <1>12, <1>14

(* A search in the index has a list after each key. *)
Gathers(f, F, ks, N) == f = [n \in 0..N |-> IF n = 0 THEN <<>> ELSE f[n - 1] \o F[ks[n]]]

(* There is such a run of a search. *)
LEMMA GatherRuns ==
  ASSUME NEW N \in Nat, NEW F, NEW ks
  PROVE  \E f : Gathers(f, F, ks, N)
<1>1. PICK G : G = {n \in 0..N : \E f : Gathers(f, F, ks, n)}
  OBVIOUS
<1>2. 0 \in G
  <2>1. PICK f : f = [n \in 0..0 |-> <<>>]
    OBVIOUS
  <2>2. \A n \in 0..0 : n = 0
    OBVIOUS
  <2>3. Gathers(f, F, ks, 0)
    BY <2>1, <2>2 DEF Gathers
  <2> QED  BY <1>1, <2>3
<1>3. ASSUME NEW n \in 1..N, n - 1 \in G PROVE n \in G
  <2>1. PICK f : Gathers(f, F, ks, n - 1)
    BY <1>1, <1>3
  <2>2. PICK g : g = [i \in 0..n |-> IF i = n THEN f[n - 1] \o F[ks[n]] ELSE f[i]]
    OBVIOUS
  <2>3. \A i \in 0..n : i = n \/ i \in 0..(n - 1)
    OBVIOUS
  <2>4. n - 1 \in 0..n /\ n - 1 # n /\ n \in 0..n /\ n # 0
    OBVIOUS
  <2>5. ASSUME NEW i \in 0..n
        PROVE  g[i] = IF i = 0 THEN <<>> ELSE g[i - 1] \o F[ks[i]]
    <3>1. CASE i = n
      <4>1. g[n - 1] = f[n - 1]
        BY <2>2, <2>4
      <4> QED  BY <2>2, <2>4, <3>1, <4>1
    <3>2. CASE i # n
      <4>1. i \in 0..(n - 1) /\ g[i] = f[i]
        BY <2>2, <2>3, <3>2
      <4>2. CASE i = 0
        BY <2>1, <4>1, <4>2 DEF Gathers
      <4>3. CASE i # 0
        <5>1. i - 1 \in 0..n /\ i - 1 # n
          BY <4>1, <4>3
        <5>2. g[i - 1] = f[i - 1]
          BY <2>2, <5>1
        <5> QED  BY <2>1, <4>1, <4>3, <5>2 DEF Gathers
      <4> QED  BY <4>2, <4>3
    <3> QED  BY <3>1, <3>2
  <2>6. Gathers(g, F, ks, n)
    BY <2>2, <2>5 DEF Gathers
  <2> QED  BY <1>1, <2>6
<1>4. N \in G
  BY <1>2, <1>3, EveryRound
<1> QED  BY <1>1, <1>4

(* Keys in order, each once, and the rows of D that have one of them. *)
Ascending(ks) == \A i, j \in 1..Len(ks) : i < j => ks[i] < ks[j]
Keyed(ks, R, D) == {q \in D : \E i \in 1..Len(ks) : ks[i] = R[q]}

(* Such a search returns those rows, in the order of their keys. *)
LEMMA GatherIsExact ==
  ASSUME NEW F, NEW keysIn, NEW R, NEW D, Indexed(F, keysIn, R, D),
         NEW K, K = DOMAIN F, NEW ks \in Seq(K), Ascending(ks),
         NEW f, Gathers(f, F, ks, Len(ks)), NEW rids, rids = f[Len(ks)]
  PROVE  rids \in Seq(Int \X Int) /\ Ascends(rids, R) /\ Lists(rids, Keyed(ks, R, D))
<1>1. PICK N \in Nat : N = Len(ks)
  OBVIOUS
<1>2. /\ F \in [DOMAIN F -> Seq(Int \X Int)] /\ DOMAIN F \subseteq Keys
      /\ DOMAIN F = {R[q] : q \in D}
      /\ \A x \in DOMAIN F : Lists(F[x], {q \in D : R[q] = x})
  BY DEF Indexed
<1>3. \A q \in D : R[q] \in Int
  BY <1>2, RowsAssumption
<1>4. PICK taken : taken = [n \in 0..N |-> {q \in D : \E i \in 1..n : ks[i] = R[q]}]
  OBVIOUS
<1>5. PICK G : G = {n \in 0..N : /\ f[n] \in Seq(Int \X Int) /\ Ascends(f[n], R)
                               /\ Lists(f[n], taken[n])}
  OBVIOUS
<1>6. 0 \in G
  <2>1. 0 \in 0..N /\ 1..0 = {}
    OBVIOUS
  <2>2. f[0] = <<>> /\ taken[0] = {}
    BY <1>1, <1>4, <2>1 DEF Gathers
  <2>3. Ascends(<<>>, R) /\ <<>> \in Seq(Int \X Int)
    BY DEF Ascends
  <2> QED  BY <1>5, <2>1, <2>2, <2>3, EmptyLists
<1>7. ASSUME NEW n \in 1..N, n - 1 \in G PROVE n \in G
  <2>1. n - 1 \in 0..N /\ n \in 0..N /\ n # 0
    OBVIOUS
  <2>2. PICK k : k = ks[n]
    OBVIOUS
  <2>3. k \in DOMAIN F /\ k \in Int
    <3>1. k \in DOMAIN F
      BY <1>1, <2>2
    <3> QED  BY <1>2, <3>1, RowsAssumption
  <2>4. PICK s : s = f[n - 1]
    OBVIOUS
  <2>5. PICK S : S = taken[n - 1]
    OBVIOUS
  <2>6. s \in Seq(Int \X Int) /\ Ascends(s, R) /\ Lists(s, S)
    BY <1>5, <1>7, <2>4, <2>5
  <2>7. PICK T : T = {q \in D : R[q] = k}
    OBVIOUS
  <2>8. PICK t : t = F[k]
    OBVIOUS
  <2>9. t \in Seq(Int \X Int) /\ Lists(t, T)
    BY <1>2, <2>3, <2>7, <2>8
  <2>10. S = {q \in D : \E i \in 1..(n - 1) : ks[i] = R[q]}
    BY <1>4, <2>1, <2>5
  <2>11. \A x \in S : R[x] < k
    <3>1. ASSUME NEW x \in S PROVE R[x] < k
      <4>1. PICK i \in 1..(n - 1) : ks[i] = R[x]
        BY <2>10
      <4>2. i \in 1..N /\ i < n
        BY <4>1
      <4>3. ks[i] < ks[n]
        BY <1>1, <4>2 DEF Ascending
      <4> QED  BY <2>2, <4>1, <4>3
    <3> QED  BY <3>1
  <2>12. (\A x \in S \cup T : R[x] \in Int) /\ \A y \in T : R[y] = k
    BY <1>3, <2>7, <2>10
  <2>13. s \o t \in Seq(Int \X Int) /\ Lists(s \o t, S \cup T) /\ Ascends(s \o t, R)
    BY <2>6, <2>9, <2>11, <2>12, Joined
  <2>14. f[n] = s \o t
    BY <1>1, <2>1, <2>2, <2>4, <2>8 DEF Gathers
  <2>15. taken[n] = S \cup T
    <3>1. taken[n] = {q \in D : \E i \in 1..n : ks[i] = R[q]}
      BY <1>4, <2>1
    <3>2. \A i \in 1..n : i \in 1..(n - 1) \/ i = n
      OBVIOUS
    <3>3. n \in 1..n /\ \A i \in 1..(n - 1) : i \in 1..n
      OBVIOUS
    <3> QED  BY <2>2, <2>7, <2>10, <3>1, <3>2, <3>3
  <2> QED  BY <1>5, <2>1, <2>13, <2>14, <2>15
<1>8. N \in G
  <2>1. \A n \in 0..N : n \in G
    BY <1>6, <1>7, EveryRound
  <2> QED  BY <2>1
<1>9. taken[N] = Keyed(ks, R, D)
  BY <1>1, <1>4 DEF Keyed
<1> QED  BY <1>1, <1>5, <1>8, <1>9

(* The keys of K between two bounds, ascending. *)
Spans(ks, K, lower, upper) ==
  /\ ks \in Seq(K) /\ Ascending(ks)
  /\ \A i \in 1..Len(ks) : /\ lower = None \/ ks[i] >= lower
                           /\ upper = None \/ ks[i] <= upper
  /\ \A k \in K : (lower = None \/ k >= lower) /\ (upper = None \/ k <= upper)
                    => \E i \in 1..Len(ks) : ks[i] = k

(* A part of a list. *)
LEMMA PartShape ==
  ASSUME NEW E, NEW s \in Seq(E), NEW c \in 1..Len(s), NEW b \in 1..Len(s), c <= b
  PROVE  /\ SubSeq(s, c, b) \in Seq(E) /\ Len(SubSeq(s, c, b)) = b - c + 1
         /\ \A i \in 1..(b - c + 1) : SubSeq(s, c, b)[i] = s[c + i - 1]
<1>1. Len(s) \in Nat
  OBVIOUS
<1>2. Len(SubSeq(s, c, b)) = b - c + 1
  BY <1>1
<1>3. \A i \in 1..(b - c + 1) : SubSeq(s, c, b)[i] = s[c + i - 1]
  BY <1>1
<1>4. SubSeq(s, c, b) \in Seq(E)
  BY <1>1
<1> QED  BY <1>2, <1>3, <1>4

(* range_search takes those of the index. *)
LEMMA BetweenIsExact ==
  ASSUME NEW s \in Seq(Keys), NEW K, Lists(s, K), SortedKeys(s),
         NEW lower \in Memory!Bounds, NEW upper \in Memory!Bounds,
         NEW ks, ks = SubSeq(s, Memory!Start(s, lower) + 1, Memory!End(s, upper))
  PROVE  Spans(ks, K, lower, upper)
<1>1. PICK n \in Nat : n = Len(s)
  OBVIOUS
<1>2. PICK a : a = Memory!Start(s, lower)
  OBVIOUS
<1>3. PICK b : b = Memory!End(s, upper)
  OBVIOUS
<1>4. s \in Seq(Int) /\ \A i \in 1..n : s[i] \in Int
  <2>1. \A i \in 1..Len(s) : s[i] \in Keys
    OBVIOUS
  <2>2. \A i \in 1..Len(s) : s[i] \in Int
    BY <2>1, RowsAssumption
  <2>3. s \in Seq(Int)
    BY <2>2
  <2> QED  BY <1>1, <2>2, <2>3
<1>5. /\ a \in 0..n /\ \A i \in 1..n : (lower = None \/ s[i] >= lower) <=> a < i
      /\ b \in 0..n /\ \A i \in 1..n : (upper = None \/ s[i] <= upper) <=> i <= b
  BY <1>1, <1>2, <1>3, <1>4, BoundsTaken
<1>6. /\ \A i \in 1..n : s[i] \in K
      /\ \A k \in K : \E i \in 1..n : s[i] = k
  BY <1>1, ListsElements
<1>7. ASSUME NEW i \in 1..n, NEW j \in 1..n, i < j PROVE s[i] < s[j]
  <2>1. s[i] <= s[j]
    BY <1>1, <1>7 DEF SortedKeys
  <2>2. s[i] # s[j]
    BY <1>1, <1>7 DEF Lists
  <2> QED  BY <1>4, <2>1, <2>2
<1>8. CASE a < b
  <2>1. PICK m \in Nat : m = b - a
    BY <1>5, <1>8
  <2>2. Len(ks) = m /\ ks \in Seq(Keys) /\ \A i \in 1..m : ks[i] = s[a + i]
    <3>1. /\ a + 1 \in 1..n /\ b \in 1..n /\ b - (a + 1) + 1 = m
          /\ \A i \in 1..m : (a + 1) + i - 1 = a + i
      BY <1>5, <1>8, <2>1
    <3>2. PICK c \in 1..n : c = a + 1
      BY <3>1
    <3>3. ks = SubSeq(s, c, b) /\ b \in 1..n /\ c <= b
      BY <1>2, <1>3, <1>5, <1>8, <3>2
    <3>4. c \in 1..Len(s) /\ b \in 1..Len(s) /\ c <= b
      BY <1>1, <3>2, <3>3
    <3>5. PICK u : u = SubSeq(s, c, b)
      OBVIOUS
    <3>6. u \in Seq(Keys) /\ Len(u) = b - c + 1
      BY <3>4, <3>5, PartShape
    <3>7. \A i \in 1..(b - c + 1) : u[i] = s[c + i - 1]
      BY <3>4, <3>5, PartShape
    <3> QED  BY <3>1, <3>2, <3>3, <3>5, <3>6, <3>7
  <2>3. \A i \in 1..m : a + i \in 1..n /\ a < a + i /\ a + i <= b
    BY <1>5, <2>1
  <2>4. \A i \in 1..m : ks[i] \in K
    BY <1>6, <2>2, <2>3
  <2>5. ks \in Seq(K)
    <3>1. PICK u \in Seq(Keys) : u = ks
      BY <2>2
    <3>2. \A i \in 1..Len(u) : u[i] \in K
      BY <2>2, <2>4, <3>1
    <3>3. u \in Seq(K)
      BY <3>2
    <3> QED  BY <3>1, <3>3
  <2>6. ASSUME NEW i \in 1..m, NEW j \in 1..m, i < j PROVE ks[i] < ks[j]
    <3>1. a + i \in 1..n /\ a + j \in 1..n /\ a + i < a + j
      BY <1>5, <2>3, <2>6
    <3>2. s[a + i] < s[a + j]
      BY <1>7, <3>1
    <3> QED  BY <2>2, <3>2
  <2>7. ASSUME NEW i \in 1..m
        PROVE  (lower = None \/ ks[i] >= lower) /\ (upper = None \/ ks[i] <= upper)
    BY <1>5, <2>2, <2>3
  <2>8. ASSUME NEW k \in K, lower = None \/ k >= lower, upper = None \/ k <= upper
        PROVE  \E i \in 1..m : ks[i] = k
    <3>1. PICK j \in 1..n : s[j] = k
      BY <1>6
    <3>2. a < j /\ j <= b
      BY <1>5, <2>8, <3>1
    <3>3. j - a \in 1..m /\ a + (j - a) = j
      BY <1>5, <2>1, <3>2
    <3>4. ks[j - a] = k
      BY <2>2, <3>1, <3>3
    <3> QED  BY <3>3, <3>4
  <2> QED  BY <2>2, <2>5, <2>6, <2>7, <2>8 DEF Spans, Ascending
<1>9. CASE ~(a < b)
  <2>1. ks = <<>>
    <3>1. PICK c \in Nat : c = a + 1
      BY <1>5
    <3>2. c > b /\ b \in Nat
      BY <1>5, <1>9, <3>1
    <3>3. ks = SubSeq(s, c, b)
      BY <1>2, <1>3, <3>1
    <3>4. SubSeq(s, c, b) = <<>>
      BY <3>2
    <3> QED  BY <3>3, <3>4
  <2>2. Len(ks) = 0 /\ ks \in Seq(K) /\ 1..Len(ks) = {}
    <3>1. <<>> \in Seq(K) /\ Len(<<>>) = 0 /\ 1..0 = {}
      OBVIOUS
    <3> QED  BY <2>1, <3>1
  <2>3. ASSUME NEW k \in K, lower = None \/ k >= lower, upper = None \/ k <= upper PROVE FALSE
    <3>1. PICK j \in 1..n : s[j] = k
      BY <1>6
    <3>2. a < j /\ j <= b
      BY <1>5, <2>3, <3>1
    <3> QED  BY <1>5, <1>9, <3>2
  <2> QED  BY <2>2, <2>3 DEF Spans, Ascending
<1> QED  BY <1>8, <1>9

(* A search in the index finds the rows between the bounds, in key order. *)
LEMMA SearchTakesRange ==
  ASSUME IndexInv, MemoryInv, index.built,
         NEW lower \in Memory!Bounds, NEW upper \in Memory!Bounds
  PROVE  Memory!IsRange(Memory!RangeSearch(lower, upper), lower, upper)
<1>1. PICK F : F = index.entries
  OBVIOUS
<1>2. PICK keysIn : keysIn = index.keys
  OBVIOUS
<1>3. PICK D : D = DOMAIN records
  OBVIOUS
<1>4. PICK R : R = records
  OBVIOUS
<1>5. Indexed(F, keysIn, R, D)
  BY <1>1, <1>2, <1>3, <1>4 DEF IndexInv, Indexes
<1>6. /\ keysIn \in Seq(Keys) /\ Lists(keysIn, DOMAIN F) /\ SortedKeys(keysIn)
      /\ DOMAIN F = {R[q] : q \in D}
  BY <1>5 DEF Indexed
<1>7. PICK ks : ks = Memory!Between(lower, upper)
  OBVIOUS
<1>8. PICK K : K = DOMAIN F
  OBVIOUS
<1>9. ks = SubSeq(keysIn, Memory!Start(keysIn, lower) + 1, Memory!End(keysIn, upper))
  BY <1>2, <1>7 DEF Memory!Between
<1>10. Spans(ks, K, lower, upper)
  <2>1. keysIn \in Seq(Keys) /\ Lists(keysIn, K) /\ SortedKeys(keysIn)
    BY <1>6, <1>8
  <2> QED  BY <1>9, <2>1, BetweenIsExact
<1>11. PICK N \in Nat : N = Len(ks)
  BY <1>10 DEF Spans
<1> DEFINE chosen == CHOOSE f : f = [n \in 0..N |-> IF n = 0 THEN <<>> ELSE f[n - 1] \o F[ks[n]]]
<1>12. Memory!RangeSearch(lower, upper) = chosen[N]
  BY <1>1, <1>7, <1>11 DEF Memory!RangeSearch
<1>13. Gathers(chosen, F, ks, N)
  <2>1. \E f : Gathers(f, F, ks, N)
    BY GatherRuns
  <2>2. \E f : f = [n \in 0..N |-> IF n = 0 THEN <<>> ELSE f[n - 1] \o F[ks[n]]]
    BY <2>1 DEF Gathers
  <2>3. chosen = [n \in 0..N |-> IF n = 0 THEN <<>> ELSE chosen[n - 1] \o F[ks[n]]]
    BY <2>2
  <2> HIDE DEF chosen
  <2> QED  BY <2>3 DEF Gathers
<1> HIDE DEF chosen
<1>14. PICK f : f = chosen
  OBVIOUS
<1>15. PICK rids : rids = f[N]
  OBVIOUS
<1>16. PICK found : found = Keyed(ks, R, D)
  OBVIOUS
<1>17. rids \in Seq(Int \X Int) /\ Ascends(rids, R) /\ Lists(rids, found)
  <2>1. ks \in Seq(K) /\ Ascending(ks)
    BY <1>10 DEF Spans
  <2>2. Gathers(f, F, ks, Len(ks)) /\ rids = f[Len(ks)]
    BY <1>11, <1>13, <1>14, <1>15
  <2> QED  BY <1>5, <1>8, <1>16, <2>1, <2>2, GatherIsExact
<1>18. DOMAIN rids = 1..Len(rids) /\ rids = Memory!RangeSearch(lower, upper)
  BY <1>12, <1>14, <1>15, <1>17
<1>19. Memory!IsInjective(rids)
  BY <1>17, <1>18 DEF Lists, Memory!IsInjective
<1>20. Memory!ToSet(rids) = found
  BY <1>17, <1>18 DEF Lists, Memory!ToSet
<1>21. found = {r \in DOMAIN records : /\ lower = None \/ records[r] >= lower
                                       /\ upper = None \/ records[r] <= upper}
  <2>1. ASSUME NEW q \in D
        PROVE  (\E i \in 1..N : ks[i] = R[q])
               <=> (lower = None \/ R[q] >= lower) /\ (upper = None \/ R[q] <= upper)
    <3>1. R[q] \in K
      BY <1>6, <1>8
    <3> QED  BY <1>10, <1>11, <3>1 DEF Spans
  <2> QED  BY <1>3, <1>4, <1>11, <1>16, <2>1 DEF Keyed
<1>22. \A i, j \in DOMAIN rids : i < j => records[rids[i]] <= records[rids[j]]
  BY <1>4, <1>17, <1>18 DEF Ascends
<1> QED  BY <1>18, <1>19, <1>20, <1>21, <1>22 DEF Memory!IsRange

(* An index in memory that answers has the rows of the table and no other,
   each key in its place, whatever inserts, deletes, drops and restarts came
   before.                                                                 *)
THEOREM MemoryIndexIsExact == Spec => []MemoryIndexExact
<1>1. MemoryInv /\ IndexInv => MemoryIndexExact
  BY SearchTakesRange DEF MemoryIndexExact, Memory!MemoryIndexExact
<1> QED  BY <1>1, MemoryCorrect, IndexCorrect, PTL

-----------------------------------------------------------------------------
(* The storage port.  A behaviour is one of a HEAP table on disk, one of a
   SEQUENTIAL table on disk, or one of a table in memory.                  *)
OnDisk(kind)    == memory = FALSE /\ ordered = kind
HeapBehaviour   == Heap!Spec /\ [](OnDisk(FALSE))
SequentialBehaviour == Sequential!Spec /\ [](OnDisk(TRUE))
InMemory        == memory = TRUE /\ dirty = FALSE
MemoryBehaviour == MemorySpec /\ []InMemory

(* Which store keeps the table, and which kind it is, is chosen once. *)
LEMMA OneStore == Spec => HeapBehaviour \/ SequentialBehaviour \/ MemoryBehaviour
<1>1. Init => (OnDisk(FALSE) \/ OnDisk(TRUE) \/ InMemory) /\ Heap!Init
  BY DEF Init, OnDisk, InMemory, Heap!Init, Memory!MemoryInit
<1>2. Heap!Init => Sequential!Init
  BY DEF Heap!Init, Heap!NoTail, Sequential!Init, Sequential!NoTail
<1>3. OnDisk(FALSE) /\ [Next]_vars => OnDisk(FALSE)' /\ [Heap!Next]_(Heap!vars)
  BY DEF Next, vars, diskVars, memoryVars, OnDisk, Heap!vars
<1>4. OnDisk(TRUE) /\ [Next]_vars => OnDisk(TRUE)' /\ [Sequential!Next]_(Sequential!vars)
  BY DEF Next, vars, diskVars, memoryVars, OnDisk, Sequential!vars
<1>5. InMemory /\ [Next]_vars => InMemory'
  BY DEF Next, vars, diskVars, InMemory
<1> QED  BY <1>1, <1>2, <1>3, <1>4, <1>5, MemoryBehaves, PTL
         DEF Spec, HeapBehaviour, SequentialBehaviour, MemoryBehaviour, Heap!Spec, Sequential!Spec

(* The assumptions of the paged store hold of both kinds. *)
LEMMA HeapAssumptions ==
  /\ Heap!KeysAssumption /\ Heap!HoleAssumption /\ Heap!CapacityAssumption
  /\ Heap!OrderedAssumption /\ Heap!BoundsAssumption
BY RowsAssumption, HeapBoundsAssumption
   DEF Heap!KeysAssumption, Heap!HoleAssumption, Heap!CapacityAssumption,
       Heap!OrderedAssumption, Heap!BoundsAssumption

(* ... and of a SEQUENTIAL table. *)
LEMMA SequentialAssumptions ==
  /\ Sequential!KeysAssumption /\ Sequential!HoleAssumption /\ Sequential!CapacityAssumption
  /\ Sequential!OrderedAssumption /\ Sequential!BoundsAssumption
BY RowsAssumption, SequentialBoundsAssumption
   DEF Sequential!KeysAssumption, Sequential!HoleAssumption, Sequential!CapacityAssumption,
       Sequential!OrderedAssumption, Sequential!BoundsAssumption

(* The table is the one the disk backend keeps, of one kind or the other. *)
HeapIsTable ==
  TableRows = Heap!Rows /\ TableDurable = Heap!Durable /\ TableIssued = Heap!Issued
SequentialIsTable ==
  /\ TableRows = Sequential!Rows /\ TableDurable = Sequential!Durable
  /\ TableIssued = Sequential!Issued

(* The port that a paged table implements is the port of the table. *)
LEMMA HeapPortIsPort ==
  /\ HeapIsTable /\ Heap!Port!Init => Port!Init
  /\ HeapIsTable /\ HeapIsTable' /\ [Heap!Port!Next]_(Heap!Port!vars) => [Port!Next]_(Port!vars)
<1>1. \A S : Heap!Port!Cardinality(S) = Port!Cardinality(S)
  BY DEF Heap!Port!Cardinality, Port!Cardinality
<1>2. HeapIsTable /\ Heap!Port!Init => Port!Init
  BY DEF HeapIsTable, Heap!Port!Init, Port!Init, Heap!Port!Empty, Port!Empty
<1>3. ASSUME HeapIsTable, HeapIsTable', Heap!Port!Next PROVE Port!Next
  <2>1. \A f, g : Heap!Port!SameRows(f, g) <=> Port!SameRows(f, g)
    BY <1>1 DEF Heap!Port!SameRows, Port!SameRows, Heap!Port!CopiesOf, Port!CopiesOf
  <2>2. \A f, r : Heap!Port!Drop(f, r) = Port!Drop(f, r)
    BY DEF Heap!Port!Drop, Port!Drop
  <2>3. \A f : Heap!Port!Values(f) = Port!Values(f)
    BY DEF Heap!Port!Values, Port!Values
  <2>4. CASE Heap!Port!Insert
    BY <1>3, <2>2, <2>4 DEF HeapIsTable, Heap!Port!Insert, Port!Insert, Port!Next
  <2>5. CASE Heap!Port!Delete
    BY <1>3, <2>2, <2>5 DEF HeapIsTable, Heap!Port!Delete, Port!Delete, Port!Next
  <2>6. CASE Heap!Port!Flush
    BY <1>3, <2>6 DEF HeapIsTable, Heap!Port!Flush, Port!Flush, Port!Next
  <2>7. CASE Heap!Port!Reorganize
    BY <1>3, <2>1, <2>7 DEF HeapIsTable, Heap!Port!Reorganize, Port!Reorganize, Port!Next
  <2>8. CASE Heap!Port!Restart
    BY <1>3, <2>8 DEF HeapIsTable, Heap!Port!Restart, Port!Restart, Port!Next
  <2>9. CASE Heap!Port!RestartInReorganize
    BY <1>3, <2>3, <2>9
       DEF HeapIsTable, Heap!Port!RestartInReorganize, Port!RestartInReorganize, Port!Next
  <2>10. CASE Heap!Port!DropTable
    BY <1>3, <2>10
       DEF HeapIsTable, Heap!Port!DropTable, Port!DropTable, Heap!Port!Empty, Port!Empty, Port!Next
  <2> QED  BY <1>3, <2>4, <2>5, <2>6, <2>7, <2>8, <2>9, <2>10 DEF Heap!Port!Next
<1>4. HeapIsTable /\ HeapIsTable' /\ UNCHANGED Heap!Port!vars => UNCHANGED Port!vars
  BY DEF HeapIsTable, Heap!Port!vars, Port!vars
<1> QED  BY <1>2, <1>3, <1>4

(* ... and so for a SEQUENTIAL one. *)
LEMMA SequentialPortIsPort ==
  /\ SequentialIsTable /\ Sequential!Port!Init => Port!Init
  /\ SequentialIsTable /\ SequentialIsTable' /\ [Sequential!Port!Next]_(Sequential!Port!vars) => [Port!Next]_(Port!vars)
<1>1. \A S : Sequential!Port!Cardinality(S) = Port!Cardinality(S)
  BY DEF Sequential!Port!Cardinality, Port!Cardinality
<1>2. SequentialIsTable /\ Sequential!Port!Init => Port!Init
  BY DEF SequentialIsTable, Sequential!Port!Init, Port!Init, Sequential!Port!Empty, Port!Empty
<1>3. ASSUME SequentialIsTable, SequentialIsTable', Sequential!Port!Next PROVE Port!Next
  <2>1. \A f, g : Sequential!Port!SameRows(f, g) <=> Port!SameRows(f, g)
    BY <1>1 DEF Sequential!Port!SameRows, Port!SameRows, Sequential!Port!CopiesOf, Port!CopiesOf
  <2>2. \A f, r : Sequential!Port!Drop(f, r) = Port!Drop(f, r)
    BY DEF Sequential!Port!Drop, Port!Drop
  <2>3. \A f : Sequential!Port!Values(f) = Port!Values(f)
    BY DEF Sequential!Port!Values, Port!Values
  <2>4. CASE Sequential!Port!Insert
    BY <1>3, <2>2, <2>4 DEF SequentialIsTable, Sequential!Port!Insert, Port!Insert, Port!Next
  <2>5. CASE Sequential!Port!Delete
    BY <1>3, <2>2, <2>5 DEF SequentialIsTable, Sequential!Port!Delete, Port!Delete, Port!Next
  <2>6. CASE Sequential!Port!Flush
    BY <1>3, <2>6 DEF SequentialIsTable, Sequential!Port!Flush, Port!Flush, Port!Next
  <2>7. CASE Sequential!Port!Reorganize
    BY <1>3, <2>1, <2>7 DEF SequentialIsTable, Sequential!Port!Reorganize, Port!Reorganize, Port!Next
  <2>8. CASE Sequential!Port!Restart
    BY <1>3, <2>8 DEF SequentialIsTable, Sequential!Port!Restart, Port!Restart, Port!Next
  <2>9. CASE Sequential!Port!RestartInReorganize
    BY <1>3, <2>3, <2>9
       DEF SequentialIsTable, Sequential!Port!RestartInReorganize, Port!RestartInReorganize, Port!Next
  <2>10. CASE Sequential!Port!DropTable
    BY <1>3, <2>10
       DEF SequentialIsTable, Sequential!Port!DropTable, Port!DropTable, Sequential!Port!Empty, Port!Empty, Port!Next
  <2> QED  BY <1>3, <2>4, <2>5, <2>6, <2>7, <2>8, <2>9, <2>10 DEF Sequential!Port!Next
<1>4. SequentialIsTable /\ SequentialIsTable' /\ UNCHANGED Sequential!Port!vars => UNCHANGED Port!vars
  BY DEF SequentialIsTable, Sequential!Port!vars, Port!vars
<1> QED  BY <1>2, <1>3, <1>4

(* In memory, a row is durable for as long as its process lives. *)
LEMMA MemoryIsPort ==
  ASSUME MemoryInv, InMemory, InMemory', [Memory!MemoryNext]_memoryVars
  PROVE  [Port!Next]_(Port!vars)
<1> DEFINE rids == {Memory!Rid(n) : n \in 0..(slots - 1)}
<1>1. /\ TableRows = records /\ TableDurable = records /\ TableIssued = rids
      /\ TableRows' = records' /\ TableDurable' = records' /\ TableIssued' = rids'
      /\ dirty = FALSE /\ dirty' = FALSE
  BY DEF InMemory, TableRows, TableDurable, TableIssued, Memory!Rid
<1>2. RecordsTyped /\ slots \in Nat
  BY DEF MemoryInv, RecordsTyped
<1>3. ASSUME NEW k \in Keys, Memory!Insert(k) PROVE Port!Insert
  <2>1. PICK r : r = Memory!Rid(slots)
    OBVIOUS
  <2>2. r \notin rids
    <3>1. ASSUME NEW n \in 0..(slots - 1) PROVE r # Memory!Rid(n)
      BY <1>2, <2>1, RidsDiffer
    <3> QED  BY <3>1
  <2>3. /\ records' = [q \in DOMAIN records \cup {r} |-> IF q = r THEN k ELSE records[q]]
        /\ slots' = slots + 1
    BY <1>3, <2>1 DEF Memory!Insert
  <2>4. rids' = rids \cup {r}
    <3>1. 0..(slots' - 1) = 0..(slots - 1) \cup {slots}
      BY <1>2, <2>3
    <3>2. rids' = {Memory!Rid(n) : n \in 0..(slots' - 1)}
      BY DEF Memory!Rid
    <3> QED  BY <2>1, <3>1, <3>2
  <2>5. r \in DOMAIN records' /\ records'[r] = k
    BY <2>3
  <2>6. Port!Drop(records', r) = records
    <3>1. r \notin DOMAIN records /\ records = [q \in DOMAIN records |-> records[q]]
      BY <1>2, <2>1, RidIsNew DEF RecordsTyped
    <3>2. DOMAIN records' \ {r} = DOMAIN records
      BY <2>3, <3>1
    <3>3. \A q \in DOMAIN records : records'[q] = records[q]
      BY <2>3, <3>1
    <3> QED  BY <3>1, <3>2, <3>3 DEF Port!Drop
  <2> HIDE DEF rids
  <2> QED  BY <1>1, <1>3, <2>2, <2>4, <2>5, <2>6 DEF Port!Insert
<1>4. ASSUME NEW r \in DOMAIN records, Memory!Delete(r) PROVE Port!Delete
  <2>1. records' = Port!Drop(records, r) /\ slots' = slots
    BY <1>4 DEF Memory!Delete, Port!Drop
  <2>2. rids' = rids
    BY <2>1 DEF Memory!Rid
  <2>3. r \notin DOMAIN records'
    BY <2>1 DEF Port!Drop
  <2> HIDE DEF rids
  <2> QED  BY <1>1, <2>1, <2>2, <2>3 DEF Port!Delete
<1>5. ASSUME UNCHANGED <<records, slots>> PROVE UNCHANGED Port!vars
  <2>1. rids' = rids
    BY <1>5 DEF Memory!Rid
  <2> HIDE DEF rids
  <2> QED  BY <1>1, <1>5, <2>1 DEF Port!vars
<1>6. ASSUME records' = <<>>, slots' = 0 PROVE Port!DropTable
  <2>1. <<>> = Port!Empty
    BY DEF Port!Empty
  <2>2. rids' = {}
    BY <1>6
  <2> HIDE DEF rids
  <2> QED  BY <1>1, <1>6, <2>1, <2>2 DEF Port!DropTable
<1> QED  BY <1>3, <1>4, <1>5, <1>6
         DEF Memory!MemoryNext, Memory!Reorganize, Memory!CreateIndex, Memory!DropIndex,
             Memory!DropTable, Memory!StartAgain, Memory!NewTable, memoryVars, Port!Next

(* A table in memory starts as the port says: with nothing, and nothing to save. *)
LEMMA MemoryStartsEmpty == InMemory /\ Memory!MemoryInit => Port!Init
<1> SUFFICES ASSUME InMemory, Memory!MemoryInit PROVE Port!Init
  OBVIOUS
<1>1. TableRows = <<>> /\ TableDurable = <<>> /\ TableIssued = {} /\ dirty = FALSE
  BY DEF InMemory, TableRows, TableDurable, TableIssued, Memory!MemoryInit
<1>2. <<>> = Port!Empty
  BY DEF Port!Empty
<1> QED  BY <1>1, <1>2 DEF Port!Init

(* Whichever store keeps it, a table is one of the storage port: RIDs name
   their rows until they are deleted, none is handed out twice, and what a
   flush made durable survives a restart.                                  *)
THEOREM EveryStoreImplementsPort == Spec => PortSpec
<1>1. HeapBehaviour => PortSpec
  <2>1. OnDisk(FALSE) => HeapIsTable
    BY DEF OnDisk, HeapIsTable, TableRows, TableDurable, TableIssued
  <2>2. Heap!Spec => Heap!PortSpec
    BY HeapAssumptions, Heap!TableImplementsPort
  <2> QED  BY <2>1, <2>2, HeapPortIsPort, PTL
           DEF HeapBehaviour, PortSpec, Port!Spec, Heap!PortSpec, Heap!Port!Spec
<1>2. SequentialBehaviour => PortSpec
  <2>1. OnDisk(TRUE) => SequentialIsTable
    BY DEF OnDisk, SequentialIsTable, TableRows, TableDurable, TableIssued
  <2>2. Sequential!Spec => Sequential!PortSpec
    BY SequentialAssumptions, Sequential!TableImplementsPort
  <2> QED  BY <2>1, <2>2, SequentialPortIsPort, PTL
           DEF SequentialBehaviour, PortSpec, Port!Spec, Sequential!PortSpec, Sequential!Port!Spec
<1>3. Spec /\ MemoryBehaviour => PortSpec
  <2>1. MemoryInv /\ InMemory /\ InMemory' /\ [Memory!MemoryNext]_memoryVars
          => [Port!Next]_(Port!vars)
    BY MemoryIsPort
  <2> QED  BY <2>1, MemoryStartsEmpty, MemoryCorrect, PTL
           DEF MemoryBehaviour, MemorySpec, PortSpec, Port!Spec
<1> QED  BY <1>1, <1>2, <1>3, OneStore, PTL

=============================================================================
