------------------------ MODULE SequentialFileProofs ------------------------
(***************************************************************************)
(* A sequential file of any size, with pages of any capacity: the main     *)
(* area is in key order in every state, between calls the two areas hold   *)
(* what the calls left and a search finds it, and at every page write of   *)
(* an insert or a reorganization, so wherever the process stops, no record *)
(* is lost.                                                                *)
(*                                                                         *)
(* None of these is inductive.  SInv adds what the writes that are still   *)
(* coming will leave, and the last of them what the call promises;         *)
(* LinkPromise adds the chains of overflow, and NamePromise that a record  *)
(* names a page that exists, even after a chain was torn.  That the        *)
(* halving finds the page, that the sort and the merge lose no record and  *)
(* keep the order, and that a chain ends, are lemmas about the loops of    *)
(* the module: a fact of the first round that each round hands on holds of *)
(* the last one.                                                           *)
(***************************************************************************)
EXTENDS SequentialFile, FiniteSetTheorems, FunctionTheorems, WellFoundedInduction, TLAPS

Parameters == Keys \subseteq Int /\ Capacity \in Nat \ {0} /\ MaxStops \in Nat

Rec      == [key : Keys, next : Int \X Int]
PageNode == [id : Nat, records : Seq(Rec)]
FitsAt(node, p) ==
  /\ Len(node.records) <= Capacity
  /\ node.id \in {0, p}
  /\ node.records # <<>> => node.id = p

(* Areas without a gap; a page with a record has its own number. *)
Areas == {f \in UNION {[0..n -> PageNode] : n \in Nat} : \A p \in DOMAIN f : FitsAt(f[p], p)}

(* The pages of an area, by its last one. *)
LEMMA AreaShape ==
  ASSUME NEW f
  PROVE  f \in Areas <=> \E n \in Nat : f \in [0..n -> PageNode] /\ \A p \in 0..n : FitsAt(f[p], p)
BY DEF Areas

(* The size of an area counts its pages. *)
LEMMA AreaSize ==
  ASSUME NEW f \in Areas
  PROVE  /\ Count(f) \in Nat \ {0} /\ DOMAIN f = 0..(Count(f) - 1)
         /\ \A p \in DOMAIN f : f[p] \in PageNode /\ FitsAt(f[p], p)
<1>1. PICK n \in Nat : f \in [0..n -> PageNode] /\ \A p \in 0..n : FitsAt(f[p], p)
  BY AreaShape
<1>2. Cardinality(0..n) = n + 1
  BY FS_Interval
<1>3. Count(f) = n + 1 /\ DOMAIN f = 0..n
  BY <1>1, <1>2 DEF Count
<1> QED  BY <1>1, <1>3

(* What the other pages keep when one is written. *)
SameBut(f, g, p) == \A q \in DOMAIN f : q # p => g[q] = f[q]

(* A page written inside the area, or right after its end. *)
LEMMA WithShape ==
  ASSUME NEW f \in Areas, NEW p \in 0..Count(f), NEW node \in PageNode, FitsAt(node, p)
  PROVE  /\ With(f, p, node) \in Areas
         /\ DOMAIN With(f, p, node) = DOMAIN f \cup {p}
         /\ With(f, p, node)[p] = node
         /\ SameBut(f, With(f, p, node), p)
         /\ p \in DOMAIN f => Count(With(f, p, node)) = Count(f)
         /\ p = Count(f) => Count(With(f, p, node)) = Count(f) + 1
<1>1. PICK n \in Nat : n = Count(f) - 1 /\ DOMAIN f = 0..n
  BY AreaSize
<1>2. PICK m \in Nat : m = IF p = n + 1 THEN n + 1 ELSE n
  OBVIOUS
<1>3. p \in 0..(n + 1) /\ (0..n) \cup {p} = 0..m /\ Count(f) = n + 1
  BY <1>1, <1>2, AreaSize
<1>4. PICK g : g = With(f, p, node)
  OBVIOUS
<1>5. g = [q \in 0..m |-> IF q = p THEN node ELSE f[q]]
  BY <1>1, <1>3, <1>4 DEF With
<1>6. \A q \in 0..m : q # p => q \in DOMAIN f
  BY <1>1, <1>3
<1>7. \A q \in 0..m : g[q] \in PageNode /\ FitsAt(g[q], q)
  BY <1>5, <1>6, AreaSize
<1>8. g \in Areas
  BY <1>5, <1>7, AreaShape
<1>9. Count(g) = m + 1
  BY <1>5, FS_Interval DEF Count
<1>10. DOMAIN g = DOMAIN f \cup {p} /\ p \in 0..m /\ g[p] = node
  BY <1>1, <1>3, <1>5
<1>11. SameBut(f, g, p)
  BY <1>1, <1>3, <1>5 DEF SameBut
<1>12. (p \in DOMAIN f => m = n) /\ (p = Count(f) => m = n + 1)
  BY <1>1, <1>2, <1>3
<1> QED  BY <1>3, <1>4, <1>8, <1>9, <1>10, <1>11, <1>12

(* f with another node at p. *)
Changed(f, g, p, node) ==
  /\ g \in Areas /\ DOMAIN g = DOMAIN f /\ Count(g) = Count(f)
  /\ g[p] = node /\ SameBut(f, g, p)

(* A page of the area is written again. *)
LEMMA PutShape ==
  ASSUME NEW f \in Areas, NEW p \in DOMAIN f, NEW node \in PageNode, FitsAt(node, p), node.id = p
  PROVE  Changed(f, Put(f, node), p, node)
<1>1. p \in 0..Count(f) /\ DOMAIN f \cup {p} = DOMAIN f
  <2>1. Count(f) \in Nat /\ p \in 0..(Count(f) - 1)
    BY AreaSize
  <2>2. p \in 0..Count(f)
    BY <2>1
  <2> QED  BY <2>2
<1>2. PICK g : g = With(f, p, node)
  OBVIOUS
<1>3. /\ g \in Areas /\ DOMAIN g = DOMAIN f \cup {p} /\ g[p] = node
      /\ SameBut(f, g, p) /\ Count(g) = Count(f)
  <2>1. /\ With(f, p, node) \in Areas
        /\ DOMAIN With(f, p, node) = DOMAIN f \cup {p}
        /\ With(f, p, node)[p] = node /\ SameBut(f, With(f, p, node), p)
        /\ Count(With(f, p, node)) = Count(f)
    BY <1>1, WithShape, ZenonT(40)
  <2> QED  BY <1>1, <1>2, <2>1
<1>4. Put(f, node) = g
  BY <1>2 DEF Put
<1> QED  BY <1>1, <1>3, <1>4 DEF Changed

(* A page of zeros after the last one. *)
LEMMA PageAllocated ==
  ASSUME Parameters, NEW f \in Areas
  PROVE  /\ Allocated(f) \in Areas
         /\ DOMAIN Allocated(f) = DOMAIN f \cup {Count(f)} /\ Count(Allocated(f)) = Count(f) + 1
         /\ Allocated(f)[Count(f)] = Zero
         /\ \A q \in DOMAIN f : Allocated(f)[q] = f[q]
<1>1. PICK n \in Nat \ {0} : n = Count(f) /\ DOMAIN f = 0..(n - 1)
  BY AreaSize
<1>2. Zero \in PageNode /\ FitsAt(Zero, n)
  BY DEF Zero, Node, PageNode, FitsAt, Parameters
<1>3. PICK g : g = With(f, n, Zero)
  OBVIOUS
<1>4. n \in 0..Count(f) /\ n \notin DOMAIN f
  BY <1>1
<1>5. /\ g \in Areas /\ DOMAIN g = DOMAIN f \cup {n} /\ g[n] = Zero
      /\ SameBut(f, g, n) /\ Count(g) = n + 1
  <2>1. n \in 0..Count(f) /\ n = Count(f) /\ FitsAt(Zero, n) /\ Zero \in PageNode
    BY <1>1, <1>2, <1>4
  <2>2. /\ With(f, n, Zero) \in Areas
        /\ DOMAIN With(f, n, Zero) = DOMAIN f \cup {n}
        /\ With(f, n, Zero)[n] = Zero /\ SameBut(f, With(f, n, Zero), n)
        /\ Count(With(f, n, Zero)) = Count(f) + 1
    BY <2>1, WithShape
  <2> QED  BY <1>3, <2>1, <2>2
<1>6. Allocated(f) = g
  BY <1>1, <1>3 DEF Allocated
<1> QED  BY <1>1, <1>4, <1>5, <1>6 DEF SameBut

-----------------------------------------------------------------------------
(* How often a key is among records.                                       *)

One(k, m) == IF k = m THEN 1 ELSE 0

At(records, k)    == {i \in 1..Len(records) : records[i].key = k}
Times(records, k) == Cardinality(At(records, k))

(* Sets with a one-to-one map between them are of one size. *)
LEMMA SameSize ==
  ASSUME NEW S, NEW T, IsFiniteSet(S), NEW f \in [S -> T],
         \A a, b \in S : f[a] = f[b] => a = b,
         \A t \in T : \E s \in S : f[s] = t
  PROVE  IsFiniteSet(T) /\ Cardinality(T) = Cardinality(S)
<1>1. f \in Bijection(S, T)
  BY Fun_IsBij
<1>2. ExistsBijection(S, T)
  BY <1>1 DEF ExistsBijection
<1> QED  BY <1>2, FS_Bijection

LEMMA TimesType ==
  ASSUME NEW s \in Seq(Rec), NEW k
  PROVE  IsFiniteSet(At(s, k)) /\ Times(s, k) \in Nat
<1>1. IsFiniteSet(1..Len(s)) /\ At(s, k) \in SUBSET (1..Len(s))
  BY FS_Interval DEF At
<1>2. IsFiniteSet(At(s, k))
  BY <1>1, FS_Subset
<1> QED  BY <1>2, FS_CardinalityType DEF Times

(* The links do not count. *)
LEMMA TimesOfKeys ==
  ASSUME NEW s, NEW t, NEW k,
         Len(t) = Len(s), \A i \in 1..Len(s) : t[i].key = s[i].key
  PROVE  Times(t, k) = Times(s, k)
<1>1. At(t, k) = At(s, k)
  BY DEF At
<1> QED  BY <1>1 DEF Times

LEMMA NoneTimes == \A k : Times(<<>>, k) = 0
<1>1. \A k : At(<<>>, k) = {}
  BY DEF At
<1> QED  BY <1>1, FS_EmptySet DEF Times

LEMMA AppendTimes ==
  ASSUME NEW s \in Seq(Rec), NEW r \in Rec, NEW k
  PROVE  Times(Append(s, r), k) = Times(s, k) + One(k, r.key)
<1>1. PICK n \in Nat : n = Len(s)
  OBVIOUS
<1>2. PICK t : t = Append(s, r)
  OBVIOUS
<1>3. Len(t) = n + 1 /\ t[n + 1] = r /\ \A i \in 1..n : t[i] = s[i]
  BY <1>1, <1>2
<1>4. 1..(n + 1) = (1..n) \cup {n + 1} /\ n + 1 \notin 1..n
  BY <1>1
<1>5. n + 1 \notin At(s, k) /\ IsFiniteSet(At(s, k)) /\ Times(s, k) \in Nat
  BY <1>1, <1>4, TimesType DEF At
<1>6. CASE k = r.key
  <2>1. At(t, k) = At(s, k) \cup {n + 1}
    BY <1>1, <1>3, <1>4, <1>6 DEF At
  <2>2. Cardinality(At(t, k)) = Cardinality(At(s, k)) + 1
    BY <1>5, <2>1, FS_AddElement
  <2> QED  BY <1>2, <1>6, <2>2 DEF Times, One
<1>7. CASE k # r.key
  <2>1. At(t, k) = At(s, k)
    BY <1>1, <1>3, <1>4, <1>7 DEF At
  <2> QED  BY <1>2, <1>5, <1>7, <2>1 DEF Times, One
<1> QED  BY <1>6, <1>7

LEMMA ConcatTimes ==
  ASSUME NEW s \in Seq(Rec), NEW t \in Seq(Rec), NEW k
  PROVE  Times(s \o t, k) = Times(s, k) + Times(t, k)
<1>1. PICK n \in Nat, m \in Nat : n = Len(s) /\ m = Len(t)
  OBVIOUS
<1>2. PICK u : u = s \o t
  OBVIOUS
<1>3. Len(u) = n + m /\ (\A i \in 1..n : u[i] = s[i]) /\ (\A i \in 1..m : u[n + i] = t[i])
  BY <1>1, <1>2
<1>4. PICK B : B = {j \in (n + 1)..(n + m) : u[j].key = k}
  OBVIOUS
<1>5. PICK f : f = [i \in At(t, k) |-> n + i]
  OBVIOUS
<1>6. f \in [At(t, k) -> B]
  <2>1. ASSUME NEW i \in At(t, k) PROVE n + i \in B
    <3>1. i \in 1..m /\ t[i].key = k
      BY <1>1 DEF At
    <3>2. n + i \in (n + 1)..(n + m) /\ u[n + i] = t[i]
      BY <1>3, <3>1
    <3> QED  BY <1>4, <3>1, <3>2
  <2> QED  BY <1>5, <2>1
<1>7. \A a, b \in At(t, k) : f[a] = f[b] => a = b
  BY <1>1, <1>5 DEF At
<1>8. ASSUME NEW j \in B PROVE \E i \in At(t, k) : f[i] = j
  <2>1. j \in (n + 1)..(n + m) /\ u[j].key = k
    BY <1>4
  <2>2. j - n \in 1..m /\ n + (j - n) = j
    BY <2>1
  <2>3. t[j - n].key = k
    BY <1>3, <2>1, <2>2
  <2>4. j - n \in At(t, k)
    BY <1>1, <2>2, <2>3 DEF At
  <2> QED  BY <1>5, <2>2, <2>4
<1>9. IsFiniteSet(At(t, k)) /\ IsFiniteSet(At(s, k)) /\ Times(s, k) \in Nat /\ Times(t, k) \in Nat
  BY TimesType
<1>10. IsFiniteSet(B) /\ Cardinality(B) = Times(t, k)
  BY <1>6, <1>7, <1>8, <1>9, SameSize DEF Times
<1>11. At(u, k) = At(s, k) \cup B /\ At(s, k) \cap B = {}
  <2>1. 1..(n + m) = (1..n) \cup ((n + 1)..(n + m)) /\ (1..n) \cap ((n + 1)..(n + m)) = {}
    BY <1>1
  <2>2. At(u, k) = {i \in 1..n : u[i].key = k} \cup B
    BY <1>3, <1>4, <2>1 DEF At
  <2>3. At(s, k) = {i \in 1..n : u[i].key = k}
    BY <1>1, <1>3 DEF At
  <2>4. At(s, k) \subseteq 1..n /\ B \subseteq (n + 1)..(n + m)
    BY <1>1, <1>4 DEF At
  <2> QED  BY <2>1, <2>2, <2>3, <2>4
<1>12. Cardinality(At(u, k)) = Times(s, k) + Times(t, k)
  <2>1. Cardinality(At(s, k) \cap B) = 0
    BY <1>11, FS_EmptySet
  <2>2. Cardinality(At(s, k) \cup B) =
          Cardinality(At(s, k)) + Cardinality(B) - Cardinality(At(s, k) \cap B)
    BY <1>9, <1>10, FS_Union
  <2> QED  BY <1>9, <1>10, <1>11, <2>1, <2>2 DEF Times
<1> QED  BY <1>2, <1>12 DEF Times

-----------------------------------------------------------------------------
(* A stable insertion.                                                     *)

(* A set of numbers has a least one. *)
LEMMA LeastElement ==
  ASSUME NEW T, T \subseteq Nat, T # {}
  PROVE  \E x \in T : \A y \in T : x <= y
<1>1. PICK x \in T : \A y \in T : <<y, x>> \notin OpToRel(<, Nat)
  BY NatLessThanWellFounded, WFMin
<1>2. \A y \in T : ~(y < x)
  BY <1>1 DEF OpToRel
<1> QED  BY <1>2

(* A set of places that has, with a place, those before it is a first part. *)
LEMMA FirstPart ==
  ASSUME NEW n \in Nat, NEW D \in SUBSET (1..n),
         \A i, j \in 1..n : i < j /\ j \in D => i \in D
  PROVE  D = 1..Cardinality(D)
<1>1. PICK T : T = {j \in 1..(n + 1) : j \notin D}
  OBVIOUS
<1>2. T \subseteq Nat /\ n + 1 \in T
  BY <1>1
<1>3. PICK x \in T : \A y \in T : x <= y
  BY <1>2, LeastElement
<1>4. x \in 1..(n + 1) /\ x \notin D
  BY <1>1, <1>3
<1>5. ASSUME NEW y \in 1..(x - 1) PROVE y \in D
  <2>1. y \in 1..(n + 1) /\ y < x
    BY <1>4
  <2> QED  BY <1>1, <1>3, <2>1
<1>6. ASSUME NEW y \in D PROVE y \in 1..(x - 1)
  <2>1. y \in 1..n /\ y # x
    BY <1>4
  <2>2. CASE x < y
    <3>1. x \in 1..n
      BY <1>4, <2>1, <2>2
    <3> QED  BY <1>4, <2>1, <2>2, <3>1
  <2> QED  BY <1>4, <2>1, <2>2
<1>7. D = 1..(x - 1)
  BY <1>5, <1>6
<1>8. Cardinality(1..(x - 1)) = x - 1
  BY <1>4, FS_Interval
<1> QED  BY <1>7, <1>8

(* s with r more at a place, and the others in their order. *)
Inserted(s, t, a, r) ==
  /\ a \in 1..(Len(s) + 1) /\ t \in Seq(Rec) /\ Len(t) = Len(s) + 1
  /\ t[a] = r
  /\ \A i \in 1..(a - 1) : t[i] = s[i]
  /\ \A i \in (a + 1)..Len(t) : t[i] = s[i - 1]

LEMMA InsertAtShape ==
  ASSUME NEW s \in Seq(Rec), NEW r \in Rec, NEW a \in 1..(Len(s) + 1)
  PROVE  Inserted(s, InsertAt(s, a, r), a, r)
<1>1. Len(s) \in Nat /\ a \in Nat
  OBVIOUS
<1> DEFINE b == SubSeq(s, 1, a - 1)
           c == SubSeq(s, a, Len(s))
<1>2. /\ b \in Seq(Rec) /\ Len(b) = a - 1 /\ \A i \in 1..(a - 1) : b[i] = s[i]
      /\ c \in Seq(Rec) /\ Len(c) = Len(s) - a + 1 /\ \A i \in 1..(Len(s) - a + 1) : c[i] = s[a + i - 1]
  BY <1>1
<1>3. PICK d : d = b \o <<r>>
  OBVIOUS
<1>4. InsertAt(s, a, r) = d \o c
  BY <1>3 DEF InsertAt
<1> HIDE DEF b, c
<1>5. d \in Seq(Rec) /\ Len(d) = a /\ d[a] = r /\ \A i \in 1..(a - 1) : d[i] = s[i]
  BY <1>1, <1>2, <1>3
<1>6. PICK t : t = d \o c
  OBVIOUS
<1>7. /\ t \in Seq(Rec) /\ Len(t) = Len(s) + 1
      /\ \A i \in 1..a : t[i] = d[i]
      /\ \A i \in (a + 1)..(Len(s) + 1) : t[i] = c[i - a]
  BY <1>1, <1>2, <1>5, <1>6
<1>8. \A i \in (a + 1)..(Len(s) + 1) : i - a \in 1..(Len(s) - a + 1) /\ a + (i - a) - 1 = i - 1
  BY <1>1
<1>9. \A i \in (a + 1)..Len(t) : t[i] = s[i - 1]
  BY <1>2, <1>7, <1>8
<1>10. t[a] = r /\ \A i \in 1..(a - 1) : t[i] = s[i]
  BY <1>1, <1>5, <1>7
<1> QED  BY <1>4, <1>6, <1>7, <1>9, <1>10 DEF Inserted

(* ... has, of every key, as many as before, and of r's one more. *)
LEMMA InsertedTimes ==
  ASSUME NEW s \in Seq(Rec), NEW r \in Rec, NEW t, NEW a, Inserted(s, t, a, r), NEW k
  PROVE  Times(t, k) = Times(s, k) + One(k, r.key)
<1>1. PICK n \in Nat : n = Len(s)
  OBVIOUS
<1>2. /\ a \in 1..(n + 1) /\ t \in Seq(Rec) /\ Len(t) = n + 1 /\ t[a] = r
      /\ \A i \in 1..(a - 1) : t[i] = s[i]
      /\ \A i \in (a + 1)..(n + 1) : t[i] = s[i - 1]
  BY <1>1 DEF Inserted
<1>3. PICK B : B = At(t, k) \ {a}
  OBVIOUS
<1>4. PICK f : f = [i \in At(s, k) |-> IF i < a THEN i ELSE i + 1]
  OBVIOUS
<1>5. f \in [At(s, k) -> B]
  <2>1. ASSUME NEW i \in At(s, k) PROVE f[i] \in B
    <3>1. i \in 1..n /\ s[i].key = k
      BY <1>1 DEF At
    <3>2. CASE i < a
      <4>1. f[i] = i /\ i \in 1..(a - 1) /\ i \in 1..(n + 1) /\ i # a
        BY <1>2, <1>4, <3>1, <3>2
      <4>2. t[i].key = k
        BY <1>2, <3>1, <4>1
      <4> QED  BY <1>2, <1>3, <4>1, <4>2 DEF At
    <3>3. CASE ~(i < a)
      <4>1. f[i] = i + 1 /\ i + 1 \in (a + 1)..(n + 1) /\ i + 1 \in 1..(n + 1) /\ i + 1 # a
            /\ (i + 1) - 1 = i
        BY <1>2, <1>4, <3>1, <3>3
      <4>2. t[i + 1].key = k
        BY <1>2, <3>1, <4>1
      <4> QED  BY <1>2, <1>3, <4>1, <4>2 DEF At
    <3> QED  BY <3>2, <3>3
  <2> QED  BY <1>4, <2>1
<1>6. ASSUME NEW i \in At(s, k), NEW j \in At(s, k), f[i] = f[j] PROVE i = j
  <2>1. i \in 1..n /\ j \in 1..n
    BY <1>1 DEF At
  <2> QED  BY <1>2, <1>4, <1>6, <2>1
<1>7. ASSUME NEW j \in B PROVE \E i \in At(s, k) : f[i] = j
  <2>1. j \in 1..(n + 1) /\ t[j].key = k /\ j # a
    BY <1>2, <1>3 DEF At
  <2>2. CASE j < a
    <3>1. j \in 1..(a - 1) /\ j \in 1..n
      BY <1>2, <2>1, <2>2
    <3>2. j \in At(s, k)
      BY <1>1, <1>2, <2>1, <3>1 DEF At
    <3> QED  BY <1>4, <2>2, <3>2
  <2>3. CASE ~(j < a)
    <3>1. j \in (a + 1)..(n + 1) /\ j - 1 \in 1..n /\ ~(j - 1 < a) /\ (j - 1) + 1 = j
      BY <1>2, <2>1, <2>3
    <3>2. j - 1 \in At(s, k)
      BY <1>1, <1>2, <2>1, <3>1 DEF At
    <3> QED  BY <1>4, <3>1, <3>2
  <2> QED  BY <2>2, <2>3
<1>8. IsFiniteSet(At(s, k)) /\ IsFiniteSet(At(t, k)) /\ Times(s, k) \in Nat /\ Times(t, k) \in Nat
  BY <1>2, TimesType
<1>9. Cardinality(B) = Times(s, k)
  BY <1>5, <1>6, <1>7, <1>8, SameSize DEF Times
<1>10. Cardinality(B) = IF a \in At(t, k) THEN Times(t, k) - 1 ELSE Times(t, k)
  BY <1>3, <1>8, FS_RemoveElement DEF Times
<1>11. a \in At(t, k) <=> k = r.key
  BY <1>2 DEF At
<1> QED  BY <1>8, <1>9, <1>10, <1>11 DEF One

InOrder(s) == \A i, j \in 1..Len(s) : i < j => s[i].key <= s[j].key

(* Keys are numbers. *)
LEMMA KeysOrdered ==
  ASSUME Parameters
  PROVE  /\ \A r \in Rec : r.key \in Int
         /\ \A s \in Seq(Rec) : \A i \in 1..Len(s) : s[i] \in Rec /\ s[i].key \in Int
<1>1. \A r \in Rec : r.key \in Int
  BY DEF Parameters, Rec
<1>2. \A s \in Seq(Rec) : \A i \in 1..Len(s) : s[i] \in Rec
  OBVIOUS
<1> QED  BY <1>1, <1>2

(* Where a record is placed: among records in order, after those with keys up
   to its own.                                                             *)
LEMMA PlacedShape ==
  ASSUME Parameters, NEW s \in Seq(Rec), NEW r \in Rec
  PROVE  \E a : /\ Inserted(s, Placed(s, r), a, r)
                /\ InOrder(s) => /\ \A i \in 1..(a - 1) : s[i].key <= r.key
                                 /\ \A i \in a..Len(s) : r.key <= s[i].key
<1>1. PICK n \in Nat : n = Len(s)
  OBVIOUS
<1>2. PICK D : D = {i \in 1..n : s[i].key <= r.key}
  OBVIOUS
<1>3. IsFiniteSet(1..n) /\ Cardinality(1..n) = n /\ D \in SUBSET (1..n)
  BY <1>2, FS_Interval
<1>4. IsFiniteSet(D) /\ Cardinality(D) <= n
  BY <1>3, FS_Subset
<1>5. Cardinality(D) \in Nat
  BY <1>4, FS_CardinalityType
<1>6. PICK a : a = Cardinality(D) + 1
  OBVIOUS
<1>7. a \in 1..(n + 1)
  BY <1>4, <1>5, <1>6
<1>8. DOMAIN s = 1..n
  BY <1>1
<1>9. Placed(s, r) = InsertAt(s, a, r)
  BY <1>2, <1>6, <1>8 DEF Placed
<1>10. Inserted(s, Placed(s, r), a, r)
  BY <1>1, <1>7, <1>9, InsertAtShape
<1>11. ASSUME InOrder(s)
       PROVE  (\A i \in 1..(a - 1) : s[i].key <= r.key) /\ (\A i \in a..n : r.key <= s[i].key)
  <2>1. \A i \in 1..n : s[i].key \in Int /\ r.key \in Int
    BY <1>1, KeysOrdered
  <2>2. ASSUME NEW i \in 1..n, NEW j \in 1..n, i < j, j \in D PROVE i \in D
    <3>1. s[i].key <= s[j].key /\ s[j].key <= r.key
      BY <1>1, <1>2, <1>11, <2>2 DEF InOrder
    <3>2. s[i].key <= r.key
      BY <2>1, <3>1
    <3> QED  BY <1>2, <3>2
  <2>3. D = 1..Cardinality(D)
    BY <1>3, <2>2, FirstPart
  <2>4. D = 1..(a - 1)
    BY <1>5, <1>6, <2>3
  <2>5. \A i \in 1..(a - 1) : s[i].key <= r.key
    BY <1>2, <2>4
  <2>6. ASSUME NEW i \in a..n PROVE r.key <= s[i].key
    <3>1. i \in 1..n /\ i \notin 1..(a - 1)
      BY <1>7
    <3>2. ~(s[i].key <= r.key)
      BY <1>2, <2>4, <3>1
    <3> QED  BY <2>1, <3>1, <3>2
  <2> QED  BY <2>5, <2>6
<1> QED  BY <1>1, <1>10, <1>11

(* ... keeps them in order, and every record is the new one or was there. *)
LEMMA PlacedInOrder ==
  ASSUME Parameters, NEW s \in Seq(Rec), NEW r \in Rec
  PROVE  /\ Placed(s, r) \in Seq(Rec) /\ Len(Placed(s, r)) = Len(s) + 1
         /\ \A k : Times(Placed(s, r), k) = Times(s, k) + One(k, r.key)
         /\ InOrder(s) => InOrder(Placed(s, r))
         /\ \A i \in 1..Len(Placed(s, r)) :
              Placed(s, r)[i] = r \/ \E j \in 1..Len(s) : Placed(s, r)[i] = s[j]
<1>1. PICK a : /\ Inserted(s, Placed(s, r), a, r)
               /\ InOrder(s) => /\ \A i \in 1..(a - 1) : s[i].key <= r.key
                                /\ \A i \in a..Len(s) : r.key <= s[i].key
  BY PlacedShape
<1>0. PICK n \in Nat : n = Len(s)
  OBVIOUS
<1>2. PICK t : t = Placed(s, r) /\ n = Len(s)
  BY <1>0
<1>3. /\ a \in 1..(n + 1) /\ t \in Seq(Rec) /\ Len(t) = n + 1 /\ t[a] = r
      /\ \A i \in 1..(a - 1) : t[i] = s[i]
      /\ \A i \in (a + 1)..(n + 1) : t[i] = s[i - 1]
  BY <1>1, <1>2 DEF Inserted
<1>4. \A i \in 1..(n + 1) : /\ i < a \/ i = a \/ i > a
                            /\ i < a => i \in 1..(a - 1) /\ i \in 1..n
                            /\ i > a => i \in (a + 1)..(n + 1) /\ i - 1 \in a..n /\ i - 1 \in 1..n
  BY <1>3
<1>5. \A i \in 1..(n + 1) : t[i] = r \/ \E j \in 1..n : t[i] = s[j]
  BY <1>3, <1>4
<1>6. ASSUME InOrder(s), NEW i \in 1..(n + 1), NEW j \in 1..(n + 1), i < j
      PROVE  t[i].key <= t[j].key
  <2>1. /\ \A m \in 1..(a - 1) : s[m].key <= r.key
        /\ \A m \in a..n : r.key <= s[m].key
        /\ \A m, l \in 1..n : m < l => s[m].key <= s[l].key
    BY <1>1, <1>2, <1>6 DEF InOrder
  <2>2. \A m \in 1..n : s[m].key \in Int
    BY <1>2, KeysOrdered
  <2>3. CASE i < a /\ j < a
    BY <1>3, <1>4, <1>6, <2>1, <2>3
  <2>4. CASE i < a /\ j = a
    BY <1>3, <1>4, <2>1, <2>4
  <2>5. CASE i < a /\ j > a
    <3>1. t[i] = s[i] /\ t[j] = s[j - 1] /\ i \in 1..n /\ j - 1 \in 1..n /\ i < j - 1
      BY <1>3, <1>4, <2>5
    <3> QED  BY <2>1, <3>1
  <2>6. CASE i = a /\ j > a
    BY <1>3, <1>4, <2>1, <2>6
  <2>7. CASE i > a /\ j > a
    <3>1. t[i] = s[i - 1] /\ t[j] = s[j - 1] /\ i - 1 \in 1..n /\ j - 1 \in 1..n /\ i - 1 < j - 1
      BY <1>3, <1>4, <1>6, <2>7
    <3> QED  BY <2>1, <3>1
  <2> QED  BY <1>3, <1>6, <2>3, <2>4, <2>5, <2>6, <2>7
<1>7. InOrder(s) => InOrder(t)
  BY <1>3, <1>6 DEF InOrder
<1>8. \A k : Times(t, k) = Times(s, k) + One(k, r.key)
  BY <1>1, <1>2, InsertedTimes
<1> QED  BY <1>2, <1>3, <1>5, <1>7, <1>8

-----------------------------------------------------------------------------
(* What an area holds.                                                     *)

Held(f, k)      == Cardinality(PlacesOf(f, k))
HereOf(f, p, k) == {x \in PlacesOf(f, k) : x[1] = p}

LEMMA PlaceShape ==
  ASSUME NEW f \in Areas
  PROVE  /\ \A p \in DOMAIN f : \A i \in 1..Len(f[p].records) :
              <<p, i>> \in Places(f) /\ RecordAt(f, <<p, i>>) = f[p].records[i]
         /\ \A x \in Places(f) : /\ x = <<x[1], x[2]>> /\ x[1] \in DOMAIN f
                                 /\ x[2] \in 1..Len(f[x[1]].records)
                                 /\ RecordAt(f, x) \in Rec
<1>1. \A p \in DOMAIN f : f[p].records \in Seq(Rec)
  BY AreaSize DEF PageNode
<1>2. \A p \in DOMAIN f : DOMAIN f[p].records = 1..Len(f[p].records)
  BY <1>1
<1>3. ASSUME NEW p \in DOMAIN f, NEW i \in 1..Len(f[p].records)
      PROVE  <<p, i>> \in Places(f) /\ RecordAt(f, <<p, i>>) = f[p].records[i]
  BY <1>2 DEF Places, RecordAt
<1>4. ASSUME NEW x \in Places(f)
      PROVE  /\ x = <<x[1], x[2]>> /\ x[1] \in DOMAIN f /\ x[2] \in 1..Len(f[x[1]].records)
             /\ RecordAt(f, x) \in Rec
  <2>1. PICK p \in DOMAIN f : \E i \in 1..Len(f[p].records) : x = <<p, i>>
    BY <1>2 DEF Places
  <2>2. PICK i \in 1..Len(f[p].records) : x = <<p, i>>
    BY <2>1
  <2>3. f[p].records[i] \in Rec
    BY <1>1
  <2> QED  BY <2>2, <2>3 DEF RecordAt
<1> QED  BY <1>3, <1>4

(* ... is finite, so it can be counted. *)
LEMMA PlacesFinite ==
  ASSUME Parameters, NEW f \in Areas, NEW k
  PROVE  IsFiniteSet(PlacesOf(f, k)) /\ Held(f, k) \in Nat
<1>1. PICK n \in Nat : n = Count(f) - 1 /\ DOMAIN f = 0..n
  BY AreaSize
<1>2. ASSUME NEW x \in Places(f) PROVE x \in (0..n) \X (1..Capacity)
  <2>1. PICK p \in DOMAIN f : \E i \in 1..Len(f[p].records) : x = <<p, i>>
    BY PlaceShape
  <2>2. f[p].records \in Seq(Rec) /\ Len(f[p].records) <= Capacity
    BY AreaSize DEF PageNode, FitsAt
  <2> QED  BY <1>1, <2>1, <2>2 DEF Parameters
<1>3. IsFiniteSet(0..n) /\ IsFiniteSet(1..Capacity)
  BY FS_Interval DEF Parameters
<1>4. IsFiniteSet((0..n) \X (1..Capacity))
  BY <1>3, FS_Product
<1>5. PlacesOf(f, k) \subseteq (0..n) \X (1..Capacity)
  BY <1>2 DEF PlacesOf
<1> QED  BY <1>4, <1>5, FS_Subset, FS_CardinalityType DEF Held

(* A page holds what its records are. *)
LEMMA PageHolds ==
  ASSUME NEW f \in Areas, NEW p \in DOMAIN f, NEW k
  PROVE  /\ f[p].records \in Seq(Rec)
         /\ IsFiniteSet(HereOf(f, p, k)) /\ Cardinality(HereOf(f, p, k)) = Times(f[p].records, k)
<1>1. PICK s \in Seq(Rec) : s = f[p].records
  BY AreaSize DEF PageNode
<1>2. PICK g : g = [i \in At(s, k) |-> <<p, i>>]
  OBVIOUS
<1>3. g \in [At(s, k) -> HereOf(f, p, k)]
  <2>1. ASSUME NEW i \in At(s, k) PROVE <<p, i>> \in HereOf(f, p, k)
    <3>1. i \in 1..Len(f[p].records) /\ f[p].records[i].key = k
      BY <1>1 DEF At
    <3>2. <<p, i>> \in Places(f) /\ RecordAt(f, <<p, i>>) = f[p].records[i] /\ <<p, i>>[1] = p
      BY <3>1, PlaceShape
    <3> QED  BY <3>1, <3>2 DEF HereOf, PlacesOf
  <2> QED  BY <1>2, <2>1
<1>4. \A a, b \in At(s, k) : g[a] = g[b] => a = b
  BY <1>2
<1>5. ASSUME NEW x \in HereOf(f, p, k) PROVE \E i \in At(s, k) : g[i] = x
  <2>1. x \in Places(f) /\ RecordAt(f, x).key = k /\ x[1] = p
    BY DEF HereOf, PlacesOf
  <2>2. x = <<p, x[2]>> /\ x[2] \in 1..Len(f[p].records)
    BY <2>1, PlaceShape
  <2>3. x[2] \in At(s, k)
    BY <1>1, <2>1, <2>2 DEF At, RecordAt
  <2> QED  BY <1>2, <2>2, <2>3
<1>6. IsFiniteSet(At(s, k))
  BY TimesType
<1>7. IsFiniteSet(HereOf(f, p, k)) /\ Cardinality(HereOf(f, p, k)) = Cardinality(At(s, k))
  BY <1>3, <1>4, <1>5, <1>6, SameSize
<1> QED  BY <1>1, <1>7 DEF Times

(* One page changes: so does what the area holds. *)
LEMMA PageChanged ==
  ASSUME Parameters, NEW f \in Areas, NEW p \in DOMAIN f, NEW g, NEW node,
         Changed(f, g, p, node), NEW k
  PROVE  Held(g, k) + Times(f[p].records, k) = Held(f, k) + Times(node.records, k)
<1>1. g \in Areas /\ DOMAIN g = DOMAIN f /\ g[p] = node /\ SameBut(f, g, p)
  BY DEF Changed
<1>2. PICK E : E = PlacesOf(f, k) \ HereOf(f, p, k)
  OBVIOUS
<1>3. E = PlacesOf(g, k) \ HereOf(g, p, k)
  <2>1. ASSUME NEW a \in Areas, NEW b \in Areas, DOMAIN b = DOMAIN a, SameBut(a, b, p),
               NEW x \in PlacesOf(a, k), x \notin HereOf(a, p, k)
        PROVE  x \in PlacesOf(b, k) /\ x \notin HereOf(b, p, k)
    <3>1. x \in Places(a) /\ RecordAt(a, x).key = k /\ x[1] # p
      BY <2>1 DEF HereOf, PlacesOf
    <3>2. x = <<x[1], x[2]>> /\ x[1] \in DOMAIN a /\ x[2] \in 1..Len(a[x[1]].records)
      BY <2>1, <3>1, PlaceShape
    <3>3. b[x[1]] = a[x[1]]
      BY <2>1, <3>1, <3>2 DEF SameBut
    <3>4. x \in Places(b) /\ RecordAt(b, x) = RecordAt(a, x)
      BY <2>1, <3>2, <3>3, PlaceShape DEF RecordAt
    <3> QED  BY <3>1, <3>4 DEF HereOf, PlacesOf
  <2>2. SameBut(g, f, p)
    BY <1>1 DEF SameBut
  <2>3. \A x : x \in PlacesOf(f, k) /\ x \notin HereOf(f, p, k) =>
                 x \in PlacesOf(g, k) /\ x \notin HereOf(g, p, k)
    BY <1>1, <2>1
  <2>4. \A x : x \in PlacesOf(g, k) /\ x \notin HereOf(g, p, k) =>
                 x \in PlacesOf(f, k) /\ x \notin HereOf(f, p, k)
    BY <1>1, <2>1, <2>2
  <2> QED  BY <1>2, <2>3, <2>4
<1>4. ASSUME NEW a \in Areas, p \in DOMAIN a, E = PlacesOf(a, k) \ HereOf(a, p, k)
      PROVE  Held(a, k) = Cardinality(E) + Times(a[p].records, k)
             /\ Cardinality(E) \in Nat /\ Times(a[p].records, k) \in Nat
  <2>1. PICK H : H = HereOf(a, p, k)
    OBVIOUS
  <2>2. IsFiniteSet(H) /\ Cardinality(H) = Times(a[p].records, k)
    BY <1>4, <2>1, PageHolds
  <2>3. IsFiniteSet(PlacesOf(a, k))
    BY PlacesFinite
  <2>4. H \subseteq PlacesOf(a, k)
    BY <2>1 DEF HereOf
  <2>5. PlacesOf(a, k) = E \cup H /\ E \cap H = {} /\ E \subseteq PlacesOf(a, k)
    BY <1>4, <2>1, <2>4
  <2>6. IsFiniteSet(E)
    BY <2>3, <2>5, FS_Subset
  <2>7. Cardinality(E \cup H) = Cardinality(E) + Cardinality(H) - Cardinality(E \cap H)
    BY <2>2, <2>6, FS_Union
  <2>8. Cardinality(E \cap H) = 0
    BY <2>5, FS_EmptySet
  <2>9. Cardinality(E) \in Nat /\ Cardinality(H) \in Nat
    BY <2>2, <2>6, FS_CardinalityType
  <2>10. Held(a, k) = Cardinality(E) + Cardinality(H)
    BY <2>5, <2>7, <2>8, <2>9 DEF Held
  <2> QED  BY <2>2, <2>9, <2>10
<1>5. Held(f, k) = Cardinality(E) + Times(f[p].records, k)
      /\ Cardinality(E) \in Nat /\ Times(f[p].records, k) \in Nat
  BY <1>2, <1>4
<1>6. Held(g, k) = Cardinality(E) + Times(g[p].records, k) /\ Times(g[p].records, k) \in Nat
  BY <1>1, <1>3, <1>4
<1>7. g[p].records = node.records
  BY <1>1
<1> QED  BY <1>5, <1>6, <1>7

(* A page of zeros holds nothing. *)
LEMMA AllocatedHolds ==
  ASSUME Parameters, NEW f \in Areas, NEW k
  PROVE  Held(Allocated(f), k) = Held(f, k)
<1>1. PICK g : g = Allocated(f)
  OBVIOUS
<1>2. /\ g \in Areas /\ DOMAIN g = DOMAIN f \cup {Count(f)} /\ g[Count(f)] = Zero
      /\ \A q \in DOMAIN f : g[q] = f[q]
  BY <1>1, PageAllocated
<1>3. DOMAIN g[Count(f)].records = {}
  BY <1>2 DEF Zero, Node
<1>4. Places(g) = Places(f)
  BY <1>2, <1>3 DEF Places
<1>5. \A x \in Places(f) : RecordAt(g, x) = RecordAt(f, x)
  BY <1>2, PlaceShape DEF RecordAt
<1>6. PlacesOf(g, k) = PlacesOf(f, k)
  BY <1>4, <1>5 DEF PlacesOf
<1> QED  BY <1>1, <1>6 DEF Held

-----------------------------------------------------------------------------
(* Loops: what holds at first and is handed on from round to round.        *)

LEMMA EveryRound ==
  ASSUME NEW N \in Nat, NEW G, 0 \in G, \A n \in 1..N : n - 1 \in G => n \in G
  PROVE  \A n \in 0..N : n \in G
<1>1. PICK T : T = {n \in 0..N : n \notin G}
  OBVIOUS
<1>2. ASSUME T # {} PROVE FALSE
  <2>1. T \subseteq Nat
    BY <1>1
  <2>2. PICK n \in T : \A y \in T : n <= y
    BY <1>2, <2>1, LeastElement
  <2>3. n \in 0..N /\ n \notin G /\ n # 0
    BY <1>1, <2>2
  <2>4. n \in 1..N /\ n - 1 \in 0..N /\ ~(n <= n - 1)
    BY <2>3
  <2>5. n - 1 \in G
    BY <1>1, <2>2, <2>4
  <2> QED  BY <2>3, <2>4, <2>5
<1> QED  BY <1>1, <1>2

(* A loop of N rounds has a state after each of them. *)
Loops(f, N, S, b, step) ==
  /\ f \in [0..N -> S] /\ f[0] = b
  /\ \A n \in 1..N : f[n] = step[n][f[n - 1]]

LEMMA LoopRuns ==
  ASSUME NEW N \in Nat, NEW S, NEW b \in S, NEW step \in [1..N -> [S -> S]]
  PROVE  \E f : Loops(f, N, S, b, step)
<1>1. PICK G : G = {n \in 0..N : \E f : Loops(f, n, S, b, step)}
  OBVIOUS
<1>2. 0 \in G
  <2>1. PICK f : f = [n \in 0..0 |-> b]
    OBVIOUS
  <2>2. f \in [0..0 -> S] /\ f[0] = b /\ 1..0 = {}
    BY <2>1
  <2>3. Loops(f, 0, S, b, step)
    BY <2>2 DEF Loops
  <2> QED  BY <1>1, <2>3
<1>3. ASSUME NEW n \in 1..N, n - 1 \in G PROVE n \in G
  <2>1. PICK f : Loops(f, n - 1, S, b, step)
    BY <1>1, <1>3
  <2>2. f \in [0..(n - 1) -> S] /\ f[0] = b /\ \A i \in 1..(n - 1) : f[i] = step[i][f[i - 1]]
    BY <2>1 DEF Loops
  <2>3. PICK g : g = [i \in 0..n |-> IF i = n THEN step[n][f[n - 1]] ELSE f[i]]
    OBVIOUS
  <2>4. n - 1 \in 0..(n - 1) /\ n \in 0..n /\ 0 # n
    OBVIOUS
  <2>5. step[n][f[n - 1]] \in S
    BY <2>2, <2>4
  <2>6. \A i \in 0..n : i = n \/ i \in 0..(n - 1)
    OBVIOUS
  <2>7. g \in [0..n -> S]
    BY <2>2, <2>3, <2>5, <2>6
  <2>8. g[n] = step[n][f[n - 1]] /\ \A i \in 0..(n - 1) : g[i] = f[i]
    BY <2>3
  <2>9. ASSUME NEW i \in 1..n PROVE g[i] = step[i][g[i - 1]]
    <3>1. i - 1 \in 0..(n - 1) /\ g[i - 1] = f[i - 1]
      BY <2>8
    <3>2. CASE i = n
      BY <2>8, <3>1, <3>2
    <3>3. CASE i # n
      <4>1. i \in 1..(n - 1) /\ i \in 0..(n - 1)
        BY <3>3
      <4> QED  BY <2>2, <2>8, <3>1, <4>1
    <3> QED  BY <3>2, <3>3
  <2>10. Loops(g, n, S, b, step)
    BY <2>2, <2>4, <2>7, <2>8, <2>9 DEF Loops
  <2> QED  BY <1>1, <2>10
<1>4. \A n \in 0..N : n \in G
  BY <1>2, <1>3, EveryRound
<1> QED  BY <1>1, <1>4

-----------------------------------------------------------------------------
(* Reading an area page by page.                                           *)

Reads(read, f) ==
  /\ read \in [0..Count(f) -> Seq(Rec)] /\ read[0] = <<>>
  /\ \A n \in 1..Count(f) : read[n] = read[n - 1] \o f[n - 1].records
  /\ RecordsOf(f) = read[Count(f)]

LEMMA ReadLoop ==
  ASSUME NEW f \in Areas
  PROVE  \E read : Reads(read, f)
<1>1. PICK N \in Nat : N = Count(f) /\ DOMAIN f = 0..(N - 1)
  BY AreaSize
<1>2. \A n \in 1..N : n - 1 \in DOMAIN f /\ f[n - 1].records \in Seq(Rec)
  <2>1. \A n \in 1..N : n - 1 \in DOMAIN f
    BY <1>1
  <2> QED  BY <2>1, AreaSize DEF PageNode
<1>3. PICK step : step = [n \in 1..N |-> [s \in Seq(Rec) |-> s \o f[n - 1].records]]
  OBVIOUS
<1>4. step \in [1..N -> [Seq(Rec) -> Seq(Rec)]]
  BY <1>2, <1>3
<1>5. <<>> \in Seq(Rec)
  OBVIOUS
<1>6. PICK g : Loops(g, N, Seq(Rec), <<>>, step)
  BY <1>4, <1>5, LoopRuns
<1>7. g \in [0..N -> Seq(Rec)] /\ g[0] = <<>> /\ \A n \in 1..N : g[n] = step[n][g[n - 1]]
  BY <1>6 DEF Loops
<1>8. ASSUME NEW n \in 1..N PROVE g[n] = g[n - 1] \o f[n - 1].records
  <2>1. n - 1 \in 0..N
    OBVIOUS
  <2> QED  BY <1>3, <1>7, <2>1
<1>9. g = [n \in 0..N |-> IF n = 0 THEN <<>> ELSE g[n - 1] \o f[n - 1].records]
  <2>1. \A n \in 0..N : n = 0 \/ n \in 1..N
    OBVIOUS
  <2>2. \A n \in 0..N : g[n] = IF n = 0 THEN <<>> ELSE g[n - 1] \o f[n - 1].records
    BY <1>7, <1>8, <2>1
  <2> QED  BY <1>7, <2>2
<1> DEFINE chosen == CHOOSE read : read = [n \in 0..N |-> IF n = 0 THEN <<>>
                                                          ELSE read[n - 1] \o f[n - 1].records]
<1>10. RecordsOf(f) = chosen[N]
  BY <1>1 DEF RecordsOf
<1>11. chosen = [n \in 0..N |-> IF n = 0 THEN <<>> ELSE chosen[n - 1] \o f[n - 1].records]
  BY <1>9
<1> HIDE DEF chosen
<1>12. PICK read : read = chosen
  OBVIOUS
<1>13. /\ DOMAIN read = 0..N /\ read[0] = <<>>
       /\ \A n \in 1..N : read[n] = read[n - 1] \o f[n - 1].records
  <2>1. 0 \in 0..N /\ \A n \in 1..N : n \in 0..N /\ n # 0
    OBVIOUS
  <2> QED  BY <1>11, <1>12, <2>1
<1>14. \A n \in 0..N : read[n] \in Seq(Rec)
  <2>1. PICK G : G = {n \in 0..N : read[n] \in Seq(Rec)}
    OBVIOUS
  <2>2. 0 \in G
    BY <1>5, <1>13, <2>1
  <2>3. ASSUME NEW n \in 1..N, n - 1 \in G PROVE n \in G
    <3>1. read[n - 1] \in Seq(Rec) /\ f[n - 1].records \in Seq(Rec)
      BY <1>2, <2>1, <2>3
    <3>2. read[n] \in Seq(Rec)
      <4>1. PICK u \in Seq(Rec), v \in Seq(Rec) : u = read[n - 1] /\ v = f[n - 1].records
        BY <3>1
      <4>2. u \o v \in Seq(Rec)
        OBVIOUS
      <4>3. read[n] = u \o v
        BY <1>13, <4>1
      <4> QED  BY <4>2, <4>3
    <3> QED  BY <2>1, <3>2
  <2>4. \A n \in 0..N : n \in G
    BY <2>2, <2>3, EveryRound
  <2> QED  BY <2>1, <2>4
<1>15. read \in [0..N -> Seq(Rec)]
  <2>1. read = [n \in 0..N |-> read[n]]
    BY <1>11, <1>12
  <2> QED  BY <1>14, <2>1
<1> QED  BY <1>1, <1>10, <1>12, <1>13, <1>15 DEF Reads

(* Every record of the area is read once. *)
LEMMA ReadTimes ==
  ASSUME Parameters, NEW f \in Areas
  PROVE  RecordsOf(f) \in Seq(Rec) /\ \A k : Times(RecordsOf(f), k) = Held(f, k)
<1>1. PICK N \in Nat : N = Count(f) /\ DOMAIN f = 0..(N - 1)
  BY AreaSize
<1>2. PICK read : Reads(read, f)
  BY ReadLoop
<1>3. /\ read \in [0..N -> Seq(Rec)] /\ read[0] = <<>>
      /\ \A n \in 1..N : read[n] = read[n - 1] \o f[n - 1].records
      /\ RecordsOf(f) = read[N]
  BY <1>1, <1>2 DEF Reads
<1>4. N \in 0..N
  OBVIOUS
<1>5. ASSUME NEW k PROVE Times(read[N], k) = Held(f, k)
  <2> DEFINE UpTo(n) == {x \in PlacesOf(f, k) : x[1] < n}
  <2>1. PICK G : G = {n \in 0..N : Times(read[n], k) = Cardinality(UpTo(n))}
    OBVIOUS
  <2>2. \A x \in PlacesOf(f, k) : x[1] \in 0..(N - 1)
    BY <1>1, PlaceShape DEF PlacesOf
  <2>3. 0 \in G
    <3>1. UpTo(0) = {}
      BY <2>2
    <3>2. Times(read[0], k) = 0 /\ Cardinality(UpTo(0)) = 0
      BY <1>3, <3>1, NoneTimes, FS_EmptySet
    <3> QED  BY <2>1, <3>2
  <2>4. ASSUME NEW n \in 1..N, n - 1 \in G PROVE n \in G
    <3>1. n - 1 \in DOMAIN f /\ n - 1 \in 0..N /\ n - 1 \in Int
      BY <1>1
    <3>2. PICK H : H = HereOf(f, n - 1, k)
      OBVIOUS
    <3>3. /\ f[n - 1].records \in Seq(Rec) /\ IsFiniteSet(H)
          /\ Cardinality(H) = Times(f[n - 1].records, k)
      BY <3>1, <3>2, PageHolds
    <3>4. UpTo(n) = UpTo(n - 1) \cup H /\ UpTo(n - 1) \cap H = {}
      BY <2>2, <3>2 DEF HereOf
    <3>5. IsFiniteSet(UpTo(n - 1))
      <4>1. IsFiniteSet(PlacesOf(f, k))
        BY PlacesFinite
      <4>2. UpTo(n - 1) \subseteq PlacesOf(f, k)
        OBVIOUS
      <4> QED  BY <4>1, <4>2, FS_Subset
    <3>6. Cardinality(UpTo(n)) = Cardinality(UpTo(n - 1)) + Cardinality(H)
      <4> HIDE DEF UpTo
      <4>1. Cardinality(UpTo(n - 1) \cup H) =
              Cardinality(UpTo(n - 1)) + Cardinality(H) - Cardinality(UpTo(n - 1) \cap H)
        BY <3>3, <3>5, FS_Union
      <4>2. Cardinality(UpTo(n - 1) \cap H) = 0
        BY <3>4, FS_EmptySet
      <4>3. Cardinality(UpTo(n - 1)) \in Nat /\ Cardinality(H) \in Nat
        BY <3>3, <3>5, FS_CardinalityType
      <4> QED  BY <3>4, <4>1, <4>2, <4>3
    <3> HIDE DEF UpTo
    <3>7. read[n - 1] \in Seq(Rec) /\ read[n] = read[n - 1] \o f[n - 1].records
      BY <1>3, <3>1
    <3>8. Times(read[n], k) = Times(read[n - 1], k) + Times(f[n - 1].records, k)
      BY <3>3, <3>7, ConcatTimes
    <3>9. Times(read[n - 1], k) = Cardinality(UpTo(n - 1))
      BY <2>1, <2>4
    <3>10. Times(read[n], k) = Cardinality(UpTo(n)) /\ n \in 0..N
      BY <3>3, <3>6, <3>8, <3>9
    <3> QED  BY <2>1, <3>10
  <2>5. UpTo(N) = PlacesOf(f, k)
    BY <2>2
  <2> HIDE DEF UpTo
  <2>6. \A n \in 0..N : n \in G
    BY <2>3, <2>4, EveryRound
  <2>7. Times(read[N], k) = Cardinality(UpTo(N))
    BY <1>4, <2>1, <2>6
  <2> QED  BY <2>5, <2>7 DEF Held
<1> QED  BY <1>3, <1>4, <1>5

(* An area in key order, none of whose pages is empty but an only one. *)
Ordered(f) ==
  /\ \A p \in DOMAIN f : InOrder(f[p].records)
  /\ \A p, q \in DOMAIN f : p < q =>
       \A i \in 1..Len(f[p].records), j \in 1..Len(f[q].records) :
         f[p].records[i].key <= f[q].records[j].key
  /\ \A p \in DOMAIN f : f[p].records # <<>> \/ Count(f) = 1

LEMMA ConcatInOrder ==
  ASSUME NEW s \in Seq(Rec), NEW t \in Seq(Rec), InOrder(s), InOrder(t),
         \A i \in 1..Len(s), j \in 1..Len(t) : s[i].key <= t[j].key
  PROVE  /\ InOrder(s \o t)
         /\ \A i \in 1..Len(s \o t) : \/ \E j \in 1..Len(s) : (s \o t)[i] = s[j]
                                      \/ \E j \in 1..Len(t) : (s \o t)[i] = t[j]
<1>1. PICK n \in Nat, m \in Nat : n = Len(s) /\ m = Len(t)
  OBVIOUS
<1>2. PICK u : u = s \o t
  OBVIOUS
<1>3. Len(u) = n + m /\ (\A i \in 1..n : u[i] = s[i]) /\ (\A i \in 1..m : u[n + i] = t[i])
  BY <1>1, <1>2
<1>4. \A i \in (n + 1)..(n + m) : i - n \in 1..m /\ u[i] = t[i - n]
  <2>1. \A i \in (n + 1)..(n + m) : i - n \in 1..m /\ n + (i - n) = i
    OBVIOUS
  <2> QED  BY <1>3, <2>1
<1>5. \A i \in 1..(n + m) : i \in 1..n \/ i \in (n + 1)..(n + m)
  OBVIOUS
<1>6. ASSUME NEW i \in 1..(n + m), NEW j \in 1..(n + m), i < j PROVE u[i].key <= u[j].key
  <2>1. CASE i \in 1..n /\ j \in 1..n
    BY <1>1, <1>3, <1>6, <2>1 DEF InOrder
  <2>2. CASE i \in 1..n /\ j \in (n + 1)..(n + m)
    BY <1>1, <1>3, <1>4, <2>2
  <2>3. CASE i \in (n + 1)..(n + m) /\ j \in (n + 1)..(n + m)
    <3>1. i - n < j - n
      BY <1>6
    <3> QED  BY <1>1, <1>4, <2>3, <3>1 DEF InOrder
  <2>4. ~(i \in (n + 1)..(n + m) /\ j \in 1..n)
    BY <1>6
  <2> QED  BY <1>5, <2>1, <2>2, <2>3, <2>4
<1>7. InOrder(u)
  BY <1>3, <1>6 DEF InOrder
<1>8. \A i \in 1..(n + m) : (\E j \in 1..n : u[i] = s[j]) \/ (\E j \in 1..m : u[i] = t[j])
  BY <1>3, <1>4, <1>5
<1> QED  BY <1>1, <1>2, <1>3, <1>7, <1>8

(* An area in order is read in order. *)
LEMMA ReadInOrder ==
  ASSUME Parameters, NEW f \in Areas, Ordered(f)
  PROVE  InOrder(RecordsOf(f))
<1>1. PICK N \in Nat : N = Count(f) /\ DOMAIN f = 0..(N - 1)
  BY AreaSize
<1>2. PICK read : Reads(read, f)
  BY ReadLoop
<1>3. /\ read \in [0..N -> Seq(Rec)] /\ read[0] = <<>>
      /\ \A n \in 1..N : read[n] = read[n - 1] \o f[n - 1].records
      /\ RecordsOf(f) = read[N]
  BY <1>1, <1>2 DEF Reads
<1> DEFINE From(r, n) == \E q \in 0..(n - 1) : \E j \in 1..Len(f[q].records) : r = f[q].records[j]
<1>4. PICK G : G = {n \in 0..N : InOrder(read[n]) /\ \A i \in 1..Len(read[n]) : From(read[n][i], n)}
  OBVIOUS
<1>5. 0 \in G
  <2>1. 1..Len(read[0]) = {} /\ 0 \in 0..N
    BY <1>3
  <2> QED  BY <1>4, <2>1 DEF InOrder
<1>6. ASSUME NEW n \in 1..N, n - 1 \in G PROVE n \in G
  <2>1. n - 1 \in DOMAIN f /\ n - 1 \in 0..N /\ (n - 1) - 1 = n - 2
    BY <1>1
  <2>2. PICK s \in Seq(Rec), t \in Seq(Rec) : s = read[n - 1] /\ t = f[n - 1].records
    BY <1>3, <2>1, AreaSize DEF PageNode
  <2>3. InOrder(s) /\ \A i \in 1..Len(s) : From(s[i], n - 1)
    BY <1>4, <1>6, <2>2
  <2>4. InOrder(t)
    BY <2>1, <2>2 DEF Ordered
  <2>5. ASSUME NEW i \in 1..Len(s), NEW j \in 1..Len(t) PROVE s[i].key <= t[j].key
    <3>1. PICK q \in 0..(n - 2) : \E l \in 1..Len(f[q].records) : s[i] = f[q].records[l]
      BY <2>1, <2>3
    <3>2. PICK l \in 1..Len(f[q].records) : s[i] = f[q].records[l]
      BY <3>1
    <3>3. q \in DOMAIN f /\ q < n - 1
      BY <1>1
    <3> QED  BY <2>1, <2>2, <3>2, <3>3 DEF Ordered
  <2>6. /\ InOrder(s \o t)
        /\ \A i \in 1..Len(s \o t) : \/ \E j \in 1..Len(s) : (s \o t)[i] = s[j]
                                     \/ \E j \in 1..Len(t) : (s \o t)[i] = t[j]
    BY <2>3, <2>4, <2>5, ConcatInOrder
  <2>7. read[n] = s \o t
    BY <1>3, <2>2
  <2>8. \A r : From(r, n - 1) => From(r, n)
    <3>1. \A q \in 0..((n - 1) - 1) : q \in 0..(n - 1)
      OBVIOUS
    <3> QED  BY <3>1
  <2>9. \A j \in 1..Len(t) : From(t[j], n)
    <3>1. n - 1 \in 0..(n - 1)
      OBVIOUS
    <3> QED  BY <2>2, <3>1
  <2> HIDE DEF From
  <2>10. \A i \in 1..Len(read[n]) : From(read[n][i], n)
    BY <2>3, <2>6, <2>7, <2>8, <2>9
  <2>11. InOrder(read[n]) /\ n \in 0..N
    BY <2>6, <2>7
  <2> QED  BY <1>4, <2>10, <2>11
<1> HIDE DEF From
<1>7. \A n \in 0..N : n \in G
  BY <1>5, <1>6, EveryRound
<1>8. N \in G
  BY <1>7
<1> QED  BY <1>3, <1>4, <1>8

-----------------------------------------------------------------------------
(* Sorting.                                                                *)

(* The first records of a list. *)
LEMMA FirstIsSeq ==
  ASSUME NEW s \in Seq(Rec), NEW n \in 0..Len(s)
  PROVE  SubSeq(s, 1, n) \in Seq(Rec)
OBVIOUS

(* ... one more by one more. *)
LEMMA FirstRecords ==
  ASSUME NEW s \in Seq(Rec)
  PROVE  /\ SubSeq(s, 1, 0) = <<>> /\ SubSeq(s, 1, Len(s)) = s
         /\ \A n \in 1..Len(s) : \A k :
              Times(SubSeq(s, 1, n), k) = Times(SubSeq(s, 1, n - 1), k) + One(k, s[n].key)
<1>1. SubSeq(s, 1, 0) = <<>> /\ SubSeq(s, 1, Len(s)) = s
  <2>1. SubSeq(s, 1, 0) = <<>>
    <3>1. PICK t \in Seq(Rec) : t = SubSeq(s, 1, 0)
      <4>1. SubSeq(s, 1, 0) \in Seq(Rec)
        OBVIOUS
      <4> QED  BY <4>1
    <3>2. Len(t) = 0
      BY <3>1
    <3> QED  BY <3>1, <3>2
  <2>2. SubSeq(s, 1, Len(s)) = s
    <3>1. PICK t \in Seq(Rec) : t = SubSeq(s, 1, Len(s))
      OBVIOUS
    <3>2. Len(t) = Len(s) /\ \A i \in 1..Len(s) : t[i] = s[i]
      BY <3>1
    <3>3. t = s
      BY <3>2
    <3> QED  BY <3>1, <3>3
  <2> QED  BY <2>1, <2>2
<1>2. ASSUME NEW n \in 1..Len(s), NEW k
      PROVE  Times(SubSeq(s, 1, n), k) = Times(SubSeq(s, 1, n - 1), k) + One(k, s[n].key)
  <2>0. SubSeq(s, 1, n - 1) \in Seq(Rec) /\ SubSeq(s, 1, n) \in Seq(Rec)
    OBVIOUS
  <2>1. PICK t \in Seq(Rec) : t = SubSeq(s, 1, n - 1)
    BY <2>0
  <2>2. Len(t) = n - 1 /\ \A i \in 1..(n - 1) : t[i] = s[i]
    BY <2>1
  <2>3. PICK u \in Seq(Rec) : u = SubSeq(s, 1, n)
    BY <2>0
  <2>4. Len(u) = n /\ \A i \in 1..n : u[i] = s[i]
    BY <2>3
  <2>5. s[n] \in Rec
    OBVIOUS
  <2>6. PICK v \in Seq(Rec) : v = Append(t, s[n])
    <3>1. Append(t, s[n]) \in Seq(Rec)
      BY <2>5
    <3> QED  BY <3>1
  <2>7. Len(v) = n /\ v[n] = s[n] /\ \A i \in 1..(n - 1) : v[i] = t[i]
    BY <2>2, <2>6
  <2>8. \A i \in 1..n : i \in 1..(n - 1) \/ i = n
    OBVIOUS
  <2>9. \A i \in 1..n : u[i].key = v[i].key
    BY <2>2, <2>4, <2>7, <2>8
  <2>10. Times(u, k) = Times(v, k)
    BY <2>4, <2>7, <2>9, TimesOfKeys
  <2>11. Times(v, k) = Times(t, k) + One(k, s[n].key)
    BY <2>5, <2>6, AppendTimes
  <2> QED  BY <2>1, <2>3, <2>10, <2>11
<1> QED  BY <1>1, <1>2

Sorts(sorted, s) ==
  /\ \A n \in 0..Len(s) : sorted[n] \in Seq(Rec)
  /\ sorted[0] = <<>>
  /\ \A n \in 1..Len(s) : sorted[n] = Placed(sorted[n - 1], s[n])
  /\ Sorted(s) = sorted[Len(s)]

LEMMA SortLoop ==
  ASSUME Parameters, NEW s \in Seq(Rec)
  PROVE  \E sorted : Sorts(sorted, s)
<1>1. PICK N \in Nat : N = Len(s)
  OBVIOUS
<1>2. \A n \in 1..N : s[n] \in Rec
  BY <1>1
<1>3. PICK step : step = [n \in 1..N |-> [t \in Seq(Rec) |-> Placed(t, s[n])]]
  OBVIOUS
<1>4. step \in [1..N -> [Seq(Rec) -> Seq(Rec)]]
  <2>1. \A n \in 1..N : \A t \in Seq(Rec) : Placed(t, s[n]) \in Seq(Rec)
    BY <1>2, PlacedInOrder
  <2> QED  BY <1>3, <2>1
<1>5. <<>> \in Seq(Rec)
  OBVIOUS
<1>6. PICK g : Loops(g, N, Seq(Rec), <<>>, step)
  BY <1>4, <1>5, LoopRuns
<1>7. g \in [0..N -> Seq(Rec)] /\ g[0] = <<>> /\ \A n \in 1..N : g[n] = step[n][g[n - 1]]
  BY <1>6 DEF Loops
<1>8. ASSUME NEW n \in 1..N PROVE g[n] = Placed(g[n - 1], s[n])
  <2>1. n - 1 \in 0..N
    OBVIOUS
  <2> QED  BY <1>3, <1>7, <2>1
<1>9. g = [n \in 0..N |-> IF n = 0 THEN <<>> ELSE Placed(g[n - 1], s[n])]
  <2>1. \A n \in 0..N : n = 0 \/ n \in 1..N
    OBVIOUS
  <2>2. \A n \in 0..N : g[n] = IF n = 0 THEN <<>> ELSE Placed(g[n - 1], s[n])
    BY <1>7, <1>8, <2>1
  <2> QED  BY <1>7, <2>2
<1> DEFINE chosen == CHOOSE sorted : sorted = [n \in 0..N |-> IF n = 0 THEN <<>>
                                                             ELSE Placed(sorted[n - 1], s[n])]
<1>10. Sorted(s) = chosen[N]
  BY <1>1 DEF Sorted
<1>11. chosen = [n \in 0..N |-> IF n = 0 THEN <<>> ELSE Placed(chosen[n - 1], s[n])]
  BY <1>9
<1> HIDE DEF chosen
<1>12. PICK sorted : sorted = chosen
  OBVIOUS
<1>13. sorted[0] = <<>> /\ \A n \in 1..N : sorted[n] = Placed(sorted[n - 1], s[n])
  <2>1. 0 \in 0..N /\ \A n \in 1..N : n \in 0..N /\ n # 0
    OBVIOUS
  <2> QED  BY <1>11, <1>12, <2>1
<1>14. \A n \in 0..N : sorted[n] \in Seq(Rec)
  <2>1. PICK G : G = {n \in 0..N : sorted[n] \in Seq(Rec)}
    OBVIOUS
  <2>2. 0 \in G
    <3>1. sorted[0] \in Seq(Rec) /\ 0 \in 0..N
      BY <1>5, <1>13
    <3> QED  BY <2>1, <3>1
  <2>3. ASSUME NEW n \in 1..N, n - 1 \in G PROVE n \in G
    <3>1. sorted[n - 1] \in Seq(Rec)
      BY <2>1, <2>3
    <3>2. sorted[n] \in Seq(Rec)
      BY <1>2, <1>13, <3>1, PlacedInOrder
    <3> QED  BY <2>1, <3>2
  <2>4. \A n \in 0..N : n \in G
    BY <2>2, <2>3, EveryRound
  <2> QED  BY <2>1, <2>4
<1> QED  BY <1>1, <1>10, <1>12, <1>13, <1>14 DEF Sorts

(* A sort keeps every record and leaves them in order. *)
LEMMA SortedIsSorted ==
  ASSUME Parameters, NEW s \in Seq(Rec)
  PROVE  /\ Sorted(s) \in Seq(Rec) /\ InOrder(Sorted(s))
         /\ \A k : Times(Sorted(s), k) = Times(s, k)
<1>1. PICK N \in Nat : N = Len(s)
  OBVIOUS
<1>2. PICK sorted : Sorts(sorted, s)
  BY SortLoop
<1>3. /\ \A n \in 0..N : sorted[n] \in Seq(Rec)
      /\ sorted[0] = <<>>
      /\ \A n \in 1..N : sorted[n] = Placed(sorted[n - 1], s[n])
      /\ Sorted(s) = sorted[N]
  BY <1>1, <1>2 DEF Sorts
<1>4. PICK G : G = {n \in 0..N : /\ InOrder(sorted[n])
                                 /\ \A k : Times(sorted[n], k) = Times(SubSeq(s, 1, n), k)}
  OBVIOUS
<1>5. 0 \in G
  <2>1. 1..Len(sorted[0]) = {} /\ 0 \in 0..N
    BY <1>3
  <2>2. SubSeq(s, 1, 0) = <<>>
    BY FirstRecords
  <2>3. sorted[0] = SubSeq(s, 1, 0)
    BY <1>3, <2>2
  <2> QED  BY <1>4, <2>1, <2>3 DEF InOrder
<1>6. ASSUME NEW n \in 1..N, n - 1 \in G PROVE n \in G
  <2>1. n - 1 \in 0..N /\ n \in 0..N /\ s[n] \in Rec
    BY <1>1
  <2>2. PICK t \in Seq(Rec) : t = sorted[n - 1]
    BY <1>3, <2>1
  <2>3. InOrder(t) /\ \A k : Times(t, k) = Times(SubSeq(s, 1, n - 1), k)
    BY <1>4, <1>6, <2>2
  <2>4. sorted[n] = Placed(t, s[n])
    BY <1>3, <2>2
  <2>5. InOrder(sorted[n]) /\ \A k : Times(sorted[n], k) = Times(t, k) + One(k, s[n].key)
    <3>1. PICK r \in Rec : r = s[n]
      BY <2>1
    <3>2. /\ InOrder(t) => InOrder(Placed(t, r))
          /\ \A k : Times(Placed(t, r), k) = Times(t, k) + One(k, r.key)
      BY PlacedInOrder
    <3> QED  BY <2>3, <2>4, <3>1, <3>2
  <2>6. \A k : Times(SubSeq(s, 1, n), k) = Times(SubSeq(s, 1, n - 1), k) + One(k, s[n].key)
    BY <1>1, FirstRecords
  <2>7. \A k : Times(sorted[n], k) = Times(SubSeq(s, 1, n), k)
    BY <2>3, <2>5, <2>6
  <2> QED  BY <1>4, <2>1, <2>5, <2>7
<1>7. \A n \in 0..N : n \in G
  BY <1>5, <1>6, EveryRound
<1>8. N \in G /\ N \in 0..N /\ SubSeq(s, 1, N) = s
  BY <1>1, <1>7, FirstRecords
<1> QED  BY <1>3, <1>4, <1>8

-----------------------------------------------------------------------------
(* The merge.                                                              *)

(* What has been given out after n rounds: the first records of both, each as
   often; and in order before all that is left, if both are in order.      *)
Merging(main, over, n, s) ==
  /\ s = [m |-> s.m, o |-> s.o, out |-> s.out]
  /\ s.m \in 0..Len(main) /\ s.o \in 0..Len(over) /\ s.m + s.o = n
  /\ s.out \in Seq(Rec)
  /\ \A k : Times(s.out, k) = Times(SubSeq(main, 1, s.m), k) + Times(SubSeq(over, 1, s.o), k)
  /\ InOrder(main) /\ InOrder(over) =>
       /\ InOrder(s.out)
       /\ \A i \in 1..Len(s.out) :
            /\ \A j \in (s.m + 1)..Len(main) : s.out[i].key <= main[j].key
            /\ \A j \in (s.o + 1)..Len(over) : s.out[i].key <= over[j].key

(* One record more, with a key not less than those before. *)
LEMMA AppendInOrder ==
  ASSUME NEW s \in Seq(Rec), NEW r \in Rec, InOrder(s),
         \A i \in 1..Len(s) : s[i].key <= r.key
  PROVE  InOrder(Append(s, r))
<1>1. PICK n \in Nat : n = Len(s)
  OBVIOUS
<1>2. PICK t : t = Append(s, r)
  OBVIOUS
<1>3. Len(t) = n + 1 /\ t[n + 1] = r /\ \A i \in 1..n : t[i] = s[i]
  BY <1>1, <1>2
<1>4. \A i, j \in 1..(n + 1) : i < j => i \in 1..n /\ (j \in 1..n \/ j = n + 1)
  OBVIOUS
<1>5. \A i, j \in 1..(n + 1) : i < j => t[i].key <= t[j].key
  BY <1>1, <1>3, <1>4 DEF InOrder
<1> QED  BY <1>2, <1>3, <1>5 DEF InOrder

LEMMA AppendShape ==
  ASSUME NEW s \in Seq(Rec), NEW r \in Rec
  PROVE  /\ Append(s, r) \in Seq(Rec) /\ Len(Append(s, r)) = Len(s) + 1
         /\ \A i \in 1..Len(Append(s, r)) :
              Append(s, r)[i] = r \/ (i \in 1..Len(s) /\ Append(s, r)[i] = s[i])
<1>1. PICK n \in Nat : n = Len(s)
  OBVIOUS
<1>2. PICK t : t = Append(s, r)
  OBVIOUS
<1>3. t \in Seq(Rec) /\ Len(t) = n + 1 /\ t[n + 1] = r /\ \A i \in 1..n : t[i] = s[i]
  BY <1>1, <1>2
<1>4. \A i \in 1..(n + 1) : i \in 1..n \/ i = n + 1
  OBVIOUS
<1> QED  BY <1>1, <1>2, <1>3, <1>4

(* The next of overflow. *)
LEMMA YieldOver ==
  ASSUME Parameters, NEW main \in Seq(Rec), NEW over \in Seq(Rec),
         NEW n \in Nat, NEW s, Merging(main, over, n, s),
         s.o < Len(over), s.m = Len(main) \/ over[s.o + 1].key < main[s.m + 1].key
  PROVE  Merging(main, over, n + 1,
                 [m |-> s.m, o |-> s.o + 1, out |-> Append(s.out, over[s.o + 1])])
<1>1. PICK m \in Nat, o \in Nat, out \in Seq(Rec) :
        /\ m = s.m /\ o = s.o /\ out = s.out
        /\ m \in 0..Len(main) /\ o + 1 \in 1..Len(over) /\ m + o = n
  BY DEF Merging
<1>2. over[o + 1] \in Rec
  BY <1>1
<1>3. PICK r \in Rec : r = over[o + 1]
  BY <1>2
<1>4. PICK new : new = Append(out, r)
  OBVIOUS
<1>5. /\ new \in Seq(Rec)
      /\ \A i \in 1..Len(new) : new[i] = r \/ (i \in 1..Len(out) /\ new[i] = out[i])
  BY <1>4, AppendShape
<1>6. \A k : Times(new, k) = Times(SubSeq(main, 1, m), k) + Times(SubSeq(over, 1, o + 1), k)
  <2>1. ASSUME NEW k
        PROVE  Times(new, k) = Times(SubSeq(main, 1, m), k) + Times(SubSeq(over, 1, o + 1), k)
    <3>1. Times(out, k) = Times(SubSeq(main, 1, m), k) + Times(SubSeq(over, 1, o), k)
      BY <1>1 DEF Merging
    <3>2. Times(new, k) = Times(out, k) + One(k, r.key)
      BY <1>4, AppendTimes
    <3>3. (o + 1) - 1 = o
      BY <1>1
    <3>4. Times(SubSeq(over, 1, o + 1), k) = Times(SubSeq(over, 1, o), k) + One(k, r.key)
      <4>1. Times(SubSeq(over, 1, o + 1), k)
              = Times(SubSeq(over, 1, (o + 1) - 1), k) + One(k, over[o + 1].key)
        BY <1>1, FirstRecords
      <4> QED  BY <1>3, <3>3, <4>1
    <3>5. /\ Times(SubSeq(main, 1, m), k) \in Nat /\ Times(SubSeq(over, 1, o), k) \in Nat
          /\ One(k, r.key) \in Nat
      <4>1. SubSeq(main, 1, m) \in Seq(Rec) /\ SubSeq(over, 1, o) \in Seq(Rec)
        <5>1. m \in 0..Len(main) /\ o \in 0..Len(over)
          BY <1>1
        <5> QED  BY <5>1, FirstIsSeq
      <4>2. One(k, r.key) \in Nat
        BY DEF One
      <4> QED  BY <4>1, <4>2, TimesType
    <3> QED  BY <3>1, <3>2, <3>4, <3>5
  <2> QED  BY <2>1
<1>7. ASSUME InOrder(main), InOrder(over)
      PROVE  /\ InOrder(new)
             /\ \A i \in 1..Len(new) :
                  /\ \A j \in (m + 1)..Len(main) : new[i].key <= main[j].key
                  /\ \A j \in (o + 2)..Len(over) : new[i].key <= over[j].key
  <2>1. /\ InOrder(out)
        /\ \A i \in 1..Len(out) :
             /\ \A j \in (m + 1)..Len(main) : out[i].key <= main[j].key
             /\ \A j \in (o + 1)..Len(over) : out[i].key <= over[j].key
    BY <1>1, <1>7 DEF Merging
  <2>2. o + 1 \in (o + 1)..Len(over)
    BY <1>1
  <2>3. InOrder(new)
    BY <1>3, <1>4, <2>1, <2>2, AppendInOrder
  <2>4. ASSUME NEW j \in (m + 1)..Len(main) PROVE r.key <= main[j].key
    <3>1. j \in 1..Len(main) /\ m + 1 \in 1..Len(main) /\ m # Len(main)
      <4>1. PICK N \in Nat : N = Len(main)
        OBVIOUS
      <4>2. m \in 0..N
        BY <1>1, <4>1
      <4>3. j \in (m + 1)..N
        BY <4>1
      <4>4. j \in 1..N /\ m + 1 \in 1..N /\ m # N
        BY <4>2, <4>3
      <4> QED  BY <4>1, <4>4
    <3>2. r.key < main[m + 1].key
      BY <1>1, <1>3, <3>1
    <3>3. m + 1 = j \/ main[m + 1].key <= main[j].key
      BY <1>7, <3>1 DEF InOrder
    <3>4. r.key \in Int /\ main[m + 1].key \in Int /\ main[j].key \in Int
      BY <3>1, KeysOrdered
    <3> QED  BY <3>2, <3>3, <3>4
  <2>5. ASSUME NEW j \in (o + 2)..Len(over) PROVE r.key <= over[j].key
    <3>1. j \in 1..Len(over) /\ o + 1 < j
      BY <1>1
    <3> QED  BY <1>1, <1>3, <1>7, <3>1 DEF InOrder
  <2>6. \A j \in (o + 2)..Len(over) : j \in (o + 1)..Len(over)
    BY <1>1
  <2> QED  BY <1>5, <2>1, <2>3, <2>4, <2>5, <2>6
<1>8. PICK t : t = [m |-> m, o |-> o + 1, out |-> new]
  OBVIOUS
<1>9. t.m = m /\ t.o = o + 1 /\ t.out = new /\ t = [m |-> t.m, o |-> t.o, out |-> t.out]
  BY <1>8
<1>10. t.o \in 0..Len(over) /\ t.m + t.o = n + 1 /\ t.o + 1 = o + 2 /\ t.m \in 0..Len(main)
  <2>1. o + 1 \in 0..Len(over) /\ m \in 0..Len(main) /\ (o + 1) + 1 = o + 2
    <3>1. PICK N \in Nat : N = Len(over)
      OBVIOUS
    <3>2. o + 1 \in 1..N /\ m \in 0..Len(main)
      BY <1>1, <3>1
    <3>3. o + 1 \in 0..N /\ (o + 1) + 1 = o + 2
      BY <3>2
    <3> QED  BY <3>1, <3>2, <3>3
  <2>2. (m + 1) + o = n + 1 /\ m + (o + 1) = n + 1
    <3>1. m \in Nat /\ o \in Nat /\ n \in Nat /\ n = m + o
      BY <1>1
    <3> QED  BY <3>1
  <2> QED  BY <1>9, <2>1, <2>2
<1>11. Merging(main, over, n + 1, t)
  BY <1>5, <1>6, <1>7, <1>9, <1>10 DEF Merging
<1> QED  BY <1>1, <1>3, <1>4, <1>8, <1>11

(* The next of the main area. *)
LEMMA YieldMain ==
  ASSUME Parameters, NEW main \in Seq(Rec), NEW over \in Seq(Rec),
         NEW n \in Nat, NEW s, Merging(main, over, n, s),
         s.m < Len(main), s.o = Len(over) \/ ~(over[s.o + 1].key < main[s.m + 1].key)
  PROVE  Merging(main, over, n + 1,
                 [m |-> s.m + 1, o |-> s.o, out |-> Append(s.out, main[s.m + 1])])
<1>1. PICK m \in Nat, o \in Nat, out \in Seq(Rec) :
        /\ m = s.m /\ o = s.o /\ out = s.out
        /\ m + 1 \in 1..Len(main) /\ o \in 0..Len(over) /\ m + o = n
  BY DEF Merging
<1>2. main[m + 1] \in Rec
  BY <1>1
<1>3. PICK r \in Rec : r = main[m + 1]
  BY <1>2
<1>4. PICK new : new = Append(out, r)
  OBVIOUS
<1>5. /\ new \in Seq(Rec)
      /\ \A i \in 1..Len(new) : new[i] = r \/ (i \in 1..Len(out) /\ new[i] = out[i])
  BY <1>4, AppendShape
<1>6. \A k : Times(new, k) = Times(SubSeq(main, 1, m + 1), k) + Times(SubSeq(over, 1, o), k)
  <2>1. ASSUME NEW k
        PROVE  Times(new, k) = Times(SubSeq(main, 1, m + 1), k) + Times(SubSeq(over, 1, o), k)
    <3>1. Times(out, k) = Times(SubSeq(main, 1, m), k) + Times(SubSeq(over, 1, o), k)
      BY <1>1 DEF Merging
    <3>2. Times(new, k) = Times(out, k) + One(k, r.key)
      BY <1>4, AppendTimes
    <3>3. (m + 1) - 1 = m
      BY <1>1
    <3>4. Times(SubSeq(main, 1, m + 1), k) = Times(SubSeq(main, 1, m), k) + One(k, r.key)
      <4>1. Times(SubSeq(main, 1, m + 1), k)
              = Times(SubSeq(main, 1, (m + 1) - 1), k) + One(k, main[m + 1].key)
        BY <1>1, FirstRecords
      <4> QED  BY <1>3, <3>3, <4>1
    <3>5. /\ Times(SubSeq(main, 1, m), k) \in Nat /\ Times(SubSeq(over, 1, o), k) \in Nat
          /\ One(k, r.key) \in Nat
      <4>1. SubSeq(main, 1, m) \in Seq(Rec) /\ SubSeq(over, 1, o) \in Seq(Rec)
        <5>1. m \in 0..Len(main) /\ o \in 0..Len(over)
          BY <1>1
        <5> QED  BY <5>1, FirstIsSeq
      <4>2. One(k, r.key) \in Nat
        BY DEF One
      <4> QED  BY <4>1, <4>2, TimesType
    <3> QED  BY <3>1, <3>2, <3>4, <3>5
  <2> QED  BY <2>1
<1>7. ASSUME InOrder(main), InOrder(over)
      PROVE  /\ InOrder(new)
             /\ \A i \in 1..Len(new) :
                  /\ \A j \in (m + 2)..Len(main) : new[i].key <= main[j].key
                  /\ \A j \in (o + 1)..Len(over) : new[i].key <= over[j].key
  <2>1. /\ InOrder(out)
        /\ \A i \in 1..Len(out) :
             /\ \A j \in (m + 1)..Len(main) : out[i].key <= main[j].key
             /\ \A j \in (o + 1)..Len(over) : out[i].key <= over[j].key
    BY <1>1, <1>7 DEF Merging
  <2>2. m + 1 \in (m + 1)..Len(main)
    BY <1>1
  <2>3. InOrder(new)
    BY <1>3, <1>4, <2>1, <2>2, AppendInOrder
  <2>4. ASSUME NEW j \in (o + 1)..Len(over) PROVE r.key <= over[j].key
    <3>1. j \in 1..Len(over) /\ o + 1 \in 1..Len(over) /\ o # Len(over)
      <4>1. PICK N \in Nat : N = Len(over)
        OBVIOUS
      <4>2. o \in 0..N
        BY <1>1, <4>1
      <4>3. j \in (o + 1)..N
        BY <4>1
      <4>4. j \in 1..N /\ o + 1 \in 1..N /\ o # N
        BY <4>2, <4>3
      <4> QED  BY <4>1, <4>4
    <3>2. ~(over[o + 1].key < r.key)
      BY <1>1, <1>3, <3>1
    <3>3. o + 1 = j \/ over[o + 1].key <= over[j].key
      BY <1>7, <3>1 DEF InOrder
    <3>4. r.key \in Int /\ over[o + 1].key \in Int /\ over[j].key \in Int
      BY <3>1, KeysOrdered
    <3> QED  BY <3>2, <3>3, <3>4
  <2>5. ASSUME NEW j \in (m + 2)..Len(main) PROVE r.key <= main[j].key
    <3>1. j \in 1..Len(main) /\ m + 1 < j
      BY <1>1
    <3> QED  BY <1>1, <1>3, <1>7, <3>1 DEF InOrder
  <2>6. \A j \in (m + 2)..Len(main) : j \in (m + 1)..Len(main)
    BY <1>1
  <2> QED  BY <1>5, <2>1, <2>3, <2>4, <2>5, <2>6
<1>8. PICK t : t = [m |-> m + 1, o |-> o, out |-> new]
  OBVIOUS
<1>9. t.m = m + 1 /\ t.o = o /\ t.out = new /\ t = [m |-> t.m, o |-> t.o, out |-> t.out]
  BY <1>8
<1>10. t.m \in 0..Len(main) /\ t.m + t.o = n + 1 /\ t.m + 1 = m + 2 /\ t.o \in 0..Len(over)
  <2>1. m + 1 \in 0..Len(main) /\ o \in 0..Len(over) /\ (m + 1) + 1 = m + 2
    BY <1>1
  <2>2. (m + 1) + o = n + 1 /\ m + (o + 1) = n + 1
    <3>1. m \in Nat /\ o \in Nat /\ n \in Nat /\ n = m + o
      BY <1>1
    <3> QED  BY <3>1
  <2> QED  BY <1>9, <2>1, <2>2
<1>11. Merging(main, over, n + 1, t)
  BY <1>5, <1>6, <1>7, <1>9, <1>10 DEF Merging
<1> QED  BY <1>1, <1>3, <1>4, <1>8, <1>11

LEMMA YieldKeeps ==
  ASSUME Parameters, NEW main \in Seq(Rec), NEW over \in Seq(Rec),
         NEW n \in Nat, n < Len(main) + Len(over), NEW s, Merging(main, over, n, s)
  PROVE  Merging(main, over, n + 1, Yield(main, over, s))
<1>1. PICK m \in Nat, o \in Nat :
        m = s.m /\ o = s.o /\ m \in 0..Len(main) /\ o \in 0..Len(over) /\ m + o = n
  BY DEF Merging
<1>2. CASE m + 1 > Len(main) \/ (o + 1 <= Len(over) /\ over[o + 1].key < main[m + 1].key)
  <2>1. o < Len(over) /\ (m = Len(main) \/ over[o + 1].key < main[m + 1].key)
    BY <1>1, <1>2
  <2>2. Yield(main, over, s) = [m |-> s.m, o |-> s.o + 1, out |-> Append(s.out, over[s.o + 1])]
    BY <1>1, <1>2 DEF Yield
  <2> QED  BY <1>1, <2>1, <2>2, YieldOver
<1>3. CASE ~(m + 1 > Len(main) \/ (o + 1 <= Len(over) /\ over[o + 1].key < main[m + 1].key))
  <2>1. m < Len(main) /\ (o = Len(over) \/ ~(over[o + 1].key < main[m + 1].key))
    BY <1>1, <1>3
  <2>2. Yield(main, over, s) = [m |-> s.m + 1, o |-> s.o, out |-> Append(s.out, main[s.m + 1])]
    BY <1>1, <1>3 DEF Yield
  <2> QED  BY <1>1, <2>1, <2>2, YieldMain
<1> QED  BY <1>2, <1>3

(* From nothing, n rounds give out n records. *)
LEMMA MergingRounds ==
  ASSUME Parameters, NEW main \in Seq(Rec), NEW over \in Seq(Rec),
         NEW N \in Nat, N = Len(main) + Len(over), NEW f, f[0] = NothingYet,
         \A n \in 1..N : Merging(main, over, n - 1, f[n - 1]) => f[n] = Yield(main, over, f[n - 1])
  PROVE  \A n \in 0..N : Merging(main, over, n, f[n])
<1>1. PICK G : G = {n \in 0..N : Merging(main, over, n, f[n])}
  OBVIOUS
<1>2. 0 \in G
  <2>1. PICK s : s = NothingYet
    OBVIOUS
  <2>2. s.m = 0 /\ s.o = 0 /\ s.out = <<>> /\ s = [m |-> s.m, o |-> s.o, out |-> s.out]
    BY <2>1 DEF NothingYet
  <2>3. \A k : Times(s.out, k) = Times(SubSeq(main, 1, s.m), k) + Times(SubSeq(over, 1, s.o), k)
    <3>1. SubSeq(main, 1, s.m) = <<>> /\ SubSeq(over, 1, s.o) = <<>>
      BY <2>2, FirstRecords
    <3>2. ASSUME NEW k
          PROVE  Times(s.out, k) = Times(SubSeq(main, 1, s.m), k) + Times(SubSeq(over, 1, s.o), k)
      <4>1. Times(<<>>, k) = 0
        BY NoneTimes
      <4>2. /\ Times(s.out, k) = 0
            /\ Times(SubSeq(main, 1, s.m), k) = 0 /\ Times(SubSeq(over, 1, s.o), k) = 0
        BY <2>2, <3>1, <4>1
      <4> QED  BY <4>2
    <3> QED  BY <3>2
  <2>4. s.out \in Seq(Rec) /\ 1..Len(s.out) = {}
    BY <2>2
  <2>5. s.m \in 0..Len(main) /\ s.o \in 0..Len(over) /\ s.m + s.o = 0
    BY <2>2
  <2>6. Merging(main, over, 0, s)
    BY <2>2, <2>3, <2>4, <2>5 DEF Merging, InOrder
  <2> QED  BY <1>1, <2>1, <2>6
<1>3. ASSUME NEW n \in 1..N, n - 1 \in G PROVE n \in G
  <2>1. Merging(main, over, n - 1, f[n - 1])
    BY <1>1, <1>3
  <2>2. PICK i \in Nat : i = n - 1 /\ i + 1 = n /\ i < N /\ n \in 0..N
    OBVIOUS
  <2>3. PICK s : s = f[n - 1]
    OBVIOUS
  <2>4. Merging(main, over, i, s) /\ i < Len(main) + Len(over)
    BY <2>1, <2>2, <2>3
  <2>5. Merging(main, over, i + 1, Yield(main, over, s))
    BY <2>4, YieldKeeps
  <2>6. f[n] = Yield(main, over, s)
    BY <2>1, <2>3
  <2> QED  BY <1>1, <2>2, <2>5, <2>6
<1>4. \A n \in 0..N : n \in G
  BY <1>2, <1>3, EveryRound
<1> QED  BY <1>1, <1>4

MergeStates == [m : Nat, o : Nat, out : Seq(Rec)]

LEMMA MergeLoop ==
  ASSUME Parameters, NEW main \in Seq(Rec), NEW over \in Seq(Rec)
  PROVE  \E s : /\ Merging(main, over, Len(main) + Len(over), s)
                /\ MergedRecords(main, over) = s.out
<1>1. PICK N \in Nat : N = Len(main) + Len(over)
  OBVIOUS
<1>2. PICK step : step = [n \in 1..N |-> [s \in MergeStates |->
                            IF Yield(main, over, s) \in MergeStates THEN Yield(main, over, s) ELSE s]]
  OBVIOUS
<1>3. step \in [1..N -> [MergeStates -> MergeStates]]
  BY <1>2
<1>4. NothingYet \in MergeStates
  BY DEF NothingYet, MergeStates
<1>5. PICK g : Loops(g, N, MergeStates, NothingYet, step)
  BY <1>3, <1>4, LoopRuns
<1>6. g \in [0..N -> MergeStates] /\ g[0] = NothingYet /\ \A n \in 1..N : g[n] = step[n][g[n - 1]]
  BY <1>5 DEF Loops
<1>7. ASSUME NEW n \in 1..N, Merging(main, over, n - 1, g[n - 1])
      PROVE  g[n] = Yield(main, over, g[n - 1])
  <2>1. PICK s : s = g[n - 1]
    OBVIOUS
  <2>2. PICK i \in Nat : i = n - 1 /\ i < Len(main) + Len(over) /\ i \in 0..N
    BY <1>1
  <2>3. s \in MergeStates /\ g[n] = step[n][s]
    BY <1>6, <2>1, <2>2
  <2>4. Merging(main, over, i + 1, Yield(main, over, s))
    BY <1>7, <2>1, <2>2, YieldKeeps
  <2>5. PICK t : t = Yield(main, over, s)
    OBVIOUS
  <2>6. t = [m |-> t.m, o |-> t.o, out |-> t.out] /\ t.m \in Nat /\ t.o \in Nat /\ t.out \in Seq(Rec)
    BY <2>4, <2>5 DEF Merging
  <2>7. t \in MergeStates
    BY <2>6 DEF MergeStates
  <2> QED  BY <1>2, <2>1, <2>3, <2>5, <2>7
<1>8. \A n \in 0..N : Merging(main, over, n, g[n])
  BY <1>1, <1>6, <1>7, MergingRounds
<1>9. g = [n \in 0..N |-> IF n = 0 THEN NothingYet ELSE Yield(main, over, g[n - 1])]
  <2>1. \A n \in 0..N : n = 0 \/ n \in 1..N
    OBVIOUS
  <2>2. \A n \in 1..N : n - 1 \in 0..N
    OBVIOUS
  <2>3. \A n \in 1..N : g[n] = Yield(main, over, g[n - 1])
    BY <1>7, <1>8, <2>2
  <2>4. \A n \in 0..N : g[n] = IF n = 0 THEN NothingYet ELSE Yield(main, over, g[n - 1])
    BY <1>6, <2>1, <2>3
  <2> QED  BY <1>6, <2>4
<1> DEFINE chosen == CHOOSE after : after = [n \in 0..N |-> IF n = 0 THEN NothingYet
                                                            ELSE Yield(main, over, after[n - 1])]
<1>10. MergedRecords(main, over) = chosen[N].out
  BY <1>1 DEF MergedRecords
<1>11. chosen = [n \in 0..N |-> IF n = 0 THEN NothingYet ELSE Yield(main, over, chosen[n - 1])]
  BY <1>9
<1> HIDE DEF chosen
<1>12. chosen[0] = NothingYet /\ \A n \in 1..N : chosen[n] = Yield(main, over, chosen[n - 1])
  <2>1. 0 \in 0..N /\ \A n \in 1..N : n \in 0..N /\ n # 0
    OBVIOUS
  <2> QED  BY <1>11, <2>1
<1>13. \A n \in 0..N : Merging(main, over, n, chosen[n])
  BY <1>1, <1>12, MergingRounds
<1>14. N \in 0..N
  OBVIOUS
<1> QED  BY <1>1, <1>10, <1>13, <1>14

(* The merge gives out every record of both, in order if both are. *)
LEMMA MergedIsMerged ==
  ASSUME Parameters, NEW main \in Seq(Rec), NEW over \in Seq(Rec)
  PROVE  /\ MergedRecords(main, over) \in Seq(Rec)
         /\ \A k : Times(MergedRecords(main, over), k) = Times(main, k) + Times(over, k)
         /\ InOrder(main) /\ InOrder(over) => InOrder(MergedRecords(main, over))
<1>1. PICK s : /\ Merging(main, over, Len(main) + Len(over), s)
               /\ MergedRecords(main, over) = s.out
  BY MergeLoop
<1>2. s.m = Len(main) /\ s.o = Len(over)
  <2>1. s.m \in 0..Len(main) /\ s.o \in 0..Len(over) /\ s.m + s.o = Len(main) + Len(over)
    BY <1>1 DEF Merging
  <2> QED  BY <2>1
<1>3. SubSeq(main, 1, s.m) = main /\ SubSeq(over, 1, s.o) = over
  BY <1>2, FirstRecords
<1>4. /\ s.out \in Seq(Rec)
      /\ \A k : Times(s.out, k) = Times(SubSeq(main, 1, s.m), k) + Times(SubSeq(over, 1, s.o), k)
      /\ InOrder(main) /\ InOrder(over) => InOrder(s.out)
  BY <1>1 DEF Merging
<1> QED  BY <1>1, <1>3, <1>4

-----------------------------------------------------------------------------
(* Laying out records in pages.                                            *)

LEMMA Products ==
  ASSUME NEW d \in Nat \ {0}, NEW m \in Nat, NEW n \in Nat
  PROVE  /\ m * d \in Nat /\ (m + 1) * d = m * d + d
         /\ m < n => m * d + d <= n * d
         /\ m <= n => m * d <= n * d
<1>1. m * d \in Nat /\ n * d \in Nat /\ (m + 1) * d = m * d + d
  OBVIOUS
<1>2. ASSUME m < n PROVE m * d + d <= n * d
  <2>1. PICK e \in Nat : e = n - (m + 1)
    BY <1>2
  <2>2. n = (m + 1) + e
    BY <2>1
  <2>3. n * d = (m + 1) * d + e * d /\ e * d \in Nat
    BY <2>2
  <2>4. PICK x \in Nat, y \in Nat, z \in Nat : x = m * d /\ y = n * d /\ z = e * d
    BY <1>1, <2>3
  <2>5. y = (x + d) + z
    BY <1>1, <2>3, <2>4
  <2>6. x + d <= y
    BY <2>5
  <2> QED  BY <2>4, <2>6
<1>3. ASSUME m <= n PROVE m * d <= n * d
  <2>1. CASE m = n
    BY <1>1, <2>1
  <2>2. CASE m < n
    <3>1. PICK x \in Nat, y \in Nat : x = m * d /\ y = n * d
      BY <1>1
    <3>2. x + d <= y
      BY <1>2, <2>2, <3>1
    <3> QED  BY <3>1, <3>2
  <2> QED  BY <1>3, <2>1, <2>2
<1> QED  BY <1>1, <1>2, <1>3

LEMMA Quotients ==
  ASSUME NEW d \in Nat \ {0}, NEW n \in Nat
  PROVE  /\ n \div d \in Nat /\ (n \div d) * d <= n /\ n < (n \div d) * d + d
<1>1. n = (n \div d) * d + (n % d) /\ n % d \in 0..(d - 1) /\ n \div d \in Nat
  OBVIOUS
<1> QED  BY <1>1

LEMMA MaxOfTwo ==
  ASSUME NEW a \in Int, NEW b \in Int
  PROVE  Max({a, b}) = IF a >= b THEN a ELSE b
<1>1. \E x \in {a, b} : \A y \in {a, b} : x >= y
  <2>1. CASE a >= b
    BY <2>1
  <2>2. CASE ~(a >= b)
    BY <2>2
  <2> QED  BY <2>1, <2>2
<1>2. Max({a, b}) \in {a, b} /\ \A y \in {a, b} : Max({a, b}) >= y
  BY <1>1 DEF Max
<1> QED  BY <1>2

LEMMA MinOfTwo ==
  ASSUME NEW a \in Int, NEW b \in Int
  PROVE  Min({a, b}) = IF a <= b THEN a ELSE b
<1>1. \E x \in {a, b} : \A y \in {a, b} : x <= y
  <2>1. CASE a <= b
    BY <2>1
  <2>2. CASE ~(a <= b)
    BY <2>2
  <2> QED  BY <2>1, <2>2
<1>2. Min({a, b}) \in {a, b} /\ \A y \in {a, b} : Min({a, b}) <= y
  BY <1>1 DEF Min
<1> QED  BY <1>2

(* A page is filled up to three quarters, and at least with one record. *)
LEMMA FillType ==
  ASSUME Parameters
  PROVE  FillFactor \in 1..Capacity
<1>1. PICK c \in Nat \ {0} : c = Capacity
  BY DEF Parameters
<1>2. PICK q : q = (c * 3) \div 4
  OBVIOUS
<1>3. q \in Nat /\ q <= c
  BY <1>2
<1>4. FillFactor = IF 1 >= q THEN 1 ELSE q
  BY <1>1, <1>2, <1>3, MaxOfTwo DEF FillFactor
<1> QED  BY <1>1, <1>3, <1>4

(* A page of an area that is laid out with `fill` records in each page: page p
   has the records after the first p * fill ones.                          *)
PageOf(r, fill, last, p, node) ==
  /\ node = [id |-> p, records |-> node.records] /\ node.records \in Seq(Rec)
  /\ Len(node.records) <= fill
  /\ \A j \in 1..Len(node.records) : p * fill + j \in 1..Len(r) /\ node.records[j] = r[p * fill + j]
  /\ \A j \in 1..fill : p * fill + j <= Len(r) => j \in 1..Len(node.records)
  /\ last # 0 => node.records # <<>>

LEMMA PagedShape ==
  ASSUME NEW r \in Seq(Rec), NEW fill \in Nat \ {0}
  PROVE  \E P \in Nat :
           /\ Paged(r, fill) = [p \in 0..P |-> Paged(r, fill)[p]]
           /\ \A p \in 0..P : PageOf(r, fill, P, p, Paged(r, fill)[p])
           /\ \A i \in 1..Len(r) : \E p \in 0..P : \E j \in 1..fill : i = p * fill + j
<1>1. PICK L \in Nat : L = Len(r)
  OBVIOUS
<1>2. PICK pages : pages = (L + fill - 1) \div fill
  OBVIOUS
<1>3. /\ pages \in Nat /\ pages * fill \in Nat
      /\ pages * fill <= L + fill - 1 /\ L + fill - 1 < pages * fill + fill
  <2>1. L + fill - 1 \in Nat
    OBVIOUS
  <2>2. pages \in Nat /\ pages * fill <= L + fill - 1 /\ L + fill - 1 < pages * fill + fill
    BY <1>2, <2>1, Quotients
  <2> QED  BY <2>2
<1>4. PICK P : P = IF pages = 0 THEN 0 ELSE pages - 1
  OBVIOUS
<1>5. P \in Nat /\ Max({0, pages - 1}) = P
  <2>1. Max({0, pages - 1}) = IF 0 >= pages - 1 THEN 0 ELSE pages - 1
    BY <1>3, MaxOfTwo
  <2> QED  BY <1>3, <1>4, <2>1
<1>6. /\ P * fill \in Nat /\ L <= P * fill + fill
      /\ L # 0 => P * fill < L
      /\ L = 0 => P = 0
  <2>1. CASE pages = 0
    <3>1. L = 0 /\ P = 0 /\ P * fill = 0
      BY <1>3, <1>4, <2>1
    <3> QED  BY <3>1
  <2>2. CASE pages # 0
    <3>1. P + 1 = pages /\ P \in Nat
      BY <1>3, <1>4, <2>2
    <3>2. PICK x \in Nat : x = P * fill
      BY <3>1, Products
    <3>3. pages * fill = x + fill
      BY <3>1, <3>2, Products
    <3>4. x < L /\ L <= x + fill
      BY <1>3, <3>3
    <3> QED  BY <3>2, <3>4
  <2> QED  BY <2>1, <2>2
<1>7. PICK paged : paged = Paged(r, fill)
  OBVIOUS
<1>8. paged = [p \in 0..P |-> Node(p, SubSeq(r, p * fill + 1, Min({(p + 1) * fill, L})))]
  BY <1>1, <1>2, <1>5, <1>7 DEF Paged
<1>9. ASSUME NEW p \in 0..P, NEW node, node = paged[p]
      PROVE  PageOf(r, fill, P, p, node)
  <2>0. p \in Nat /\ P \in Nat /\ p <= P
    BY <1>5
  <2>1. PICK x \in Nat : x = p * fill
    BY <2>0, Products
  <2>2. (p + 1) * fill = x + fill
    BY <2>0, <2>1, Products
  <2>3. PICK e : e = Min({x + fill, L})
    OBVIOUS
  <2>4. e = IF x + fill <= L THEN x + fill ELSE L
    BY <2>3, MinOfTwo
  <2>5. node = Node(p, SubSeq(r, x + 1, e))
    BY <1>8, <1>9, <2>1, <2>2, <2>3
  <2>6. PICK s : s = SubSeq(r, x + 1, e)
    OBVIOUS
  <2>7. node = [id |-> p, records |-> s] /\ node.records = s
    BY <2>5, <2>6 DEF Node
  <2>8. x <= e /\ e <= L /\ e <= x + fill /\ e \in Nat /\ (L # 0 => x < e)
    <3>1. PICK y \in Nat : y = P * fill
      BY <1>6
    <3>2. x <= y
      BY <2>0, <2>1, <3>1, Products
    <3>3. L <= y + fill /\ (L # 0 => y < L) /\ (L = 0 => P = 0)
      BY <1>6, <3>1
    <3>4. CASE L # 0
      BY <2>4, <3>2, <3>3, <3>4
    <3>5. CASE L = 0
      <4>1. p = 0
        BY <2>0, <3>3, <3>5
      <4>2. x = 0
        BY <2>1, <4>1
      <4> QED  BY <2>4, <3>5, <4>2
    <3> QED  BY <3>4, <3>5
  <2>9. s \in Seq(Rec) /\ Len(s) = e - x /\ \A j \in 1..(e - x) : s[j] = r[x + j]
    <3>1. s \in Seq(Rec) /\ Len(s) = e - x
      BY <1>1, <2>6, <2>8
    <3>2. \A j \in 1..(e - x) : s[j] = r[(x + 1) + j - 1]
      BY <1>1, <2>6, <2>8
    <3>3. \A j \in 1..(e - x) : (x + 1) + j - 1 = x + j
      BY <2>8
    <3> QED  BY <3>1, <3>2, <3>3
  <2>10. \A j \in 1..(e - x) : x + j \in 1..L
    BY <2>8
  <2>11. \A j \in 1..fill : x + j <= L => j \in 1..(e - x)
    BY <2>4
  <2>12. P # 0 => s # <<>>
    <3>1. P # 0 => e - x # 0
      BY <1>6, <2>8
    <3> QED  BY <2>9, <3>1
  <2>13. e - x <= fill
    BY <2>8
  <2> QED  BY <1>1, <2>1, <2>7, <2>9, <2>10, <2>11, <2>12, <2>13 DEF PageOf
<1>10. ASSUME NEW i \in 1..L PROVE \E p \in 0..P : \E j \in 1..fill : i = p * fill + j
  <2>1. PICK q : q = (i - 1) \div fill
    OBVIOUS
  <2>2. i - 1 \in Nat
    OBVIOUS
  <2>3. q \in Nat /\ q * fill <= i - 1 /\ i - 1 < q * fill + fill
    BY <2>1, <2>2, Quotients
  <2>4. PICK x \in Nat : x = q * fill
    BY <2>3, Products
  <2>5. i - x \in 1..fill /\ i = x + (i - x)
    BY <2>3, <2>4
  <2>6. q <= P
    <3>1. SUFFICES ASSUME P < q PROVE FALSE
      BY <1>5, <2>3
    <3>2. P * fill + fill <= q * fill
      BY <1>5, <2>3, <3>1, Products
    <3>3. PICK y \in Nat : y = P * fill
      BY <1>6
    <3>4. y + fill <= x /\ x <= i - 1 /\ i <= L /\ L <= y + fill
      BY <1>6, <2>3, <2>4, <3>2, <3>3
    <3> QED  BY <3>4
  <2>7. q \in 0..P
    BY <1>5, <2>3, <2>6
  <2>8. PICK j \in 1..fill : i = q * fill + j
    BY <2>4, <2>5
  <2> QED  BY <2>7, <2>8
<1>11. \A p \in 0..P : PageOf(r, fill, P, p, paged[p])
  BY <1>9
<1>12. paged = [p \in 0..P |-> paged[p]]
  BY <1>8
<1> QED  BY <1>1, <1>5, <1>7, <1>10, <1>11, <1>12

(* Records keep their places in order across pages. *)
LEMMA PlacesApart ==
  ASSUME NEW fill \in Nat \ {0}, NEW p \in Nat, NEW q \in Nat, p < q,
         NEW i \in 1..fill, NEW j \in 1..fill
  PROVE  p * fill + i \in Nat /\ q * fill + j \in Nat /\ p * fill + i < q * fill + j
<1>1. PICK x \in Nat, y \in Nat : x = p * fill /\ y = q * fill
  BY Products
<1>2. x + fill <= y
  BY <1>1, Products
<1> QED  BY <1>1, <1>2

(* Laid out in pages, records make a numbered area, in order if they are, that
   holds each of them as often.                                            *)
LEMMA PagedIsArea ==
  ASSUME Parameters, NEW r \in Seq(Rec), NEW fill \in 1..Capacity
  PROVE  /\ Paged(r, fill) \in Areas
         /\ \A p \in DOMAIN Paged(r, fill) : Paged(r, fill)[p].id = p
         /\ InOrder(r) => Ordered(Paged(r, fill))
         /\ \A k : Held(Paged(r, fill), k) = Times(r, k)
<1>0. Capacity \in Nat /\ fill \in Nat \ {0} /\ fill <= Capacity
  BY DEF Parameters
<1>1. PICK f : f = Paged(r, fill)
  OBVIOUS
<1>2. PICK P \in Nat :
        /\ f = [p \in 0..P |-> f[p]]
        /\ \A p \in 0..P : PageOf(r, fill, P, p, f[p])
        /\ \A i \in 1..Len(r) : \E p \in 0..P : \E j \in 1..fill : i = p * fill + j
  <2>1. PICK P \in Nat :
          /\ Paged(r, fill) = [p \in 0..P |-> Paged(r, fill)[p]]
          /\ \A p \in 0..P : PageOf(r, fill, P, p, Paged(r, fill)[p])
          /\ \A i \in 1..Len(r) : \E p \in 0..P : \E j \in 1..fill : i = p * fill + j
    BY <1>0, PagedShape
  <2> QED  BY <1>1, <2>1
<1>3. DOMAIN f = 0..P
  BY <1>2
<1>4. \A p \in 0..P : /\ f[p] \in PageNode /\ f[p].id = p /\ FitsAt(f[p], p)
                      /\ f[p].records \in Seq(Rec) /\ Len(f[p].records) <= fill
  <2>1. ASSUME NEW p \in 0..P, NEW node, PageOf(r, fill, P, p, node)
        PROVE  /\ node \in PageNode /\ node.id = p /\ FitsAt(node, p)
               /\ node.records \in Seq(Rec) /\ Len(node.records) <= fill
    <3>1. /\ node = [id |-> p, records |-> node.records] /\ node.records \in Seq(Rec)
          /\ Len(node.records) <= fill
      BY <2>1 DEF PageOf
    <3>2. PICK t \in Seq(Rec) : t = node.records
      BY <3>1
    <3>3. node.id = p /\ node \in PageNode
      BY <3>1 DEF PageNode
    <3>4. Len(t) <= Capacity
      BY <1>0, <3>1, <3>2
    <3> QED  BY <3>1, <3>2, <3>3, <3>4 DEF FitsAt
  <2> QED  BY <1>2, <2>1
<1>5. f \in Areas
  <2>1. f \in [0..P -> PageNode] /\ \A p \in 0..P : FitsAt(f[p], p)
    BY <1>2, <1>4
  <2> QED  BY <2>1, AreaShape
<1>6. ASSUME NEW p \in 0..P, NEW i \in 1..Len(f[p].records)
      PROVE  i \in 1..fill /\ p * fill + i \in 1..Len(r) /\ f[p].records[i] = r[p * fill + i]
  <2>1. PageOf(r, fill, P, p, f[p]) /\ f[p].records \in Seq(Rec) /\ Len(f[p].records) <= fill
    BY <1>2, <1>4
  <2> QED  BY <1>0, <2>1 DEF PageOf
<1>7. ASSUME InOrder(r) PROVE Ordered(f)
  <2>1. ASSUME NEW p \in 0..P PROVE InOrder(f[p].records)
    <3>1. f[p].records \in Seq(Rec)
      BY <1>4
    <3>2. ASSUME NEW i \in 1..Len(f[p].records), NEW j \in 1..Len(f[p].records), i < j
          PROVE  f[p].records[i].key <= f[p].records[j].key
      <4>1. PICK x \in Nat : x = p * fill
        BY <1>0, Products
      <4>2. x + i \in 1..Len(r) /\ x + j \in 1..Len(r) /\ x + i < x + j
        BY <1>6, <3>2, <4>1
      <4>3. r[x + i].key <= r[x + j].key
        BY <1>7, <4>2 DEF InOrder
      <4> QED  BY <1>6, <4>1, <4>3
    <3> QED  BY <3>2 DEF InOrder
  <2>2. ASSUME NEW p \in 0..P, NEW q \in 0..P, p < q,
               NEW i \in 1..Len(f[p].records), NEW j \in 1..Len(f[q].records)
        PROVE  f[p].records[i].key <= f[q].records[j].key
    <3>1. PICK a, b : a = p * fill + i /\ b = q * fill + j
      OBVIOUS
    <3>2. i \in 1..fill /\ a \in 1..Len(r) /\ f[p].records[i] = r[a]
      BY <1>6, <3>1
    <3>3. j \in 1..fill /\ b \in 1..Len(r) /\ f[q].records[j] = r[b]
      BY <1>6, <3>1
    <3>4. a < b
      <4>1. p \in Nat /\ q \in Nat
        OBVIOUS
      <4>2. p * fill + i < q * fill + j
        BY <1>0, <2>2, <3>2, <3>3, <4>1, PlacesApart
      <4> QED  BY <3>1, <4>2
    <3>5. r[a].key <= r[b].key
      BY <1>7, <3>2, <3>3, <3>4 DEF InOrder
    <3> QED  BY <3>2, <3>3, <3>5
  <2>3. ASSUME NEW p \in 0..P PROVE f[p].records # <<>> \/ Count(f) = 1
    <3>1. P # 0 => f[p].records # <<>>
      BY <1>2 DEF PageOf
    <3>2. Count(f) = P + 1
      BY <1>3, FS_Interval DEF Count
    <3> QED  BY <3>1, <3>2
  <2> QED  BY <1>3, <2>1, <2>2, <2>3 DEF Ordered
<1>8. ASSUME NEW k PROVE Held(f, k) = Times(r, k)
  <2>1. PICK S : S = PlacesOf(f, k)
    OBVIOUS
  <2>2. IsFiniteSet(S)
    BY <1>5, <2>1, PlacesFinite
  <2>3. ASSUME NEW x \in S
        PROVE  /\ x = <<x[1], x[2]>> /\ x[1] \in 0..P /\ x[2] \in 1..fill
               /\ x[1] * fill + x[2] \in At(r, k)
    <3>1. x \in Places(f) /\ RecordAt(f, x).key = k
      BY <2>1 DEF PlacesOf
    <3>2. x = <<x[1], x[2]>> /\ x[1] \in 0..P /\ x[2] \in 1..Len(f[x[1]].records)
      BY <1>3, <1>5, <3>1, PlaceShape
    <3>3. /\ x[2] \in 1..fill /\ x[1] * fill + x[2] \in 1..Len(r)
          /\ f[x[1]].records[x[2]] = r[x[1] * fill + x[2]]
      BY <1>6, <3>2
    <3> QED  BY <3>1, <3>2, <3>3 DEF At, RecordAt
  <2>4. PICK g : g = [x \in S |-> x[1] * fill + x[2]]
    OBVIOUS
  <2>5. g \in [S -> At(r, k)]
    BY <2>3, <2>4
  <2>6. ASSUME NEW x \in S, NEW y \in S, g[x] = g[y] PROVE x = y
    <3>1. PICK a \in Nat, b \in Nat, i \in 1..fill, j \in 1..fill : x = <<a, i>> /\ y = <<b, j>>
      <4>1. x[1] \in Nat /\ y[1] \in Nat
        BY <2>3
      <4> QED  BY <2>3, <4>1
    <3>2. a * fill + i = b * fill + j
      BY <2>4, <2>6, <3>1
    <3>3. ~(a < b) /\ ~(b < a)
      <4>1. a < b => a * fill + i < b * fill + j /\ a * fill + i \in Nat
        BY <1>0, PlacesApart
      <4>2. b < a => b * fill + j < a * fill + i /\ b * fill + j \in Nat
        BY <1>0, PlacesApart
      <4> QED  BY <3>2, <4>1, <4>2
    <3>4. a = b
      BY <3>3
    <3>5. PICK z \in Nat : z = a * fill
      BY <1>0, Products
    <3>6. z + i = z + j
      BY <3>2, <3>4, <3>5
    <3>7. i = j
      BY <3>6
    <3> QED  BY <3>1, <3>4, <3>7
  <2>7. ASSUME NEW t \in At(r, k) PROVE \E x \in S : g[x] = t
    <3>1. t \in 1..Len(r) /\ r[t].key = k
      BY DEF At
    <3>2. PICK p \in 0..P : \E j \in 1..fill : t = p * fill + j
      BY <1>2, <3>1
    <3>3. PICK j \in 1..fill : t = p * fill + j
      BY <3>2
    <3>4. PageOf(r, fill, P, p, f[p])
      BY <1>2
    <3>5. j \in 1..Len(f[p].records)
      <4>1. t <= Len(r)
        BY <3>1
      <4> QED  BY <3>3, <3>4, <4>1 DEF PageOf
    <3>6. f[p].records[j] = r[t]
      BY <1>6, <3>3, <3>5
    <3>7. <<p, j>> \in Places(f) /\ RecordAt(f, <<p, j>>) = f[p].records[j]
      BY <1>3, <1>5, <3>5, PlaceShape
    <3>8. <<p, j>> \in S
      BY <2>1, <3>1, <3>6, <3>7 DEF PlacesOf
    <3>9. g[<<p, j>>] = t
      BY <2>4, <3>3, <3>8
    <3> QED  BY <3>8, <3>9
  <2>8. Cardinality(At(r, k)) = Cardinality(S)
    BY <2>2, <2>5, <2>6, <2>7, SameSize
  <2> QED  BY <2>1, <2>8 DEF Held, Times
<1> QED  BY <1>1, <1>3, <1>4, <1>5, <1>7, <1>8

-----------------------------------------------------------------------------
(* The disk.                                                               *)

Numbered(f)       == \A p \in DOMAIN f : f[p].id = p
AlmostNumbered(f) == \A p \in DOMAIN f : p < Count(f) - 1 => f[p].id = p

MainAreas == {f \in Areas : Numbered(f) /\ Ordered(f)}
Disks     == [main : MainAreas, over : Areas]

InDisk(d, k) == Held(d.main, k) + Held(d.over, k)

(* What a reorganization lays out: the records of both areas in order. *)
LEMMA MergedShape ==
  ASSUME Parameters, disk \in Disks
  PROVE  /\ Merged \in Seq(Rec) /\ InOrder(Merged)
         /\ \A k : Times(Merged, k) = InDisk(disk, k)
         /\ \A i \in 1..Len(Merged) : Merged[i].next = Nowhere
<1>1. PICK f \in Areas, g \in Areas : f = disk.main /\ g = disk.over
  BY DEF Disks, MainAreas
<1>2. Ordered(f)
  BY <1>1 DEF Disks, MainAreas
<1>3. PICK s \in Seq(Rec), t \in Seq(Rec) : s = RecordsOf(f) /\ t = Sorted(RecordsOf(g))
  <2>1. RecordsOf(f) \in Seq(Rec) /\ RecordsOf(g) \in Seq(Rec)
    BY ReadTimes
  <2>2. Sorted(RecordsOf(g)) \in Seq(Rec)
    BY <2>1, SortedIsSorted
  <2> QED  BY <2>1, <2>2
<1>4. \A k : Times(s, k) = Held(f, k)
  BY <1>3, ReadTimes
<1>5. InOrder(t) /\ \A k : Times(t, k) = Held(g, k)
  <2>1. RecordsOf(g) \in Seq(Rec) /\ \A k : Times(RecordsOf(g), k) = Held(g, k)
    BY ReadTimes
  <2>2. InOrder(Sorted(RecordsOf(g))) /\ \A k : Times(Sorted(RecordsOf(g)), k) = Times(RecordsOf(g), k)
    BY <2>1, SortedIsSorted
  <2> QED  BY <1>3, <2>1, <2>2
<1>6. InOrder(s)
  BY <1>2, <1>3, ReadInOrder
<1>7. PICK all : all = MergedRecords(s, t)
  OBVIOUS
<1>8. all \in Seq(Rec) /\ InOrder(all) /\ \A k : Times(all, k) = Times(s, k) + Times(t, k)
  BY <1>5, <1>6, <1>7, MergedIsMerged
<1>9. PICK n \in Nat : n = Len(all) /\ DOMAIN all = 1..n
  BY <1>8
<1>10. PICK m : m = Merged
  OBVIOUS
<1>11. m = [i \in 1..n |-> Record(all[i].key, Nowhere)]
  BY <1>1, <1>3, <1>7, <1>9, <1>10 DEF Merged
<1>12. \A i \in 1..n : m[i] \in Rec /\ m[i].key = all[i].key /\ m[i].next = Nowhere
  <2>1. ASSUME NEW i \in 1..n
        PROVE  /\ Record(all[i].key, Nowhere) \in Rec /\ Record(all[i].key, Nowhere).key = all[i].key
               /\ Record(all[i].key, Nowhere).next = Nowhere
    <3>1. all[i] \in Rec
      BY <1>8, <1>9
    <3> QED  BY <3>1 DEF Rec, Record, Nowhere
  <2> QED  BY <1>11, <2>1
<1>13. m \in Seq(Rec) /\ Len(m) = n
  BY <1>11, <1>12
<1>14. InOrder(m)
  BY <1>8, <1>9, <1>12, <1>13 DEF InOrder
<1>15. \A k : Times(m, k) = Times(all, k)
  BY <1>9, <1>12, <1>13, TimesOfKeys
<1>16. \A i \in 1..Len(m) : m[i].next = Nowhere
  BY <1>12, <1>13
<1>17. \A k : Times(m, k) = InDisk(disk, k)
  BY <1>1, <1>4, <1>5, <1>8, <1>15 DEF InDisk
<1> QED  BY <1>10, <1>13, <1>14, <1>16, <1>17

-----------------------------------------------------------------------------
(* The halving.                                                            *)

StartsBy(f, p, k) == f[p].records # <<>> /\ f[p].records[1].key <= k

SearchStates == [l : Int, r : Int, found : Int]

(* After n passes: the page found starts by k, or is the first, and no page
   past r does; the pages left are that many fewer.                        *)
Halving(f, k, n, s) ==
  /\ s \in SearchStates
  /\ 0 <= s.l /\ s.l <= s.r + 1 /\ s.r <= Count(f) - 1
  /\ \/ s.found = 0 /\ s.l = 0
     \/ s.found = s.l - 1 /\ s.found \in DOMAIN f /\ StartsBy(f, s.found, k)
  /\ \A p \in DOMAIN f : p > s.r => ~StartsBy(f, p, k)
  /\ s.r - s.l + 1 <= Count(f) - n \/ s.l > s.r

(* In an area in order, no page after one that starts above k starts by it. *)
LEMMA LaterPages ==
  ASSUME Parameters, NEW f \in MainAreas, NEW k \in Keys,
         NEW p \in DOMAIN f, ~StartsBy(f, p, k), NEW q \in DOMAIN f, p <= q
  PROVE  ~StartsBy(f, q, k)
<1>1. f \in Areas /\ Ordered(f)
  BY DEF MainAreas
<1>2. CASE p = q
  BY <1>2
<1>3. CASE p # q
  <2>1. PICK N \in Nat : N = Count(f) /\ DOMAIN f = 0..(N - 1)
    BY <1>1, AreaSize
  <2>2. N # 1 /\ p < q
    BY <1>3, <2>1
  <2>3. PICK s \in Seq(Rec), t \in Seq(Rec) : s = f[p].records /\ t = f[q].records
    BY <1>1, AreaSize DEF PageNode
  <2>4. s # <<>> /\ t # <<>>
    BY <1>1, <2>1, <2>2, <2>3 DEF Ordered
  <2>5. 1 \in 1..Len(s) /\ 1 \in 1..Len(t)
    BY <2>4
  <2>6. s[1].key <= t[1].key
    BY <1>1, <2>2, <2>3, <2>5 DEF Ordered
  <2>7. s[1].key \in Int /\ t[1].key \in Int /\ k \in Int
    BY <2>5, KeysOrdered DEF Parameters
  <2>8. ~(s[1].key <= k)
    BY <2>3, <2>4 DEF StartsBy
  <2> QED  BY <2>3, <2>6, <2>7, <2>8 DEF StartsBy
<1> QED  BY <1>2, <1>3

LEMMA PassHalves ==
  ASSUME Parameters, disk.main \in MainAreas, NEW k \in Keys,
         NEW n \in Nat, NEW s, Halving(disk.main, k, n, s)
  PROVE  Halving(disk.main, k, n + 1, Pass(k, s))
<1>1. PICK f : f = disk.main
  OBVIOUS
<1>2. f \in MainAreas /\ f \in Areas
  BY <1>1 DEF MainAreas
<1>3. PICK N \in Nat : N = Count(f) /\ DOMAIN f = 0..(N - 1)
  BY <1>2, AreaSize
<1>4. PICK l \in Int, r \in Int, found \in Int : l = s.l /\ r = s.r /\ found = s.found
  BY DEF Halving, SearchStates
<1>5. /\ 0 <= l /\ l <= r + 1 /\ r <= N - 1
      /\ \/ found = 0 /\ l = 0
         \/ found = l - 1 /\ found \in 0..(N - 1) /\ StartsBy(f, found, k)
      /\ \A p \in 0..(N - 1) : p > r => ~StartsBy(f, p, k)
      /\ r - l + 1 <= N - n \/ l > r
  BY <1>1, <1>3, <1>4 DEF Halving
<1>6. CASE l > r
  <2>1. Pass(k, s) = s
    BY <1>4, <1>6 DEF Pass
  <2> QED  BY <1>4, <1>6, <2>1 DEF Halving
<1>7. CASE ~(l > r)
  <2>1. PICK mid : mid = (l + r) \div 2
    OBVIOUS
  <2>2. mid \in Int /\ l <= mid /\ mid <= r /\ mid \in 0..(N - 1)
    BY <1>5, <1>7, <2>1
  <2>3. CASE StartsBy(f, mid, k)
    <3>1. PICK t : t = [l |-> mid + 1, r |-> r, found |-> mid]
      OBVIOUS
    <3>2. Pass(k, s) = t
      BY <1>1, <1>4, <1>7, <2>1, <2>3, <3>1 DEF Pass, StartsBy
    <3>3. t.l = mid + 1 /\ t.r = r /\ t.found = mid /\ t \in SearchStates
      BY <2>2, <3>1 DEF SearchStates
    <3>4. 0 <= t.l /\ t.l <= t.r + 1 /\ t.r <= N - 1 /\ t.found = t.l - 1
      BY <1>5, <2>2, <3>3
    <3>5. t.r - t.l + 1 <= N - (n + 1)
      BY <1>5, <1>7, <2>2, <3>3
    <3>6. \A p \in 0..(N - 1) : p > t.r => ~StartsBy(f, p, k)
      BY <1>5, <3>3
    <3>7. t.found \in 0..(N - 1) /\ StartsBy(f, t.found, k)
      BY <2>2, <2>3, <3>3
    <3> QED  BY <1>1, <1>3, <3>2, <3>3, <3>4, <3>5, <3>6, <3>7 DEF Halving
  <2>4. CASE ~StartsBy(f, mid, k)
    <3>1. PICK t : t = [l |-> l, r |-> mid - 1, found |-> found]
      OBVIOUS
    <3>2. Pass(k, s) = t
      BY <1>1, <1>4, <1>7, <2>1, <2>4, <3>1 DEF Pass, StartsBy
    <3>3. t.l = l /\ t.r = mid - 1 /\ t.found = found /\ t \in SearchStates
      BY <2>2, <3>1 DEF SearchStates
    <3>4. 0 <= t.l /\ t.l <= t.r + 1 /\ t.r <= N - 1
      BY <1>5, <2>2, <3>3
    <3>5. t.r - t.l + 1 <= N - (n + 1)
      BY <1>5, <1>7, <2>2, <3>3
    <3>6. \A p \in 0..(N - 1) : p > t.r => ~StartsBy(f, p, k)
      <4>1. \A p \in 0..(N - 1) : p > t.r => mid <= p
        BY <2>2, <3>3
      <4> QED  BY <1>2, <1>3, <2>2, <2>4, <4>1, LaterPages
    <3> QED  BY <1>1, <1>3, <1>5, <3>2, <3>3, <3>4, <3>5, <3>6 DEF Halving
  <2> QED  BY <2>3, <2>4
<1> QED  BY <1>6, <1>7

LEMMA HalvingRounds ==
  ASSUME Parameters, disk.main \in MainAreas, NEW k \in Keys, NEW N \in Nat, NEW f,
         Halving(disk.main, k, 0, f[0]), \A n \in 1..N : f[n] = Pass(k, f[n - 1])
  PROVE  Halving(disk.main, k, N, f[N])
<1>1. PICK G : G = {n \in 0..N : Halving(disk.main, k, n, f[n])}
  OBVIOUS
<1>2. 0 \in G
  BY <1>1
<1>3. ASSUME NEW n \in 1..N, n - 1 \in G PROVE n \in G
  <2>1. PICK i \in Nat : i = n - 1 /\ i + 1 = n /\ n \in 0..N
    OBVIOUS
  <2>2. PICK s : s = f[n - 1]
    OBVIOUS
  <2>3. Halving(disk.main, k, i, s) /\ f[n] = Pass(k, s)
    BY <1>1, <1>3, <2>1, <2>2
  <2>4. Halving(disk.main, k, i + 1, Pass(k, s))
    BY <2>3, PassHalves
  <2> QED  BY <1>1, <2>1, <2>3, <2>4
<1>4. \A n \in 0..N : n \in G
  BY <1>2, <1>3, EveryRound
<1>5. N \in G
  BY <1>4
<1> QED  BY <1>1, <1>5

(* The page for a key starts by it, or is the first; no later page does. *)
LEMMA PageFound ==
  ASSUME Parameters, disk.main \in MainAreas, NEW k \in Keys
  PROVE  /\ BinarySearchPage(k) \in DOMAIN disk.main
         /\ BinarySearchPage(k) = 0 \/ StartsBy(disk.main, BinarySearchPage(k), k)
         /\ \A q \in DOMAIN disk.main : BinarySearchPage(k) < q => ~StartsBy(disk.main, q, k)
<1>1. disk.main \in Areas
  BY DEF MainAreas
<1>2. PICK N \in Nat \ {0} : N = Count(disk.main) /\ DOMAIN disk.main = 0..(N - 1)
  BY <1>1, AreaSize
<1>3. PICK b : b = [l |-> 0, r |-> N - 1, found |-> 0]
  OBVIOUS
<1>4. b \in SearchStates /\ b.l = 0 /\ b.r = N - 1 /\ b.found = 0
  BY <1>3 DEF SearchStates
<1>5. Halving(disk.main, k, 0, b)
  <2>1. b.l <= b.r + 1 /\ b.r - b.l + 1 <= N - 0 /\ \A p \in 0..(N - 1) : ~(p > b.r)
    BY <1>4
  <2> QED  BY <1>2, <1>4, <2>1 DEF Halving
<1>6. PICK step : step = [n \in 1..N |-> [s \in SearchStates |-> Pass(k, s)]]
  OBVIOUS
<1>7. step \in [1..N -> [SearchStates -> SearchStates]]
  <2>1. ASSUME NEW s \in SearchStates PROVE Pass(k, s) \in SearchStates
    <3>1. PICK mid : mid = (s.l + s.r) \div 2
      OBVIOUS
    <3>2. mid \in Int /\ mid + 1 \in Int /\ mid - 1 \in Int
      BY <3>1 DEF SearchStates
    <3>3. \/ Pass(k, s) = s
          \/ Pass(k, s) = [l |-> mid + 1, r |-> s.r, found |-> mid]
          \/ Pass(k, s) = [l |-> s.l, r |-> mid - 1, found |-> s.found]
      BY <3>1 DEF Pass
    <3> QED  BY <3>2, <3>3 DEF SearchStates
  <2> QED  BY <1>6, <2>1
<1>8. PICK g : Loops(g, N, SearchStates, b, step)
  BY <1>4, <1>7, LoopRuns
<1>9. g \in [0..N -> SearchStates] /\ g[0] = b /\ \A n \in 1..N : g[n] = Pass(k, g[n - 1])
  <2>1. g \in [0..N -> SearchStates] /\ g[0] = b /\ \A n \in 1..N : g[n] = step[n][g[n - 1]]
    BY <1>8 DEF Loops
  <2>2. \A n \in 1..N : n - 1 \in 0..N
    OBVIOUS
  <2> QED  BY <1>6, <2>1, <2>2
<1>10. g = [n \in 0..N |-> IF n = 0 THEN b ELSE Pass(k, g[n - 1])]
  <2>1. \A n \in 0..N : n = 0 \/ n \in 1..N
    OBVIOUS
  <2>2. \A n \in 0..N : g[n] = IF n = 0 THEN b ELSE Pass(k, g[n - 1])
    BY <1>9, <2>1
  <2> QED  BY <1>9, <2>2
<1> DEFINE chosen == CHOOSE after : after = [n \in 0..N |-> IF n = 0 THEN b
                                                            ELSE Pass(k, after[n - 1])]
<1>11. BinarySearchPage(k) = chosen[N].found
  BY <1>2, <1>3 DEF BinarySearchPage
<1>12. chosen = [n \in 0..N |-> IF n = 0 THEN b ELSE Pass(k, chosen[n - 1])]
  BY <1>10
<1> HIDE DEF chosen
<1>13. chosen[0] = b /\ \A n \in 1..N : chosen[n] = Pass(k, chosen[n - 1])
  <2>1. 0 \in 0..N /\ \A n \in 1..N : n \in 0..N /\ n # 0
    OBVIOUS
  <2> QED  BY <1>12, <2>1
<1>14. Halving(disk.main, k, N, chosen[N])
  BY <1>5, <1>13, HalvingRounds
<1>15. PICK l \in Int, r \in Int, found \in Int :
         l = chosen[N].l /\ r = chosen[N].r /\ found = chosen[N].found
  BY <1>14 DEF Halving, SearchStates
<1>16. /\ 0 <= l /\ l <= r + 1
       /\ \/ found = 0 /\ l = 0
          \/ found = l - 1 /\ found \in 0..(N - 1) /\ StartsBy(disk.main, found, k)
       /\ \A p \in 0..(N - 1) : p > r => ~StartsBy(disk.main, p, k)
       /\ r - l + 1 <= N - N \/ l > r
  BY <1>2, <1>14, <1>15 DEF Halving
<1>17. l = r + 1
  BY <1>16
<1>18. found \in 0..(N - 1) /\ found >= r
  BY <1>16, <1>17
<1> QED  BY <1>2, <1>11, <1>15, <1>16, <1>18

-----------------------------------------------------------------------------
(* The writes of an insert.                                                *)

(* The main area with the record where it belongs in the page found. *)
LEMMA RoomInPage ==
  ASSUME Parameters, disk \in Disks, NEW k \in Keys, NEW p, p = BinarySearchPage(k),
         ~Full(disk.main[p].records), NEW g,
         g = Put(disk.main, Node(disk.main[p].id, Placed(disk.main[p].records, Record(k, Nowhere))))
  PROVE  /\ g \in MainAreas /\ \A m : Held(g, m) = Held(disk.main, m) + One(m, k)
         /\ Changed(disk.main, g, p, Node(p, Placed(disk.main[p].records, Record(k, Nowhere))))
<1>1. PICK f : f = disk.main /\ f \in MainAreas /\ f \in Areas /\ Numbered(f) /\ Ordered(f)
  BY DEF Disks, MainAreas
<1>2. PICK N \in Nat \ {0} : N = Count(f) /\ DOMAIN f = 0..(N - 1)
  BY <1>1, AreaSize
<1>3. /\ p \in DOMAIN f
      /\ p = 0 \/ StartsBy(f, p, k)
      /\ \A q \in DOMAIN f : p < q => ~StartsBy(f, q, k)
  BY <1>1, PageFound
<1>4. PICK s \in Seq(Rec), r \in Rec : s = f[p].records /\ r = Record(k, Nowhere)
  <2>1. f[p].records \in Seq(Rec)
    BY <1>1, <1>3, AreaSize DEF PageNode
  <2>2. Record(k, Nowhere) \in Rec
    BY DEF Record, Rec, Nowhere
  <2> QED  BY <2>1, <2>2
<1>5. r.key = k
  BY <1>4 DEF Record
<1>6. PICK t : t = Placed(s, r)
  OBVIOUS
<1>7. /\ t \in Seq(Rec) /\ Len(t) = Len(s) + 1
      /\ \A m : Times(t, m) = Times(s, m) + One(m, k)
      /\ InOrder(s) => InOrder(t)
      /\ \A i \in 1..Len(t) : t[i] = r \/ \E j \in 1..Len(s) : t[i] = s[j]
  BY <1>5, <1>6, PlacedInOrder, ZenonT(40)
<1>8. PICK node : node = Node(p, t)
  OBVIOUS
<1>9. node \in PageNode /\ node.id = p /\ node.records = t
  <2>1. p \in Nat
    BY <1>2, <1>3
  <2> QED  BY <1>7, <1>8, <2>1 DEF Node, PageNode
<1>10. FitsAt(node, p)
  <2>1. Len(t) <= Capacity
    BY <1>1, <1>4, <1>7 DEF Full, Parameters
  <2> QED  BY <1>9, <2>1 DEF FitsAt
<1>11. Changed(f, g, p, node)
  <2>1. g = Put(f, node)
    BY <1>1, <1>3, <1>4, <1>6, <1>8 DEF Numbered
  <2> QED  BY <1>1, <1>3, <1>9, <1>10, <2>1, PutShape
<1>12. g \in Areas /\ DOMAIN g = DOMAIN f /\ Count(g) = N /\ g[p] = node /\ SameBut(f, g, p)
  BY <1>2, <1>11 DEF Changed
<1>13. Numbered(g)
  BY <1>1, <1>9, <1>12 DEF Numbered, SameBut
<1>14. Ordered(g)
  <2>1. ASSUME NEW q \in DOMAIN f PROVE InOrder(g[q].records)
    BY <1>1, <1>3, <1>4, <1>7, <1>9, <1>12 DEF Ordered, SameBut
  <2>2. ASSUME NEW q \in DOMAIN f, q < p, NEW i \in 1..Len(f[q].records), NEW j \in 1..Len(t)
        PROVE  f[q].records[i].key <= t[j].key
    <3>1. CASE t[j] = r
      <4>1. StartsBy(f, p, k)
        BY <1>2, <1>3, <2>2
      <4>2. 1 \in 1..Len(s) /\ s[1].key <= k
        BY <1>4, <4>1 DEF StartsBy
      <4>3. f[q].records[i].key <= s[1].key
        BY <1>1, <1>3, <1>4, <2>2, <4>2 DEF Ordered
      <4>4. f[q].records[i].key \in Int /\ s[1].key \in Int /\ k \in Int
        <5>1. f[q].records \in Seq(Rec)
          BY <1>1, AreaSize DEF PageNode
        <5> QED  BY <4>2, <5>1, KeysOrdered DEF Parameters
      <4> QED  BY <1>5, <3>1, <4>2, <4>3, <4>4
    <3>2. ASSUME NEW h \in 1..Len(s), t[j] = s[h] PROVE f[q].records[i].key <= t[j].key
      BY <1>1, <1>3, <1>4, <2>2, <3>2 DEF Ordered
    <3> QED  BY <1>7, <3>1, <3>2
  <2>3. ASSUME NEW q \in DOMAIN f, p < q, NEW i \in 1..Len(t), NEW j \in 1..Len(f[q].records)
        PROVE  t[i].key <= f[q].records[j].key
    <3>1. CASE t[i] = r
      <4>1. PICK u \in Seq(Rec) : u = f[q].records
        BY <1>1, AreaSize DEF PageNode
      <4>2. u # <<>> /\ 1 \in 1..Len(u) /\ j \in 1..Len(u)
        BY <4>1
      <4>3. ~(u[1].key <= k)
        BY <1>3, <2>3, <4>1, <4>2 DEF StartsBy
      <4>4. u[1].key <= u[j].key
        <5>1. CASE j = 1
          BY <4>2, <5>1, KeysOrdered
        <5>2. CASE j # 1
          <6>1. InOrder(u) /\ 1 < j
            BY <1>1, <4>1, <5>2 DEF Ordered
          <6> QED  BY <4>2, <6>1 DEF InOrder
        <5> QED  BY <5>1, <5>2
      <4>5. u[1].key \in Int /\ u[j].key \in Int /\ k \in Int
        BY <4>2, KeysOrdered DEF Parameters
      <4> QED  BY <1>5, <3>1, <4>1, <4>3, <4>4, <4>5
    <3>2. ASSUME NEW h \in 1..Len(s), t[i] = s[h] PROVE t[i].key <= f[q].records[j].key
      BY <1>1, <1>3, <1>4, <2>3, <3>2 DEF Ordered
    <3> QED  BY <1>7, <3>1, <3>2
  <2>4. ASSUME NEW a \in DOMAIN f, NEW b \in DOMAIN f, a < b,
               NEW i \in 1..Len(g[a].records), NEW j \in 1..Len(g[b].records)
        PROVE  g[a].records[i].key <= g[b].records[j].key
    <3>0. a \in Nat /\ b \in Nat /\ a # b
      BY <1>2, <2>4
    <3>1. CASE a = p
      <4>1. g[a].records = t /\ g[b].records = f[b].records
        BY <1>9, <1>12, <2>4, <3>0, <3>1 DEF SameBut
      <4> QED  BY <2>3, <2>4, <3>1, <4>1
    <3>2. CASE b = p
      <4>1. g[b].records = t /\ g[a].records = f[a].records
        BY <1>9, <1>12, <2>4, <3>0, <3>2 DEF SameBut
      <4> QED  BY <2>2, <2>4, <3>2, <4>1
    <3>3. CASE a # p /\ b # p
      <4>1. g[b].records = f[b].records /\ g[a].records = f[a].records
        BY <1>12, <3>3 DEF SameBut
      <4> QED  BY <1>1, <2>4, <4>1 DEF Ordered
    <3> QED  BY <3>1, <3>2, <3>3
  <2>5. ASSUME NEW q \in DOMAIN f PROVE g[q].records # <<>> \/ Count(g) = 1
    <3>1. t # <<>>
      BY <1>7
    <3>2. CASE q = p
      BY <1>9, <1>12, <3>1, <3>2
    <3>3. CASE q # p
      BY <1>1, <1>2, <1>12, <3>3 DEF Ordered, SameBut
    <3> QED  BY <3>2, <3>3
  <2>6. \A q \in DOMAIN g : InOrder(g[q].records) /\ (g[q].records # <<>> \/ Count(g) = 1)
    BY <1>12, <2>1, <2>5
  <2>7. ASSUME NEW a \in DOMAIN g, NEW b \in DOMAIN g, a < b,
               NEW i \in 1..Len(g[a].records), NEW j \in 1..Len(g[b].records)
        PROVE  g[a].records[i].key <= g[b].records[j].key
    <3>1. a \in DOMAIN f /\ b \in DOMAIN f
      BY <1>12
    <3> QED  BY <2>4, <2>7, <3>1, ZenonT(40)
  <2> QED  BY <2>6, <2>7, ZenonT(40) DEF Ordered
<1>15. ASSUME NEW m PROVE Held(g, m) = Held(f, m) + One(m, k)
  <2>1. Held(g, m) + Times(s, m) = Held(f, m) + Times(t, m)
    BY <1>1, <1>3, <1>4, <1>9, <1>11, PageChanged
  <2>2. Times(t, m) = Times(s, m) + One(m, k)
    BY <1>7
  <2>3. /\ Held(g, m) \in Nat /\ Held(f, m) \in Nat /\ Times(s, m) \in Nat /\ One(m, k) \in Nat
    BY <1>1, <1>12, PlacesFinite, TimesType DEF One
  <2> QED  BY <2>1, <2>2, <2>3
<1>16. Changed(disk.main, g, p, Node(p, Placed(disk.main[p].records, Record(k, Nowhere))))
  BY <1>1, <1>4, <1>6, <1>8, <1>11
<1> QED  BY <1>1, <1>12, <1>13, <1>14, <1>15, <1>16 DEF MainAreas

(* A page written with the keys it had. *)
LEMMA SameKeysWritten ==
  ASSUME Parameters, NEW f \in MainAreas, NEW p \in DOMAIN f, NEW t \in Seq(Rec),
         Len(t) = Len(f[p].records), \A i \in 1..Len(t) : t[i].key = f[p].records[i].key,
         NEW g, g = Put(f, Node(f[p].id, t))
  PROVE  /\ g \in MainAreas /\ \A m : Held(g, m) = Held(f, m)
         /\ Changed(f, g, p, Node(p, t))
<1>1. f \in Areas /\ Numbered(f) /\ Ordered(f)
  BY DEF MainAreas
<1>2. PICK s \in Seq(Rec) : s = f[p].records
  BY <1>1, AreaSize DEF PageNode
<1>3. PICK node : node = Node(p, t)
  OBVIOUS
<1>4. node \in PageNode /\ node.id = p /\ node.records = t
  <2>1. p \in Nat
    <3>1. PICK N \in Nat : DOMAIN f = 0..(N - 1)
      BY <1>1, AreaSize
    <3> QED  BY <3>1
  <2> QED  BY <1>3, <2>1 DEF Node, PageNode
<1>5. FitsAt(node, p)
  <2>1. FitsAt(f[p], p)
    BY <1>1, AreaSize
  <2> QED  BY <1>4, <2>1 DEF FitsAt
<1>6. Changed(f, g, p, node)
  <2>1. g = Put(f, node)
    BY <1>1, <1>3 DEF Numbered
  <2> QED  BY <1>1, <1>4, <1>5, <2>1, PutShape
<1>7. g \in Areas /\ DOMAIN g = DOMAIN f /\ Count(g) = Count(f) /\ g[p] = node /\ SameBut(f, g, p)
  BY <1>6 DEF Changed
<1>8. Numbered(g)
  BY <1>1, <1>4, <1>7 DEF Numbered, SameBut
<1>9. ASSUME NEW q \in DOMAIN f
      PROVE  /\ Len(g[q].records) = Len(f[q].records)
             /\ \A i \in 1..Len(g[q].records) : g[q].records[i].key = f[q].records[i].key
             /\ f[q].records # <<>> => g[q].records # <<>>
  <2>1. CASE q = p
    <3>1. g[q].records = t
      BY <1>4, <1>7, <2>1
    <3>2. s # <<>> => t # <<>>
      BY <1>2
    <3> QED  BY <1>2, <2>1, <3>1, <3>2
  <2>2. CASE q # p
    BY <1>7, <2>2 DEF SameBut
  <2> QED  BY <2>1, <2>2
<1>10. Ordered(g)
  <2>1. ASSUME NEW q \in DOMAIN f PROVE InOrder(g[q].records)
    <3>1. InOrder(f[q].records)
      BY <1>1 DEF Ordered
    <3> QED  BY <1>9, <3>1 DEF InOrder
  <2>2. ASSUME NEW a \in DOMAIN f, NEW b \in DOMAIN f, a < b,
               NEW i \in 1..Len(g[a].records), NEW j \in 1..Len(g[b].records)
        PROVE  g[a].records[i].key <= g[b].records[j].key
    <3>1. /\ i \in 1..Len(f[a].records) /\ g[a].records[i].key = f[a].records[i].key
          /\ j \in 1..Len(f[b].records) /\ g[b].records[j].key = f[b].records[j].key
      BY <1>9
    <3>2. f[a].records[i].key <= f[b].records[j].key
      BY <1>1, <2>2, <3>1 DEF Ordered
    <3> QED  BY <3>1, <3>2
  <2>3. \A q \in DOMAIN f : g[q].records # <<>> \/ Count(g) = 1
    BY <1>1, <1>7, <1>9 DEF Ordered
  <2>4. \A q \in DOMAIN g : InOrder(g[q].records) /\ (g[q].records # <<>> \/ Count(g) = 1)
    BY <1>7, <2>1, <2>3
  <2>5. ASSUME NEW a \in DOMAIN g, NEW b \in DOMAIN g, a < b,
               NEW i \in 1..Len(g[a].records), NEW j \in 1..Len(g[b].records)
        PROVE  g[a].records[i].key <= g[b].records[j].key
    <3>1. a \in DOMAIN f /\ b \in DOMAIN f
      BY <1>7
    <3> QED  BY <2>2, <2>5, <3>1
  <2> QED  BY <2>4, <2>5 DEF Ordered
<1>11. ASSUME NEW m PROVE Held(g, m) = Held(f, m)
  <2>1. Held(g, m) + Times(s, m) = Held(f, m) + Times(t, m)
    BY <1>1, <1>2, <1>4, <1>6, PageChanged
  <2>2. Times(t, m) = Times(s, m)
    BY <1>2, TimesOfKeys
  <2>3. Held(g, m) \in Nat /\ Held(f, m) \in Nat /\ Times(s, m) \in Nat
    BY <1>1, <1>7, PlacesFinite, TimesType
  <2> QED  BY <2>1, <2>2, <2>3
<1> QED  BY <1>3, <1>6, <1>7, <1>8, <1>10, <1>11 DEF MainAreas

(* A record is appended to a page of overflow that has its number. *)
LEMMA RecordAppended ==
  ASSUME Parameters, NEW f \in Areas, NEW p \in DOMAIN f, NEW s \in Seq(Rec), s = f[p].records,
         ~Full(s), NEW r \in Rec, NEW g, g = Put(f, Node(p, Append(s, r)))
  PROVE  /\ g \in Areas /\ DOMAIN g = DOMAIN f /\ Count(g) = Count(f)
         /\ g[p].id = p /\ SameBut(f, g, p)
         /\ \A m : Held(g, m) = Held(f, m) + One(m, r.key)
         /\ Changed(f, g, p, Node(p, Append(s, r)))
<1>1. PICK t : t = Append(s, r)
  OBVIOUS
<1>2. t \in Seq(Rec) /\ Len(t) = Len(s) + 1
  BY <1>1
<1>3. PICK node : node = Node(p, t)
  OBVIOUS
<1>4. node \in PageNode /\ node.id = p /\ node.records = t
  <2>1. p \in Nat
    <3>1. PICK N \in Nat : DOMAIN f = 0..(N - 1)
      BY AreaSize
    <3> QED  BY <3>1
  <2> QED  BY <1>2, <1>3, <2>1 DEF Node, PageNode
<1>5. FitsAt(node, p)
  <2>1. Len(t) <= Capacity
    BY <1>2 DEF Full, Parameters
  <2> QED  BY <1>4, <2>1 DEF FitsAt
<1>6. Changed(f, g, p, node)
  BY <1>1, <1>3, <1>4, <1>5, PutShape
<1>7. ASSUME NEW m PROVE Held(g, m) = Held(f, m) + One(m, r.key)
  <2>1. Held(g, m) + Times(s, m) = Held(f, m) + Times(t, m)
    BY <1>4, <1>6, PageChanged
  <2>2. Times(t, m) = Times(s, m) + One(m, r.key)
    BY <1>1, AppendTimes
  <2>3. Held(g, m) \in Nat /\ Held(f, m) \in Nat /\ Times(s, m) \in Nat /\ One(m, r.key) \in Nat
    BY <1>6, PlacesFinite, TimesType DEF Changed, One
  <2> QED  BY <2>1, <2>2, <2>3
<1>8. Changed(f, g, p, Node(p, Append(s, r)))
  BY <1>1, <1>3, <1>6
<1> QED  BY <1>4, <1>6, <1>7, <1>8 DEF Changed

(* t is s with another link at one place. *)
NewLink(s, t, at, place) ==
  /\ Len(t) = Len(s) /\ \A i \in 1..Len(t) : t[i].key = s[i].key
  /\ t[at].next = place /\ \A i \in 1..Len(t) : i # at => t[i] = s[i]

(* The link is changed and nothing else; the new record has the key. *)
LEMMA LinkedShape ==
  ASSUME NEW s \in Seq(Rec), NEW at \in 1..Len(s), NEW k \in Keys, NEW place \in Int \X Int
  PROVE  \E t \in Seq(Rec), r \in Rec :
           /\ Linked(s, at, k, place) = <<t, r>>
           /\ Len(t) = Len(s) /\ \A i \in 1..Len(t) : t[i].key = s[i].key
           /\ r.key = k
           /\ NewLink(s, t, at, place) /\ r.next = s[at].next
<1>1. PICK t : t = [s EXCEPT ![at].next = place]
  OBVIOUS
<1>2. s[at] \in Rec
  OBVIOUS
<1>3. PICK c : c = [s[at] EXCEPT !.next = place]
  OBVIOUS
<1>4. c \in Rec /\ c.key = s[at].key
  BY <1>2, <1>3 DEF Rec
<1>5. t = [s EXCEPT ![at] = c]
  BY <1>1, <1>3
<1>6. t \in Seq(Rec) /\ Len(t) = Len(s) /\ \A i \in 1..Len(s) : t[i] = IF i = at THEN c ELSE s[i]
  BY <1>4, <1>5
<1>7. PICK r : r = Record(k, s[at].next)
  OBVIOUS
<1>8. r \in Rec /\ r.key = k
  BY <1>2, <1>7 DEF Record, Rec
<1>9. Linked(s, at, k, place) = <<t, r>>
  BY <1>1, <1>7 DEF Linked
<1>10. \A i \in 1..Len(t) : t[i].key = s[i].key
  BY <1>4, <1>6
<1>11. NewLink(s, t, at, place)
  <2>1. c.next = place
    BY <1>2, <1>3 DEF Rec
  <2> QED  BY <1>6, <1>10, <2>1 DEF NewLink
<1>12. r.next = s[at].next
  BY <1>7 DEF Record
<1> QED  BY <1>6, <1>8, <1>9, <1>10, <1>11, <1>12

(* A set of slots that is not empty has a greatest one. *)
LEMMA GreatestSlot ==
  ASSUME NEW n \in Nat, NEW S, S \subseteq 1..n, S # {}
  PROVE  Max(S) \in S
<1>1. PICK T : T = {n - x : x \in S}
  OBVIOUS
<1>2. T \subseteq Nat /\ T # {}
  <2>1. \A x \in S : n - x \in Nat /\ n - x \in T
    BY <1>1
  <2>2. PICK x \in S : n - x \in T
    BY <2>1
  <2> QED  BY <1>1, <2>1, <2>2
<1>3. PICK y \in T : \A z \in T : y <= z
  BY <1>2, LeastElement
<1>4. PICK x \in S : y = n - x
  BY <1>1, <1>3
<1>5. \A z \in S : x >= z
  <2>1. ASSUME NEW z \in S PROVE x >= z
    <3>1. n - z \in T
      BY <1>1
    <3>2. n - x <= n - z
      BY <1>3, <1>4, <3>1
    <3>3. x \in 1..n /\ z \in 1..n
      OBVIOUS
    <3> QED  BY <3>2, <3>3
  <2> QED  BY <2>1
<1>6. \E a \in S : \A z \in S : a >= z
  BY <1>5
<1> QED  BY <1>6 DEF Max

(* The writes of an insert of k: from a disk whose overflow is numbered, the
   last leaves one record of k more, and those before it lose none.        *)
Inserts(d, c, k) ==
  /\ c \in Seq(Disks) /\ c # <<>>
  /\ Numbered(d.over) =>
       /\ \A i \in 1..Len(c) : /\ AlmostNumbered(c[i].over)
                               /\ \A m : InDisk(d, m) <= InDisk(c[i], m)
       /\ Numbered(c[Len(c)].over)
       /\ \A m : InDisk(c[Len(c)], m) = InDisk(d, m) + One(m, k)

(* What is in both areas of a disk is counted in numbers. *)
LEMMA DiskCounts ==
  ASSUME Parameters, NEW d \in Disks
  PROVE  /\ d = [main |-> d.main, over |-> d.over]
         /\ d.main \in MainAreas /\ d.main \in Areas /\ d.over \in Areas
         /\ \A m : /\ Held(d.main, m) \in Nat /\ Held(d.over, m) \in Nat
                   /\ InDisk(d, m) \in Nat
<1>1. d = [main |-> d.main, over |-> d.over] /\ d.main \in MainAreas /\ d.over \in Areas
  BY DEF Disks
<1>2. d.main \in Areas
  BY <1>1 DEF MainAreas
<1>3. \A m : Held(d.main, m) \in Nat /\ Held(d.over, m) \in Nat
  BY <1>1, <1>2, PlacesFinite
<1> QED  BY <1>1, <1>2, <1>3 DEF InDisk

LEMMA InsertWithRoom ==
  ASSUME Parameters, disk \in Disks, NEW k \in Keys,
         ~Full(disk.main[BinarySearchPage(k)].records)
  PROVE  Inserts(disk, Insertions(k), k)
<1>1. PICK p : p = BinarySearchPage(k)
  OBVIOUS
<1>2. PICK g : g = Put(disk.main, Node(disk.main[p].id,
                                       Placed(disk.main[p].records, Record(k, Nowhere))))
  OBVIOUS
<1>3. g \in MainAreas /\ \A m : Held(g, m) = Held(disk.main, m) + One(m, k)
  BY <1>1, <1>2, RoomInPage
<1>4. PICK d : d = [main |-> g, over |-> disk.over]
  OBVIOUS
<1>5. d \in Disks /\ d.main = g /\ d.over = disk.over
  BY <1>3, <1>4 DEF Disks
<1>6. PICK c : c = Insertions(k)
  OBVIOUS
<1>7. c = <<d>>
  <2>1. [disk EXCEPT !.main = g] = d
    BY <1>4 DEF Disks
  <2> QED  BY <1>1, <1>2, <1>6, <2>1 DEF Insertions
<1>8. c \in Seq(Disks) /\ c # <<>> /\ Len(c) = 1 /\ c[1] = d
  BY <1>5, <1>7
<1>9. \A m : InDisk(d, m) = InDisk(disk, m) + One(m, k) /\ InDisk(disk, m) <= InDisk(d, m)
  <2>1. \A m : /\ Held(disk.main, m) \in Nat /\ Held(disk.over, m) \in Nat
               /\ Held(g, m) = Held(disk.main, m) + One(m, k) /\ One(m, k) \in Nat
    BY <1>3, DiskCounts DEF One
  <2> QED  BY <1>5, <2>1 DEF InDisk
<1>10. Numbered(disk.over) => Numbered(d.over) /\ AlmostNumbered(d.over)
  BY <1>5 DEF Numbered, AlmostNumbered
<1>11. \A i \in 1..Len(c) : c[i] = d
  BY <1>8
<1> QED  BY <1>6, <1>8, <1>9, <1>10, <1>11 DEF Inserts

(* A page is written with another link at one place. *)
Relinked(f, g, p, at, place) ==
  \E t \in Seq(Rec) : NewLink(f[p].records, t, at, place) /\ Changed(f, g, p, Node(p, t))

(* The main area, with the link to the new record, and overflow before and
   after it is there.                                                      *)
LEMMA LinkWritten ==
  ASSUME Parameters, disk \in Disks, NEW p \in DOMAIN disk.main, NEW s \in Seq(Rec),
         s = disk.main[p].records, NEW at \in 1..Len(s), NEW k \in Keys,
         NEW place \in Int \X Int
  PROVE  \E f \in MainAreas, r \in Rec :
           /\ f = Put(disk.main, Node(disk.main[p].id, Linked(s, at, k, place)[1]))
           /\ r = Linked(s, at, k, place)[2] /\ r.key = k
           /\ \A m : Held(f, m) = Held(disk.main, m)
           /\ Relinked(disk.main, f, p, at, place) /\ r.next = s[at].next
<1>1. PICK t \in Seq(Rec), r \in Rec :
        /\ Linked(s, at, k, place) = <<t, r>>
        /\ Len(t) = Len(s) /\ \A i \in 1..Len(t) : t[i].key = s[i].key
        /\ r.key = k
        /\ NewLink(s, t, at, place) /\ r.next = s[at].next
  BY LinkedShape
<1>2. PICK h \in MainAreas : h = disk.main
  BY DiskCounts
<1>3. PICK f : f = Put(h, Node(h[p].id, t))
  OBVIOUS
<1>4. f \in MainAreas /\ (\A m : Held(f, m) = Held(h, m)) /\ Changed(h, f, p, Node(p, t))
  <2>1. /\ p \in DOMAIN h /\ Len(t) = Len(h[p].records)
        /\ \A i \in 1..Len(t) : t[i].key = h[p].records[i].key
    BY <1>1, <1>2
  <2> QED  BY <1>3, <2>1, SameKeysWritten
<1>5. Linked(s, at, k, place)[1] = t /\ Linked(s, at, k, place)[2] = r
  BY <1>1
<1>6. Relinked(disk.main, f, p, at, place)
  BY <1>1, <1>2, <1>4 DEF Relinked
<1> QED  BY <1>1, <1>2, <1>3, <1>4, <1>5, <1>6

(* A disk with the main area of the link. *)
LEMMA LinkKeeps ==
  ASSUME Parameters, disk \in Disks, NEW f \in MainAreas, NEW g \in Areas,
         \A m : Held(f, m) = Held(disk.main, m), NEW d, d = [main |-> f, over |-> g]
  PROVE  /\ d \in Disks /\ d.over = g
         /\ \A m : /\ Held(g, m) = Held(disk.over, m) => InDisk(d, m) = InDisk(disk, m)
                   /\ \A k : Held(g, m) = Held(disk.over, m) + One(m, k) =>
                               InDisk(d, m) = InDisk(disk, m) + One(m, k)
<1>1. d \in Disks /\ d.main = f /\ d.over = g
  BY DEF Disks
<1>2. ASSUME NEW m
      PROVE  /\ Held(g, m) = Held(disk.over, m) => InDisk(d, m) = InDisk(disk, m)
             /\ \A k : Held(g, m) = Held(disk.over, m) + One(m, k) =>
                         InDisk(d, m) = InDisk(disk, m) + One(m, k)
  <2>1. PICK a \in Nat, b \in Nat : a = Held(disk.main, m) /\ b = Held(disk.over, m)
    BY DiskCounts
  <2>2. InDisk(disk, m) = a + b /\ InDisk(d, m) = a + Held(g, m)
    BY <1>1, <2>1 DEF InDisk
  <2>3. \A k : One(m, k) \in Nat
    BY DEF One
  <2> QED  BY <2>1, <2>2, <2>3
<1> QED  BY <1>1, <1>2

(* A record is appended to the last page, page n. *)
AppendsTo(f, g, n, r) ==
  /\ n \in DOMAIN f /\ n = Count(f) - 1
  /\ Changed(f, g, n, Node(n, Append(f[n].records, r)))

(* A page is written with a record after those of u, which are the ones it has,
   or none.                                                                *)
Extends(f, g, n, u, r) ==
  /\ n \in DOMAIN f /\ u \in Seq(Rec) /\ (u = <<>> \/ u = f[n].records)
  /\ Changed(f, g, n, Node(n, Append(u, r)))

(* The page of overflow for the new record: the last one, or a new one. *)
LEMMA TargetWritten ==
  ASSUME Parameters, NEW f \in Areas, NEW last, last = f[Count(f) - 1], NEW r \in Rec,
         NEW grown, grown = IF Full(last.records) THEN Allocated(f) ELSE f,
         NEW target, target = IF Full(last.records) THEN Node(Count(f), <<>>) ELSE last,
         NEW g, g = Put(grown, Node(target.id, Append(target.records, r)))
  PROVE  /\ grown \in Areas /\ g \in Areas
         /\ \A m : Held(grown, m) = Held(f, m)
         /\ target.id \in Nat /\ Len(target.records) \in Nat
         /\ Extends(grown, g, target.id, target.records, r)
         /\ Numbered(f) =>
              /\ AlmostNumbered(grown) /\ Numbered(g)
              /\ \A m : Held(g, m) = Held(f, m) + One(m, r.key)
              /\ AppendsTo(grown, g, target.id, r) /\ target.records = grown[target.id].records
<1>1. PICK n \in Nat : Count(f) = n + 1 /\ DOMAIN f = 0..n /\ n \in DOMAIN f
  <2>1. Count(f) \in Nat \ {0} /\ DOMAIN f = 0..(Count(f) - 1)
    BY AreaSize
  <2>2. PICK n \in Nat : n = Count(f) - 1
    BY <2>1
  <2> QED  BY <2>1, <2>2
<1>2. last = f[n] /\ last \in PageNode /\ FitsAt(last, n)
  <2>1. last = f[n]
    BY <1>1
  <2> QED  BY <1>1, <2>1, AreaSize
<1>3. PICK s \in Seq(Rec) : s = last.records
  BY <1>2 DEF PageNode
<1>4. last.id \in Nat /\ last.id \in {0, n} /\ (s # <<>> => last.id = n)
  BY <1>2, <1>3 DEF PageNode, FitsAt
<1>5. CASE Full(s)
  <2>1. grown = Allocated(f) /\ target = Node(n + 1, <<>>)
    BY <1>1, <1>3, <1>5
  <2>2. /\ grown \in Areas /\ DOMAIN grown = DOMAIN f \cup {n + 1} /\ Count(grown) = n + 2
        /\ grown[n + 1] = Zero /\ \A q \in DOMAIN f : grown[q] = f[q]
    <3>1. (n + 1) + 1 = n + 2
      BY <1>1
    <3>2. /\ Allocated(f) \in Areas
          /\ DOMAIN Allocated(f) = DOMAIN f \cup {Count(f)} /\ Count(Allocated(f)) = Count(f) + 1
          /\ Allocated(f)[Count(f)] = Zero
          /\ \A q \in DOMAIN f : Allocated(f)[q] = f[q]
      BY PageAllocated
    <3> QED  BY <1>1, <2>1, <3>1, <3>2
  <2>3. target.id = n + 1 /\ target.records = <<>>
    BY <2>1 DEF Node
  <2>4. PICK e \in Seq(Rec) : e = <<>>
    <3>1. <<>> \in Seq(Rec)
      OBVIOUS
    <3> QED  BY <3>1
  <2>5. e = grown[n + 1].records /\ ~Full(e) /\ n + 1 \in DOMAIN grown
    BY <2>2, <2>4 DEF Zero, Node, Full, Parameters
  <2>6. g = Put(grown, Node(n + 1, Append(e, r)))
    BY <2>3, <2>4
  <2>7. /\ g \in Areas /\ DOMAIN g = DOMAIN grown /\ g[n + 1].id = n + 1 /\ SameBut(grown, g, n + 1)
        /\ \A m : Held(g, m) = Held(grown, m) + One(m, r.key)
        /\ Changed(grown, g, n + 1, Node(n + 1, Append(e, r)))
    BY <2>2, <2>5, <2>6, RecordAppended
  <2>8. \A m : Held(grown, m) = Held(f, m)
    BY <2>1, AllocatedHolds
  <2>9. ASSUME Numbered(f) PROVE AlmostNumbered(grown) /\ Numbered(g)
    <3>1. \A q \in DOMAIN f : grown[q].id = q /\ q # n + 1
      BY <1>1, <2>2, <2>9 DEF Numbered
    <3>2. \A q \in DOMAIN grown : q < (n + 2) - 1 => q \in DOMAIN f
      BY <1>1, <2>2
    <3>3. AlmostNumbered(grown)
      BY <2>2, <3>1, <3>2 DEF AlmostNumbered
    <3>4. Numbered(g)
      <4>1. ASSUME NEW q \in DOMAIN grown, q # n + 1 PROVE g[q].id = q
        BY <2>2, <2>7, <3>1, <4>1 DEF SameBut
      <4> QED  BY <2>7, <4>1 DEF Numbered
    <3> QED  BY <3>3, <3>4
  <2>10. target.id \in Nat /\ Len(target.records) \in Nat
    BY <2>3
  <2>11. AppendsTo(grown, g, target.id, r) /\ target.records = grown[target.id].records
    <3>1. n + 1 = Count(grown) - 1
      BY <1>1, <2>2
    <3>2. target.id = n + 1 /\ grown[n + 1].records = e /\ target.records = e
      BY <2>3, <2>4, <2>5
    <3>3. AppendsTo(grown, g, n + 1, r)
      BY <2>5, <2>7, <3>1, <3>2 DEF AppendsTo
    <3> QED  BY <3>2, <3>3
  <2>12. Extends(grown, g, target.id, target.records, r)
    BY <2>3, <2>4, <2>5, <2>7 DEF Extends
  <2> QED  BY <2>2, <2>7, <2>8, <2>9, <2>10, <2>11, <2>12
<1>6. CASE ~Full(s)
  <2>1. grown = f /\ target = last
    BY <1>3, <1>6
  <2>2. PICK p \in DOMAIN f : p = last.id
    BY <1>1, <1>4
  <2>3. g = Put(f, Node(p, Append(s, r)))
    BY <1>3, <2>1, <2>2
  <2>4. CASE p = n
    <3>1. /\ g \in Areas /\ DOMAIN g = DOMAIN f /\ g[p].id = p /\ SameBut(f, g, p)
          /\ \A m : Held(g, m) = Held(f, m) + One(m, r.key)
          /\ Changed(f, g, p, Node(p, Append(s, r)))
      BY <1>2, <1>3, <1>6, <2>3, <2>4, RecordAppended
    <3>2. ASSUME Numbered(f) PROVE AlmostNumbered(f) /\ Numbered(g)
      BY <3>1, <3>2, SMTT(60) DEF Numbered, AlmostNumbered, SameBut
    <3>3. target.id \in Nat /\ Len(target.records) \in Nat
      BY <1>3, <1>4, <2>1
    <3>4. grown \in Areas /\ (\A m : Held(grown, m) = Held(f, m)) /\ grown = f
      BY <2>1
    <3>5. AppendsTo(grown, g, target.id, r) /\ target.records = grown[target.id].records
      <4>1. target.id = n /\ grown[n].records = s /\ target.records = s /\ n = Count(grown) - 1
        BY <1>1, <1>2, <1>3, <2>1, <2>2, <2>4
      <4>2. AppendsTo(grown, g, n, r)
        BY <1>1, <2>1, <2>4, <3>1, <4>1 DEF AppendsTo
      <4> QED  BY <4>1, <4>2
    <3>6. Extends(grown, g, target.id, target.records, r)
      <4>1. target.id = p /\ f[p].records = s /\ target.records = s
        BY <1>2, <1>3, <2>1, <2>2, <2>4
      <4> QED  BY <1>3, <2>1, <2>2, <3>1, <4>1 DEF Extends
    <3> QED  BY <3>1, <3>2, <3>3, <3>4, <3>5, <3>6
  <2>5. CASE p # n
    <3>1. s = <<>> /\ p = 0
      BY <1>4, <2>2, <2>5
    <3>2. PICK t : t = Append(s, r)
      OBVIOUS
    <3>3. t \in Seq(Rec) /\ Len(t) = 1
      BY <3>1, <3>2
    <3>4. PICK node : node = Node(p, t)
      OBVIOUS
    <3>5. node \in PageNode /\ node.id = p /\ node.records = t
      BY <3>1, <3>3, <3>4 DEF Node, PageNode
    <3>6. FitsAt(node, p)
      <4>1. Len(node.records) = 1 /\ 1 <= Capacity
        BY <3>3, <3>5 DEF Parameters
      <4> QED  BY <3>5, <4>1 DEF FitsAt
    <3>7. Changed(f, g, p, node)
      BY <2>3, <3>2, <3>4, <3>5, <3>6, PutShape
    <3>8. ~Numbered(f)
      BY <1>1, <1>2, <2>2, <2>5 DEF Numbered
    <3>9. Extends(grown, g, target.id, target.records, r)
      <4>1. target.id = p /\ target.records = s
        BY <1>3, <2>1, <2>2
      <4> QED  BY <1>3, <2>1, <2>2, <3>1, <3>2, <3>4, <3>7, <4>1 DEF Extends
    <3> QED  BY <1>3, <1>4, <2>1, <3>7, <3>8, <3>9, SMTT(30) DEF Changed
  <2> QED  BY <2>4, <2>5
<1> QED  BY <1>5, <1>6

(* The writes of an insert into the full page p, whose record `at` is linked to
   the new one: overflow becomes h, which may be larger, and then g.       *)
GoesTo(d, c, p, at, f, h, g, n, u, r) ==
  /\ f \in MainAreas /\ h \in Areas /\ r \in Rec
  /\ Relinked(d.main, f, p, at, <<n, Len(u) + 1>>) /\ r.next = d.main[p].records[at].next
  /\ h = d.over \/ h = Allocated(d.over)
  /\ Extends(h, g, n, u, r)
  /\ \A i \in 1..Len(c) : \/ c[i] = [main |-> d.main, over |-> h]
                          \/ c[i] = [main |-> f, over |-> h]
                          \/ c[i] = [main |-> f, over |-> g]

(* ... when overflow is numbered, its last page has the new record. *)
LinksTo(d, c, k, p, at, f, h, g, n, r) ==
  /\ f \in MainAreas /\ h \in Areas /\ g \in Areas /\ r \in Rec
  /\ Relinked(d.main, f, p, at, <<n, Len(h[n].records) + 1>>)
  /\ \A m : Held(f, m) = Held(d.main, m)
  /\ r.key = k /\ r.next = d.main[p].records[at].next
  /\ h = d.over \/ h = Allocated(d.over)
  /\ AppendsTo(h, g, n, r)
  /\ c[Len(c)] = [main |-> f, over |-> g]
  /\ \A i \in 1..Len(c) : \/ c[i] = [main |-> d.main, over |-> h] /\ h = Allocated(d.over)
                          \/ c[i] = [main |-> f, over |-> h]
                          \/ c[i] = [main |-> f, over |-> g]

(* The record of a full page that one with key k is linked from. *)
LinkedFrom(s, k) == IF Below(s, k) = {} THEN 1 ELSE Max(Below(s, k))

(* An insert into a full page. *)
LEMMA InsertInOverflow ==
  ASSUME Parameters, disk \in Disks, NEW k \in Keys, NEW p, p = BinarySearchPage(k),
         Full(disk.main[p].records)
  PROVE  /\ Inserts(disk, Insertions(k), k)
         /\ LinkedFrom(disk.main[p].records, k) \in 1..Len(disk.main[p].records)
         /\ \E f, h, g, n, u, r :
              GoesTo(disk, Insertions(k), p, LinkedFrom(disk.main[p].records, k), f, h, g, n, u, r)
         /\ Numbered(disk.over) => \E f, h, g, n, r :
              LinksTo(disk, Insertions(k), k, p, LinkedFrom(disk.main[p].records, k), f, h, g, n, r)
<1>1. p \in DOMAIN disk.main /\ p = BinarySearchPage(k)
  BY DiskCounts, PageFound
<1>2. PICK s \in Seq(Rec) : s = disk.main[p].records
  <2>1. disk.main[p].records \in Seq(Rec)
    BY <1>1, DiskCounts, AreaSize DEF PageNode
  <2> QED  BY <2>1
<1>3. PICK node : node = disk.main[p]
  OBVIOUS
<1>4. PICK over \in Areas : over = disk.over
  BY DiskCounts
<1>5. PICK last, full, grown, target, at, place :
        /\ last = over[Count(over) - 1]
        /\ full = Full(last.records)
        /\ grown = IF full THEN Allocated(over) ELSE over
        /\ target = IF full THEN Node(Count(over), <<>>) ELSE last
        /\ at = IF Below(s, k) = {} THEN 1 ELSE Max(Below(s, k))
        /\ place = <<target.id, Len(target.records) + 1>>
  OBVIOUS
<1>6. at \in 1..Len(s)
  <2>1. PICK n \in Nat : n = Len(s)
    OBVIOUS
  <2>2. n >= 1
    BY <1>1, <1>2, <2>1 DEF Full, Parameters
  <2>3. Below(s, k) \subseteq 1..n
    BY <2>1 DEF Below
  <2>4. CASE Below(s, k) = {}
    BY <1>5, <2>1, <2>2, <2>4
  <2>5. CASE Below(s, k) # {}
    <3>1. Max(Below(s, k)) \in Below(s, k)
      BY <2>3, <2>5, GreatestSlot
    <3> QED  BY <1>5, <2>1, <2>3, <2>5, <3>1
  <2> QED  BY <2>4, <2>5
<1>7. grown = (IF Full(last.records) THEN Allocated(over) ELSE over)
      /\ target = (IF Full(last.records) THEN Node(Count(over), <<>>) ELSE last)
  BY <1>5
<1>8. target.id \in Nat /\ Len(target.records) \in Nat
  <2>1. PICK r : r \in Rec
    BY <1>2, <1>6
  <2> QED  BY <1>4, <1>5, <1>7, <2>1, TargetWritten
<1>9. place \in Int \X Int
  BY <1>5, <1>8
<1>10. PICK main \in MainAreas, r \in Rec :
         /\ main = Put(disk.main, Node(disk.main[p].id, Linked(s, at, k, place)[1]))
         /\ r = Linked(s, at, k, place)[2] /\ r.key = k
         /\ \A m : Held(main, m) = Held(disk.main, m)
         /\ Relinked(disk.main, main, p, at, place) /\ r.next = s[at].next
  BY <1>1, <1>2, <1>6, <1>9, LinkWritten
<1>11. PICK g : g = Put(grown, Node(target.id, Append(target.records, r)))
  OBVIOUS
<1>12. /\ grown \in Areas /\ g \in Areas
       /\ \A m : Held(grown, m) = Held(over, m)
       /\ Extends(grown, g, target.id, target.records, r)
       /\ Numbered(over) =>
            /\ AlmostNumbered(grown) /\ Numbered(g)
            /\ \A m : Held(g, m) = Held(over, m) + One(m, r.key)
            /\ AppendsTo(grown, g, target.id, r) /\ target.records = grown[target.id].records
  <2>1. last = over[Count(over) - 1]
    BY <1>5
  <2> QED  BY <1>7, <1>11, <2>1, TargetWritten
<1>13. PICK d1, d2, d3 : /\ d1 = [main |-> disk.main, over |-> grown]
                         /\ d2 = [main |-> main, over |-> grown]
                         /\ d3 = [main |-> main, over |-> g]
  OBVIOUS
<1>14. /\ d1 \in Disks /\ d1.over = grown /\ \A m : InDisk(d1, m) = InDisk(disk, m)
  <2>1. disk.main \in MainAreas /\ \A m : Held(disk.main, m) = Held(disk.main, m)
    BY DiskCounts
  <2> QED  BY <1>4, <1>12, <1>13, <2>1, LinkKeeps
<1>15. d2 \in Disks /\ d2.over = grown /\ \A m : InDisk(d2, m) = InDisk(disk, m)
  BY <1>4, <1>10, <1>12, <1>13, LinkKeeps
<1>16. /\ d3 \in Disks /\ d3.over = g
       /\ Numbered(over) => \A m : InDisk(d3, m) = InDisk(disk, m) + One(m, k)
  BY <1>4, <1>10, <1>12, <1>13, LinkKeeps
<1>17. PICK c : c = Insertions(k)
  OBVIOUS
<1>18. c = (IF full THEN <<d1>> ELSE <<>>) \o <<d2, d3>>
  <2>1. c = OverflowWrites(node, k)
    BY <1>1, <1>3, <1>17 DEF Insertions
  <2>2. PICK linked : linked = Linked(s, at, k, place)
    OBVIOUS
  <2>3. PICK first : first = IF full THEN <<[main |-> disk.main, over |-> grown]>> ELSE <<>>
    OBVIOUS
  <2>4. OverflowWrites(node, k) =
          first \o <<[main |-> Put(disk.main, Node(node.id, linked[1])), over |-> grown],
                     [main |-> Put(disk.main, Node(node.id, linked[1])),
                      over |-> Put(grown, Node(target.id, Append(target.records, linked[2])))]>>
    BY <1>2, <1>3, <1>4, <1>5, <2>2, <2>3 DEF OverflowWrites
  <2>5. /\ main = Put(disk.main, Node(node.id, linked[1]))
        /\ g = Put(grown, Node(target.id, Append(target.records, linked[2])))
    BY <1>3, <1>10, <1>11, <2>2
  <2>6. first = IF full THEN <<d1>> ELSE <<>>
    BY <1>13, <2>3
  <2> QED  BY <1>13, <2>1, <2>4, <2>5, <2>6
<1>19. PICK b : b = <<d2, d3>> /\ b \in Seq(Disks) /\ Len(b) = 2 /\ b[1] = d2 /\ b[2] = d3
  <2>1. PICK b : b = <<d2, d3>>
    OBVIOUS
  <2>2. b \in Seq(Disks)
    BY <1>15, <1>16, <2>1
  <2>3. Len(b) = 2 /\ b[1] = d2 /\ b[2] = d3
    BY <2>1
  <2> QED  BY <2>1, <2>2, <2>3
<1>20. /\ c \in Seq(Disks) /\ c # <<>> /\ c[Len(c)] = d3
       /\ \A i \in 1..Len(c) : (c[i] = d1 /\ full) \/ c[i] \in {d2, d3}
  <2>1. CASE full
    <3>1. PICK a : a = <<d1>> /\ a \in Seq(Disks) /\ Len(a) = 1 /\ a[1] = d1
      <4>1. PICK a : a = <<d1>>
        OBVIOUS
      <4>2. a \in Seq(Disks) /\ Len(a) = 1 /\ a[1] = d1
        BY <1>14, <4>1
      <4> QED  BY <4>1, <4>2
    <3>2. c = a \o b
      BY <1>18, <1>19, <2>1, <3>1
    <3>3. c \in Seq(Disks) /\ Len(c) = 3 /\ c[1] = a[1] /\ c[2] = b[1] /\ c[3] = b[2]
      BY <1>19, <3>1, <3>2
    <3>4. \A i \in 1..3 : i = 1 \/ i = 2 \/ i = 3
      OBVIOUS
    <3>5. c[1] = d1 /\ c[2] = d2 /\ c[3] = d3
      BY <1>19, <3>1, <3>3
    <3>6. c # <<>>
      <4>1. Len(<<>>) = 0 /\ Len(c) # 0
        BY <3>3
      <4> QED  BY <4>1
    <3> QED  BY <2>1, <3>3, <3>4, <3>5, <3>6
  <2>2. CASE ~full
    <3>1. PICK a \in Seq(Disks) : a = <<>> /\ Len(a) = 0
      <4>1. <<>> \in Seq(Disks)
        OBVIOUS
      <4> QED  BY <4>1
    <3>2. c = a \o b
      BY <1>18, <1>19, <2>2, <3>1
    <3>3. c \in Seq(Disks) /\ Len(c) = 2 /\ c[1] = b[1] /\ c[2] = b[2]
      BY <1>19, <3>1, <3>2
    <3>4. \A i \in 1..2 : i = 1 \/ i = 2
      OBVIOUS
    <3>5. c[1] = d2 /\ c[2] = d3
      BY <1>19, <3>3
    <3>6. c # <<>>
      <4>1. Len(<<>>) = 0 /\ Len(c) # 0
        BY <3>3
      <4> QED  BY <4>1
    <3> QED  BY <3>3, <3>4, <3>5, <3>6
  <2> QED  BY <2>1, <2>2
<1>21. ASSUME Numbered(over)
       PROVE  /\ \A i \in 1..Len(c) : /\ AlmostNumbered(c[i].over)
                                      /\ \A m : InDisk(disk, m) <= InDisk(c[i], m)
              /\ Numbered(c[Len(c)].over)
              /\ \A m : InDisk(c[Len(c)], m) = InDisk(disk, m) + One(m, k)
  <2>1. \A m : InDisk(disk, m) \in Nat /\ One(m, k) \in Nat
    BY DiskCounts DEF One
  <2>2. \A d \in {d1, d2, d3} : \A m : InDisk(disk, m) <= InDisk(d, m)
    BY <1>14, <1>15, <1>16, <1>21, <2>1
  <2>3. AlmostNumbered(g)
    BY <1>12, <1>21 DEF Numbered, AlmostNumbered
  <2>4. \A d \in {d1, d2, d3} : AlmostNumbered(d.over)
    BY <1>12, <1>14, <1>15, <1>16, <1>21, <2>3
  <2> QED  BY <1>12, <1>16, <1>20, <1>21, <2>2, <2>4
<1>22. at = LinkedFrom(disk.main[p].records, k) /\ at \in 1..Len(disk.main[p].records)
  BY <1>2, <1>5, <1>6 DEF LinkedFrom
<1>23. ASSUME Numbered(over) PROVE LinksTo(disk, c, k, p, at, main, grown, g, target.id, r)
  <2>1. AppendsTo(grown, g, target.id, r) /\ target.records = grown[target.id].records
    BY <1>12, <1>23
  <2>2. place = <<target.id, Len(grown[target.id].records) + 1>>
    BY <1>5, <2>1
  <2>3. Relinked(disk.main, main, p, at, <<target.id, Len(grown[target.id].records) + 1>>)
    BY <1>10, <2>2
  <2>4. (grown = disk.over \/ grown = Allocated(disk.over)) /\ (full => grown = Allocated(disk.over))
    BY <1>4, <1>5
  <2>5. c[Len(c)] = [main |-> main, over |-> g]
    BY <1>13, <1>20
  <2>6. \A i \in 1..Len(c) : \/ c[i] = [main |-> disk.main, over |-> grown] /\ grown = Allocated(disk.over)
                             \/ c[i] = [main |-> main, over |-> grown]
                             \/ c[i] = [main |-> main, over |-> g]
    BY <1>13, <1>20, <2>4
  <2>7. r.next = disk.main[p].records[at].next
    BY <1>2, <1>10
  <2> QED  BY <1>10, <1>12, <2>1, <2>3, <2>4, <2>5, <2>6, <2>7 DEF LinksTo
<1>24. GoesTo(disk, c, p, at, main, grown, g, target.id, target.records, r)
  <2>1. Relinked(disk.main, main, p, at, <<target.id, Len(target.records) + 1>>)
    BY <1>5, <1>10
  <2>2. r.next = disk.main[p].records[at].next /\ (grown = disk.over \/ grown = Allocated(disk.over))
    BY <1>2, <1>4, <1>5, <1>10
  <2>3. \A i \in 1..Len(c) : \/ c[i] = [main |-> disk.main, over |-> grown]
                             \/ c[i] = [main |-> main, over |-> grown]
                             \/ c[i] = [main |-> main, over |-> g]
    BY <1>13, <1>20
  <2> QED  BY <1>10, <1>12, <2>1, <2>2, <2>3 DEF GoesTo
<1> QED  BY <1>4, <1>17, <1>20, <1>21, <1>22, <1>23, <1>24 DEF Inserts

-----------------------------------------------------------------------------
(* The writes of a reorganization.                                         *)

(* A page of zeros, and the same with one more, first not yet numbered. *)
LEMMA EmptyArea ==
  ASSUME Parameters, NEW f, f = [p \in 0..0 |-> Zero]
  PROVE  /\ f \in Areas /\ Numbered(f) /\ Count(f) = 1 /\ DOMAIN f = 0..0
         /\ \A m : Held(f, m) = 0
<1>1. Zero \in PageNode /\ FitsAt(Zero, 0) /\ Zero.id = 0 /\ DOMAIN Zero.records = {}
  BY DEF Zero, Node, PageNode, FitsAt, Parameters
<1>2. DOMAIN f = 0..0 /\ \A p \in 0..0 : f[p] = Zero /\ p = 0
  OBVIOUS
<1>3. f \in Areas
  <2>1. f \in [0..0 -> PageNode] /\ \A p \in 0..0 : FitsAt(f[p], p)
    BY <1>1, <1>2
  <2> QED  BY <2>1, AreaShape
<1>4. Numbered(f)
  BY <1>1, <1>2 DEF Numbered
<1>5. Count(f) = 1
  <2>1. PICK n \in Nat \ {0} : n = Count(f) /\ 0..(n - 1) = 0..0
    BY <1>2, <1>3, AreaSize
  <2>2. n - 1 \in 0..(n - 1)
    BY <2>1
  <2>3. n - 1 \in 0..0
    BY <2>1, <2>2
  <2> QED  BY <2>1, <2>3
<1>6. \A m : Held(f, m) = 0
  <2>1. Places(f) = {}
    BY <1>1, <1>2 DEF Places
  <2>2. \A m : PlacesOf(f, m) = {}
    BY <2>1 DEF PlacesOf
  <2>3. Cardinality({}) = 0
    BY FS_EmptySet
  <2> QED  BY <2>2, <2>3 DEF Held
<1> QED  BY <1>2, <1>3, <1>4, <1>5, <1>6

LEMMA SecondPage ==
  ASSUME Parameters, NEW f, f = [p \in 0..0 |-> Zero],
         NEW g, g = Allocated(f), NEW h, h = Put(g, Node(1, <<>>))
  PROVE  /\ g \in Areas /\ AlmostNumbered(g) /\ \A m : Held(g, m) = 0
         /\ h \in Areas /\ Numbered(h) /\ \A m : Held(h, m) = 0
<1>1. /\ f \in Areas /\ Numbered(f) /\ Count(f) = 1 /\ DOMAIN f = 0..0
      /\ \A m : Held(f, m) = 0
  BY EmptyArea
<1>2. /\ g \in Areas /\ DOMAIN g = (0..0) \cup {1} /\ Count(g) = 2
      /\ g[1] = Zero /\ \A q \in 0..0 : g[q] = f[q]
  <2>1. /\ Allocated(f) \in Areas
        /\ DOMAIN Allocated(f) = DOMAIN f \cup {Count(f)} /\ Count(Allocated(f)) = Count(f) + 1
        /\ Allocated(f)[Count(f)] = Zero
        /\ \A q \in DOMAIN f : Allocated(f)[q] = f[q]
    BY <1>1, PageAllocated
  <2> QED  BY <1>1, <2>1
<1>3. AlmostNumbered(g) /\ g[0].id = 0
  BY <1>1, <1>2 DEF AlmostNumbered, Numbered
<1>4. \A m : Held(g, m) = 0
  BY <1>1, AllocatedHolds
<1>5. PICK e : e = <<>>
  OBVIOUS
<1>6. e \in Seq(Rec) /\ Len(e) = 0
  BY <1>5
<1>7. PICK node : node = Node(1, e)
  OBVIOUS
<1>8. node \in PageNode /\ node.id = 1 /\ node.records = e
  BY <1>6, <1>7 DEF Node, PageNode
<1>9. FitsAt(node, 1)
  BY <1>5, <1>6, <1>8 DEF FitsAt, Parameters
<1>10. Changed(g, h, 1, node)
  BY <1>2, <1>5, <1>7, <1>8, <1>9, PutShape
<1>11. Numbered(h)
  BY <1>2, <1>3, <1>8, <1>10 DEF Numbered, Changed, SameBut
<1>12. ASSUME NEW m PROVE Held(h, m) = 0
  <2>1. Held(h, m) + Times(g[1].records, m) = Held(g, m) + Times(node.records, m)
    BY <1>2, <1>10, PageChanged
  <2>2. Times(g[1].records, m) = 0 /\ Times(node.records, m) = 0
    BY <1>2, <1>5, <1>8, NoneTimes DEF Zero, Node
  <2>3. Held(h, m) \in Nat
    BY <1>10, PlacesFinite DEF Changed
  <2> QED  BY <1>4, <2>1, <2>2, <2>3
<1> QED  BY <1>2, <1>3, <1>4, <1>10, <1>11, <1>12 DEF Changed

(* The writes of a reorganization: none leaves fewer records, and the last
   leaves those that were there, and overflow numbered.                    *)
Reorganizes(d, c) ==
  /\ c \in Seq(Disks) /\ c # <<>>
  /\ \A i \in 1..Len(c) : /\ \A m : InDisk(d, m) <= InDisk(c[i], m)
                          /\ Numbered(d.over) => AlmostNumbered(c[i].over)
  /\ Numbered(c[Len(c)].over)
  /\ \A m : InDisk(c[Len(c)], m) = InDisk(d, m)

(* ... after which the main area has no link; overflow is empty, or has a page
   without its number.                                                     *)
Unlinks(d, c, f, g) ==
  /\ f = Paged(Merged, FillFactor) /\ f \in MainAreas /\ \A m : Held(f, m) = InDisk(d, m)
  /\ g \in Areas /\ g[Count(g) - 1].id # Count(g) - 1 /\ \A m : Held(g, m) = 0
  /\ c[Len(c)].main = f /\ \A m : Held(c[Len(c)].over, m) = 0
  /\ \A i \in 1..Len(c) :
       /\ c[i].main = f
       /\ c[i].over \in {d.over, g} \/ \A m : Held(c[i].over, m) = 0

LEMMA ReorganizationKeeps ==
  ASSUME Parameters, disk \in Disks
  PROVE  /\ Reorganizes(disk, Reorganization)
         /\ \E f, g : Unlinks(disk, Reorganization, f, g)
<1>1. PICK main : main = Paged(Merged, FillFactor)
  OBVIOUS
<1>2. main \in MainAreas /\ \A m : Held(main, m) = InDisk(disk, m)
  <2>1. PICK r \in Seq(Rec) : r = Merged
    BY MergedShape
  <2>2. InOrder(r) /\ \A m : Times(r, m) = InDisk(disk, m)
    BY <2>1, MergedShape
  <2>3. PICK fill \in 1..Capacity : fill = FillFactor
    BY FillType
  <2>4. main = Paged(r, fill)
    BY <1>1, <2>1, <2>3
  <2>5. /\ main \in Areas /\ \A p \in DOMAIN main : main[p].id = p
        /\ Ordered(main) /\ \A m : Held(main, m) = Times(r, m)
    BY <2>2, <2>4, PagedIsArea
  <2> QED  BY <2>2, <2>5 DEF MainAreas, Numbered
<1>3. PICK empty : empty = [p \in 0..0 |-> Zero]
  OBVIOUS
<1>4. PICK g, h : g = Allocated(empty) /\ h = Put(g, Node(1, <<>>))
  OBVIOUS
<1>5. empty \in Areas /\ Numbered(empty) /\ \A m : Held(empty, m) = 0
  BY <1>3, EmptyArea
<1>6. /\ g \in Areas /\ AlmostNumbered(g) /\ \A m : Held(g, m) = 0
      /\ h \in Areas /\ Numbered(h) /\ \A m : Held(h, m) = 0
  BY <1>3, <1>4, SecondPage
<1>7. PICK d1, d2, d3, d4 : /\ d1 = [main |-> main, over |-> disk.over]
                            /\ d2 = [main |-> main, over |-> empty]
                            /\ d3 = [main |-> main, over |-> g]
                            /\ d4 = [main |-> main, over |-> h]
  OBVIOUS
<1>8. \A m : InDisk(disk, m) \in Nat /\ Held(disk.over, m) \in Nat
  BY DiskCounts
<1>9. d1 \in Disks /\ d1.over = disk.over /\ \A m : InDisk(disk, m) <= InDisk(d1, m)
  <2>1. d1 \in Disks /\ d1.main = main /\ d1.over = disk.over
    BY <1>2, <1>7, DiskCounts DEF Disks
  <2> QED  BY <1>2, <1>8, <2>1 DEF InDisk
<1>10. ASSUME NEW e \in Areas, \A m : Held(e, m) = 0, NEW d, d = [main |-> main, over |-> e]
       PROVE  d \in Disks /\ d.over = e /\ \A m : InDisk(d, m) = InDisk(disk, m)
  <2>1. d \in Disks /\ d.main = main /\ d.over = e
    BY <1>2, <1>10 DEF Disks
  <2>2. \A m : InDisk(disk, m) + 0 = InDisk(disk, m)
    BY <1>8
  <2> QED  BY <1>2, <1>10, <2>1, <2>2 DEF InDisk
<1>11. d2 \in Disks /\ d2.over = empty /\ \A m : InDisk(d2, m) = InDisk(disk, m)
  BY <1>5, <1>7, <1>10
<1>12. d3 \in Disks /\ d3.over = g /\ \A m : InDisk(d3, m) = InDisk(disk, m)
  BY <1>6, <1>7, <1>10
<1>13. d4 \in Disks /\ d4.over = h /\ \A m : InDisk(d4, m) = InDisk(disk, m)
  BY <1>6, <1>7, <1>10
<1>14. PICK c : c = Reorganization
  OBVIOUS
<1>15. c = <<d1, d2, d3, d4>>
  <2>1. [disk EXCEPT !.main = main] = d1
    BY <1>7 DEF Disks
  <2> QED  BY <1>1, <1>3, <1>4, <1>7, <1>14, <2>1 DEF Reorganization
<1>16. c \in Seq(Disks)
  BY <1>9, <1>11, <1>12, <1>13, <1>15
<1>17. Len(c) = 4 /\ c[1] = d1 /\ c[2] = d2 /\ c[3] = d3 /\ c[4] = d4
  BY <1>15
<1>18. c # <<>>
  <2>1. Len(<<>>) = 0 /\ Len(c) # 0
    BY <1>17
  <2> QED  BY <2>1
<1>19. \A i \in 1..Len(c) : c[i] \in {d1, d2, d3, d4}
  <2>1. \A i \in 1..4 : i = 1 \/ i = 2 \/ i = 3 \/ i = 4
    OBVIOUS
  <2> QED  BY <1>17, <2>1
<1>20. ASSUME NEW d \in {d1, d2, d3, d4}, NEW m PROVE InDisk(disk, m) <= InDisk(d, m)
  <2>1. d # d1 => InDisk(d, m) = InDisk(disk, m)
    BY <1>11, <1>12, <1>13
  <2>2. d = d1 => InDisk(disk, m) <= InDisk(d, m)
    BY <1>9
  <2> QED  BY <1>8, <2>1, <2>2
<1>21. ASSUME NEW d \in {d1, d2, d3, d4}, Numbered(disk.over) PROVE AlmostNumbered(d.over)
  <2>1. AlmostNumbered(disk.over) /\ AlmostNumbered(empty) /\ AlmostNumbered(h)
    BY <1>5, <1>6, <1>21 DEF Numbered, AlmostNumbered
  <2> QED  BY <1>6, <1>9, <1>11, <1>12, <1>13, <2>1
<1>22. Numbered(c[Len(c)].over) /\ \A m : InDisk(c[Len(c)], m) = InDisk(disk, m)
  BY <1>6, <1>13, <1>17
<1>23. Unlinks(disk, c, main, g)
  <2>1. \A d \in {d1, d2, d3, d4} :
          d.main = main /\ (d.over \in {disk.over, g} \/ \A m : Held(d.over, m) = 0)
    BY <1>5, <1>6, <1>7
  <2>2. g[Count(g) - 1].id # Count(g) - 1
    <3>1. empty \in Areas /\ Count(empty) = 1
      BY <1>3, EmptyArea
    <3>2. Count(g) = 1 + 1 /\ g[1] = Zero
      BY <1>4, <3>1, PageAllocated
    <3> QED  BY <3>2 DEF Zero, Node
  <2>3. d4.main = main /\ \A m : Held(d4.over, m) = 0
    BY <1>6, <1>7
  <2> QED  BY <1>1, <1>2, <1>6, <1>17, <1>19, <2>1, <2>2, <2>3 DEF Unlinks
<1> QED  BY <1>14, <1>16, <1>18, <1>19, <1>20, <1>21, <1>22, <1>23 DEF Reorganizes

-----------------------------------------------------------------------------
(* The inductive invariant.                                                *)

(* What an insert adds when it returns. *)
More(call, m) == IF call = <<"insert", m>> THEN 1 ELSE 0

Safe(d, kept)       == \A m \in Keys : kept[m] <= InDisk(d, m)
Done(d, kept, call) == Numbered(d.over) /\ \A m \in Keys : InDisk(d, m) = kept[m] + More(call, m)

(* No write of the call loses a record, and the last one is what it promises;
   when there is none, the disk is.                                        *)
Kept(d, c, kept, call) ==
  /\ Safe(d, kept)
  /\ \A i \in 1..Len(c) : Safe(c[i], kept)
  /\ Done(IF c = <<>> THEN d ELSE c[Len(c)], kept, call)

(* Only the last page of overflow may not have its number yet. *)
NearlyNumbered(d, c) ==
  /\ AlmostNumbered(d.over)
  /\ \A i \in 1..Len(c) : AlmostNumbered(c[i].over)

Shape ==
  /\ disk \in Disks /\ coming \in Seq(Disks)
  /\ job \in {NoJob, Merge} \cup ({"insert"} \X Keys)
  /\ (coming = <<>>) = (job = NoJob)
  /\ stored \in [Keys -> Nat]
  /\ torn \in BOOLEAN /\ stops \in 0..MaxStops

Promise ==
  /\ ~torn \/ job = Merge => Kept(disk, coming, stored, job)
  /\ ~torn => NearlyNumbered(disk, coming)

SInv == Shape /\ Promise

(* What is counted on a disk is what it holds. *)
LEMMA ContentOfDisk ==
  ASSUME Parameters, NEW d \in Disks
  PROVE  Content(d) \in [Keys -> Nat] /\ \A m \in Keys : Content(d)[m] = InDisk(d, m)
<1>1. \A m \in Keys : Content(d)[m] = InDisk(d, m)
  BY DEF Content, InDisk, Held
<1>2. \A m \in Keys : Content(d)[m] \in Nat
  BY <1>1, DiskCounts
<1>3. Content(d) = [m \in Keys |-> Content(d)[m]]
  BY DEF Content
<1> QED  BY <1>1, <1>2, <1>3

(* Between calls, what the calls left is what is promised. *)
LEMMA AtEnd ==
  ASSUME Parameters, NEW d \in Disks, NEW kept \in [Keys -> Nat],
         Numbered(d.over), \A m \in Keys : InDisk(d, m) = kept[m]
  PROVE  Kept(d, <<>>, kept, NoJob) /\ NearlyNumbered(d, <<>>)
<1>1. \A m \in Keys : More(NoJob, m) = 0 /\ InDisk(d, m) \in Nat
  <2>1. \A m \in Keys : NoJob # <<"insert", m>>
    BY DEF NoJob
  <2> QED  BY <2>1, DiskCounts DEF More
<1>2. Len(<<>>) = 0 /\ 1..0 = {}
  OBVIOUS
<1>3. Safe(d, kept) /\ Done(d, kept, NoJob)
  BY <1>1 DEF Safe, Done
<1>4. AlmostNumbered(d.over)
  BY DEF Numbered, AlmostNumbered
<1> QED  BY <1>2, <1>3, <1>4 DEF Kept, NearlyNumbered

LEMMA RestingDisk ==
  ASSUME Parameters, SInv, Idle, ~torn
  PROVE  Numbered(disk.over) /\ \A m \in Keys : InDisk(disk, m) = stored[m]
<1>1. job = NoJob /\ coming = <<>> /\ stored \in [Keys -> Nat]
  BY DEF SInv, Shape, Idle
<1>2. Done(disk, stored, NoJob)
  BY <1>1 DEF SInv, Promise, Kept
<1>3. \A m \in Keys : More(NoJob, m) = 0
  BY DEF More, NoJob
<1>4. \A m \in Keys : stored[m] + 0 = stored[m]
  BY <1>1
<1> QED  BY <1>2, <1>3, <1>4 DEF Done

LEMMA InitHolds ==
  ASSUME Parameters, Init
  PROVE  SInv
<1>1. PICK f : f = [p \in 0..0 |-> Node(0, <<>>)]
  OBVIOUS
<1>2. f = [p \in 0..0 |-> Zero]
  BY <1>1 DEF Zero
<1>3. /\ f \in Areas /\ Numbered(f) /\ Count(f) = 1 /\ DOMAIN f = 0..0
      /\ \A m : Held(f, m) = 0
  BY <1>2, EmptyArea
<1>4. disk = [main |-> f, over |-> f] /\ disk.main = f /\ disk.over = f
  BY <1>1 DEF Init
<1>5. Ordered(f)
  <2>1. \A p \in 0..0 : f[p].records = <<>>
    BY <1>2 DEF Zero, Node
  <2>2. Len(<<>>) = 0 /\ 1..0 = {}
    OBVIOUS
  <2>3. \A p \in 0..0 : InOrder(f[p].records) /\ 1..Len(f[p].records) = {}
    BY <2>1, <2>2 DEF InOrder
  <2> QED  BY <1>3, <2>3 DEF Ordered
<1>6. disk \in Disks
  BY <1>3, <1>4, <1>5 DEF Disks, MainAreas
<1>7. \A m : InDisk(disk, m) = 0
  BY <1>3, <1>4 DEF InDisk
<1>8. coming = <<>> /\ job = NoJob /\ torn = FALSE /\ stops = 0
      /\ stored = [k \in Keys |-> 0] /\ stored \in [Keys -> Nat]
  BY DEF Init
<1>9. Shape
  <2>1. coming \in Seq(Disks) /\ stops \in 0..MaxStops
    BY <1>8 DEF Parameters
  <2> QED  BY <1>6, <1>8, <2>1 DEF Shape
<1>10. Kept(disk, <<>>, stored, NoJob) /\ NearlyNumbered(disk, <<>>)
  <2>1. Numbered(disk.over) /\ \A m \in Keys : InDisk(disk, m) = stored[m]
    BY <1>3, <1>4, <1>7, <1>8
  <2> QED  BY <1>6, <1>8, <2>1, AtEnd
<1> QED  BY <1>8, <1>9, <1>10 DEF SInv, Promise

LEMMA InsertStarts ==
  ASSUME Parameters, SInv, NEW k \in Keys, StartInsert(k)
  PROVE  SInv'
<1>1. /\ Idle /\ coming' = Insertions(k) /\ job' = <<"insert", k>>
      /\ disk' = disk /\ stored' = stored /\ torn' = torn /\ stops' = stops
  BY DEF StartInsert
<1>2. disk \in Disks /\ stored \in [Keys -> Nat] /\ torn \in BOOLEAN /\ stops \in 0..MaxStops
  BY DEF SInv, Shape
<1>3. PICK c : c = Insertions(k)
  OBVIOUS
<1>4. Inserts(disk, c, k)
  <2>1. PICK p : p = BinarySearchPage(k)
    OBVIOUS
  <2>2. CASE Full(disk.main[p].records)
    BY <1>2, <1>3, <2>1, <2>2, InsertInOverflow
  <2>3. CASE ~Full(disk.main[p].records)
    BY <1>2, <1>3, <2>1, <2>3, InsertWithRoom
  <2> QED  BY <2>2, <2>3
<1>5. c \in Seq(Disks) /\ c # <<>>
  BY <1>4 DEF Inserts
<1>6. Shape'
  <2>1. job' \in {"insert"} \X Keys /\ job' # NoJob
    BY <1>1 DEF NoJob
  <2> QED  BY <1>1, <1>2, <1>3, <1>5, <2>1 DEF Shape
<1>7. job' # Merge
  BY <1>1 DEF Merge
<1>8. ASSUME ~torn
      PROVE  Kept(disk, c, stored, job') /\ NearlyNumbered(disk, c)
  <2>1. Numbered(disk.over) /\ \A m \in Keys : InDisk(disk, m) = stored[m] /\ stored[m] \in Nat
    BY <1>1, <1>2, <1>8, RestingDisk
  <2>2. /\ \A i \in 1..Len(c) : /\ AlmostNumbered(c[i].over)
                                /\ \A m : InDisk(disk, m) <= InDisk(c[i], m)
        /\ Numbered(c[Len(c)].over)
        /\ \A m : InDisk(c[Len(c)], m) = InDisk(disk, m) + One(m, k)
    BY <1>4, <2>1 DEF Inserts
  <2>3. \A m \in Keys : More(job', m) = One(m, k)
    <3>1. \A m \in Keys : job' = <<"insert", m>> <=> m = k
      BY <1>1
    <3> QED  BY <3>1 DEF More, One
  <2>4. Done(c[Len(c)], stored, job')
    BY <2>1, <2>2, <2>3 DEF Done
  <2>5. Safe(disk, stored) /\ \A i \in 1..Len(c) : Safe(c[i], stored)
    <3>1. \A m \in Keys : stored[m] <= InDisk(disk, m)
      BY <2>1
    <3>2. \A i \in 1..Len(c) : \A m \in Keys : stored[m] <= InDisk(c[i], m)
      BY <2>1, <2>2
    <3> QED  BY <3>1, <3>2 DEF Safe
  <2>6. AlmostNumbered(disk.over)
    BY <2>1 DEF Numbered, AlmostNumbered
  <2> QED  BY <1>5, <2>2, <2>4, <2>5, <2>6 DEF Kept, NearlyNumbered
<1>9. Promise'
  BY <1>1, <1>3, <1>7, <1>8 DEF Promise
<1> QED  BY <1>6, <1>9 DEF SInv

LEMMA ReorganizeStarts ==
  ASSUME Parameters, SInv, StartReorganize
  PROVE  SInv'
<1>1. /\ Idle /\ coming' = Reorganization /\ job' = Merge
      /\ stored' = IF torn THEN Content(disk) ELSE stored
      /\ disk' = disk /\ torn' = torn /\ stops' = stops
  BY DEF StartReorganize
<1>2. disk \in Disks /\ stored \in [Keys -> Nat] /\ torn \in BOOLEAN /\ stops \in 0..MaxStops
  BY DEF SInv, Shape
<1>3. PICK c : c = Reorganization
  OBVIOUS
<1>4. Reorganizes(disk, c)
  BY <1>2, <1>3, ReorganizationKeeps
<1>5. /\ c \in Seq(Disks) /\ c # <<>>
      /\ \A i \in 1..Len(c) : /\ \A m : InDisk(disk, m) <= InDisk(c[i], m)
                              /\ Numbered(disk.over) => AlmostNumbered(c[i].over)
      /\ Numbered(c[Len(c)].over)
      /\ \A m : InDisk(c[Len(c)], m) = InDisk(disk, m)
  BY <1>4 DEF Reorganizes
<1>6. stored' \in [Keys -> Nat] /\ \A m \in Keys : stored'[m] = InDisk(disk, m) /\ stored'[m] \in Nat
  <2>1. CASE torn
    BY <1>1, <1>2, <2>1, ContentOfDisk
  <2>2. CASE ~torn
    BY <1>1, <1>2, <2>2, RestingDisk
  <2> QED  BY <1>2, <2>1, <2>2
<1>7. Shape'
  <2>1. job' # NoJob /\ job' = Merge
    BY <1>1 DEF NoJob, Merge
  <2> QED  BY <1>1, <1>2, <1>3, <1>5, <1>6, <2>1 DEF Shape
<1>8. Kept(disk, c, stored', Merge)
  <2>1. \A m \in Keys : More(Merge, m) = 0
    <3>1. \A m \in Keys : Merge # <<"insert", m>>
      BY DEF Merge
    <3> QED  BY <3>1 DEF More
  <2>2. Done(c[Len(c)], stored', Merge)
    BY <1>5, <1>6, <2>1 DEF Done
  <2>3. \A m \in Keys : stored'[m] <= InDisk(disk, m)
    BY <1>6
  <2>4. \A i \in 1..Len(c) : \A m \in Keys : stored'[m] <= InDisk(c[i], m)
    BY <1>5, <1>6
  <2> QED  BY <1>5, <2>2, <2>3, <2>4 DEF Kept, Safe
<1>9. ~torn => NearlyNumbered(disk, c)
  <2>1. ASSUME ~torn PROVE NearlyNumbered(disk, c)
    <3>1. Numbered(disk.over)
      BY <1>1, <2>1, RestingDisk
    <3>2. AlmostNumbered(disk.over)
      BY <3>1 DEF Numbered, AlmostNumbered
    <3> QED  BY <1>5, <3>1, <3>2 DEF NearlyNumbered
  <2> QED  BY <2>1
<1>10. Promise'
  BY <1>1, <1>3, <1>8, <1>9 DEF Promise
<1> QED  BY <1>7, <1>10 DEF SInv

(* A sequence that is not empty has a first element. *)
LEMMA NotEmpty ==
  ASSUME NEW S, NEW s \in Seq(S), s # <<>>
  PROVE  Len(s) \in Nat \ {0}
OBVIOUS

(* The writes after the first. *)
LEMMA TailWrites ==
  ASSUME NEW c \in Seq(Disks), c # <<>>
  PROVE  /\ Head(c) \in Disks /\ Head(c) = c[1] /\ Tail(c) \in Seq(Disks)
         /\ Len(c) \in Nat \ {0} /\ Len(Tail(c)) = Len(c) - 1
         /\ \A i \in 1..Len(Tail(c)) : Tail(c)[i] = c[i + 1]
         /\ Tail(c) = <<>> <=> Len(c) = 1
<1>1. Len(c) \in Nat \ {0} /\ Head(c) = c[1] /\ c[1] \in Disks
  OBVIOUS
<1>2. PICK t : t = Tail(c)
  OBVIOUS
<1>3. t \in Seq(Disks) /\ Len(t) = Len(c) - 1
  BY <1>2
<1>4. \A i \in 1..Len(t) : t[i] = c[i + 1]
  BY <1>2
<1>5. t = <<>> <=> Len(t) = 0
  <2>1. Len(<<>>) = 0
    OBVIOUS
  <2>2. t # <<>> => Len(t) # 0
    BY <1>3, NotEmpty
  <2> QED  BY <2>1, <2>2
<1>6. Len(t) = 0 <=> Len(c) = 1
  BY <1>1, <1>3
<1> QED  BY <1>1, <1>2, <1>3, <1>4, <1>5, <1>6

(* What the writes promise is promised by the writes after the first. *)
LEMMA KeptByTail ==
  ASSUME NEW c \in Seq(Disks), c # <<>>, NEW d, NEW kept, NEW call
  PROVE  /\ Kept(d, c, kept, call) => Kept(Head(c), Tail(c), kept, call)
         /\ NearlyNumbered(d, c) => NearlyNumbered(Head(c), Tail(c))
<1>1. PICK t, h : t = Tail(c) /\ h = Head(c)
  OBVIOUS
<1>2. /\ h = c[1] /\ t \in Seq(Disks) /\ Len(c) \in Nat \ {0} /\ Len(t) = Len(c) - 1
      /\ \A i \in 1..Len(t) : t[i] = c[i + 1]
      /\ t = <<>> <=> Len(c) = 1
  BY <1>1, TailWrites
<1>3. 1 \in 1..Len(c) /\ \A i \in 1..Len(t) : i + 1 \in 1..Len(c)
  BY <1>2
<1>4. (IF t = <<>> THEN h ELSE t[Len(t)]) = c[Len(c)]
  <2>1. CASE t = <<>>
    BY <1>2, <2>1
  <2>2. CASE t # <<>>
    <3>1. Len(t) \in 1..Len(t) /\ Len(t) + 1 = Len(c)
      BY <1>2, <2>2
    <3> QED  BY <1>2, <2>2, <3>1
  <2> QED  BY <2>1, <2>2
<1>5. ASSUME Kept(d, c, kept, call) PROVE Kept(h, t, kept, call)
  <2>1. (\A i \in 1..Len(c) : Safe(c[i], kept)) /\ Done(c[Len(c)], kept, call)
    BY <1>5 DEF Kept
  <2>2. Safe(h, kept) /\ \A i \in 1..Len(t) : Safe(t[i], kept)
    BY <1>2, <1>3, <2>1
  <2> QED  BY <1>4, <2>1, <2>2 DEF Kept
<1>6. NearlyNumbered(d, c) => NearlyNumbered(h, t)
  BY <1>2, <1>3 DEF NearlyNumbered
<1> QED  BY <1>1, <1>5, <1>6

LEMMA PageWritten ==
  ASSUME Parameters, SInv, WritePage
  PROVE  SInv'
<1>1. /\ coming \in Seq(Disks) /\ coming # <<>> /\ stored \in [Keys -> Nat]
      /\ job \in {Merge} \cup ({"insert"} \X Keys) /\ job # NoJob
      /\ torn \in BOOLEAN /\ stops \in 0..MaxStops
  BY DEF SInv, Shape, WritePage
<1>2. disk' = Head(coming) /\ coming' = Tail(coming) /\ stops' = stops
  BY DEF WritePage
<1>3. disk' \in Disks /\ coming' \in Seq(Disks)
  BY <1>1, <1>2, TailWrites
<1>4. ~torn \/ job = Merge => Kept(disk', coming', stored, job)
  BY <1>1, <1>2, KeptByTail DEF SInv, Promise
<1>5. ~torn => NearlyNumbered(disk', coming')
  BY <1>1, <1>2, KeptByTail DEF SInv, Promise
<1>6. CASE coming' # <<>>
  <2>1. job' = job /\ stored' = stored /\ torn' = torn
    BY <1>6 DEF WritePage
  <2>2. Shape'
    BY <1>1, <1>2, <1>3, <1>6, <2>1 DEF Shape
  <2> QED  BY <1>4, <1>5, <2>1, <2>2 DEF SInv, Promise
<1>7. CASE coming' = <<>>
  <2>1. /\ job' = NoJob /\ torn' = (torn /\ job # Merge)
        /\ stored' = IF torn \/ job = Merge THEN stored ELSE [stored EXCEPT ![job[2]] = @ + 1]
    BY <1>7 DEF WritePage
  <2>2. job' # Merge
    BY <2>1 DEF NoJob, Merge
  <2>3. ~torn \/ job = Merge => Done(disk', stored, job)
    BY <1>4, <1>7 DEF Kept
  <2>4. CASE torn /\ job # Merge
    <3>1. stored' = stored /\ torn' = TRUE
      BY <2>1, <2>4
    <3>2. Shape'
      BY <1>1, <1>2, <1>3, <1>7, <2>1, <3>1 DEF Shape
    <3> QED  BY <2>2, <3>1, <3>2 DEF SInv, Promise
  <2>5. CASE ~torn \/ job = Merge
    <3>1. torn' = FALSE
      BY <1>1, <2>1, <2>5
    <3>2. stored' \in [Keys -> Nat] /\ \A m \in Keys : stored'[m] = stored[m] + More(job, m)
      <4>1. CASE job = Merge
        <5>1. \A m \in Keys : More(job, m) = 0
          <6>1. \A m \in Keys : Merge # <<"insert", m>>
            BY DEF Merge
          <6> QED  BY <4>1, <6>1 DEF More
        <5>2. \A m \in Keys : stored[m] + 0 = stored[m]
          BY <1>1
        <5> QED  BY <1>1, <2>1, <4>1, <5>1, <5>2
      <4>2. CASE job # Merge
        <5>1. PICK k \in Keys : job = <<"insert", k>>
          BY <1>1, <4>2
        <5>2. job[2] = k /\ \A m \in Keys : More(job, m) = IF m = k THEN 1 ELSE 0
          BY <5>1 DEF More
        <5>3. stored' = [stored EXCEPT ![k] = stored[k] + 1]
          BY <2>1, <2>5, <4>2, <5>2
        <5>4. \A m \in Keys : stored'[m] = IF m = k THEN stored[m] + 1 ELSE stored[m]
          BY <1>1, <5>3
        <5>5. \A m \in Keys : stored[m] \in Nat
          BY <1>1
        <5>6. DOMAIN stored' = Keys /\ stored' = [m \in Keys |-> stored'[m]]
          BY <1>1, <5>3
        <5>7. \A m \in Keys : stored'[m] \in Nat
          BY <5>4, <5>5
        <5>8. stored' \in [Keys -> Nat]
          BY <5>6, <5>7
        <5>9. \A m \in Keys : stored'[m] = stored[m] + More(job, m)
          BY <5>2, <5>4, <5>5
        <5> QED  BY <5>8, <5>9
      <4> QED  BY <4>1, <4>2
    <3>3. Numbered(disk'.over) /\ \A m \in Keys : InDisk(disk', m) = stored'[m]
      BY <2>3, <2>5, <3>2 DEF Done
    <3>4. Kept(disk', <<>>, stored', NoJob) /\ NearlyNumbered(disk', <<>>)
      BY <1>3, <3>2, <3>3, AtEnd
    <3>5. Shape'
      BY <1>1, <1>2, <1>3, <1>7, <2>1, <3>1, <3>2 DEF Shape
    <3> QED  BY <1>7, <2>1, <3>1, <3>4, <3>5 DEF SInv, Promise
  <2> QED  BY <1>1, <2>4, <2>5
<1> QED  BY <1>6, <1>7

LEMMA ProcessStops ==
  ASSUME Parameters, SInv, Stop
  PROVE  SInv'
<1>1. /\ disk' = disk /\ coming' = <<>> /\ job' = NoJob /\ stored' = Content(disk)
      /\ torn' = (torn \/ Broken(disk))
      /\ stops' = stops + 1 /\ stops < MaxStops
  BY DEF Stop
<1>2. disk \in Disks /\ torn \in BOOLEAN /\ stops \in 0..MaxStops
  BY DEF SInv, Shape
<1>3. stored' \in [Keys -> Nat] /\ \A m \in Keys : InDisk(disk, m) = stored'[m]
  BY <1>1, <1>2, ContentOfDisk
<1>4. Broken(disk) \in BOOLEAN
  BY DEF Broken
<1>5. Shape'
  <2>1. stops' \in 0..MaxStops
    BY <1>1, <1>2 DEF Parameters
  <2>2. coming' \in Seq(Disks) /\ torn' \in BOOLEAN
    BY <1>1, <1>2, <1>4
  <2> QED  BY <1>1, <1>2, <1>3, <2>1, <2>2 DEF Shape
<1>6. job' # Merge
  BY <1>1 DEF NoJob, Merge
<1>7. ASSUME ~torn' PROVE Kept(disk, <<>>, stored', NoJob) /\ NearlyNumbered(disk, <<>>)
  <2>1. ~torn /\ ~Broken(disk)
    BY <1>1, <1>7
  <2>2. AlmostNumbered(disk.over)
    BY <2>1 DEF SInv, Promise, NearlyNumbered
  <2>3. Numbered(disk.over)
    <3>1. PICK n \in Nat \ {0} : Count(disk.over) = n /\ DOMAIN disk.over = 0..(n - 1)
      BY <1>2, DiskCounts, AreaSize
    <3>2. \A p \in 0..(n - 1) : p < n - 1 \/ p = n - 1
      OBVIOUS
    <3>3. disk.over[n - 1].id = n - 1
      BY <2>1, <3>1 DEF Broken
    <3> QED  BY <2>2, <3>1, <3>2, <3>3 DEF AlmostNumbered, Numbered
  <2> QED  BY <1>2, <1>3, <2>3, AtEnd
<1>8. Promise'
  BY <1>1, <1>6, <1>7 DEF Promise
<1> QED  BY <1>5, <1>8 DEF SInv

(* No step breaks it. *)
LEMMA StepKeeps ==
  ASSUME Parameters, SInv, [Next]_vars
  PROVE  SInv'
<1>1. ASSUME NEW k \in Keys, StartInsert(k) PROVE SInv'
  BY <1>1, InsertStarts
<1>2. CASE StartReorganize
  BY <1>2, ReorganizeStarts
<1>3. CASE WritePage
  BY <1>3, PageWritten
<1>4. CASE Stop
  BY <1>4, ProcessStops
<1>5. CASE UNCHANGED vars
  BY <1>5 DEF vars, SInv, Shape, Promise
<1> QED  BY <1>1, <1>2, <1>3, <1>4, <1>5 DEF Next

-----------------------------------------------------------------------------
(* The chains of overflow.                                                 *)

KeyOf(f, x)  == RecordAt(f, x).key
NextOf(f, x) == RecordAt(f, x).next

(* What the halving finds for a key. *)
IsPageFor(f, p, k) ==
  /\ p \in DOMAIN f
  /\ p = 0 \/ StartsBy(f, p, k)
  /\ \A q \in DOMAIN f : p < q => ~StartsBy(f, q, k)

(* The record of the main area that a record with key k is chained from, if the
   page is full: the last one below it, or the first of the page.          *)
IsOwner(f, x, k) ==
  /\ x \in Places(f) /\ IsPageFor(f, x[1], k)
  /\ x[2] = 1 \/ KeyOf(f, x) < k
  /\ \A i \in 1..Len(f[x[1]].records) : x[2] < i => k <= f[x[1]].records[i].key

(* Record y of overflow comes right after the record of the main area that it
   belongs to, or after one of A that belongs to the same.                 *)
FollowsOne(d, A, x, y) ==
  \E z \in A : IsOwner(d.main, x, KeyOf(d.over, z)) /\ NextOf(d.over, z) = y
Hangs(d, A, x, y) ==
  /\ IsOwner(d.main, x, KeyOf(d.over, y)) /\ Full(d.main[x[1]].records)
  /\ NextOf(d.main, x) = y \/ FollowsOne(d, A, x, y)
Hung(d, A, y) == \E x \in Places(d.main) : Hangs(d, A, x, y)

(* A is the part of overflow that is on chains; of the keys in the rest, the
   main area has one.                                                      *)
OnChains(d, A) ==
  /\ A \subseteq Places(d.over)
  /\ \A y \in A : Hung(d, A, y)
  /\ \A y \in Places(d.over) : y \in A \/ Held(d.main, KeyOf(d.over, y)) # 0

(* A link leads into overflow, and there to a record that is older. *)
LeadsIn(f, place)   == place = Nowhere \/ place \in Places(f)
LeadsDown(f, y)     == NextOf(f, y) = Nowhere \/ (NextOf(f, y) \in Places(f) /\ Before(NextOf(f, y), y))

Chains(d) ==
  /\ \A x \in Places(d.main) : LeadsIn(d.over, NextOf(d.main, x))
  /\ \A y \in Places(d.over) : LeadsDown(d.over, y)
  /\ \E A : OnChains(d, A)

(* Until a stop has torn one, chains are whole when a call returns, and wherever
   it may stop without tearing one.                                        *)
Intact(d) == Broken(d) \/ Chains(d)
LinkPromise ==
  /\ ~torn => Intact(disk) /\ \A i \in 1..Len(coming) : Intact(coming[i])
  /\ ~torn \/ job = Merge => Chains(IF coming = <<>> THEN disk ELSE coming[Len(coming)])

-----------------------------------------------------------------------------
(* Records of an area by their place in the reading.                       *)

Rank(read, y) == Len(read[y[1]]) + y[2]

LEMMA ReadGrows ==
  ASSUME NEW f \in Areas, NEW read, Reads(read, f)
  PROVE  /\ \A n \in 0..Count(f) : Len(read[n]) \in Nat
         /\ \A n \in 1..Count(f) : Len(read[n]) = Len(read[n - 1]) + Len(f[n - 1].records)
         /\ \A m, n \in 0..Count(f) : m <= n => Len(read[m]) <= Len(read[n])
<1>1. Count(f) \in Nat \ {0} /\ DOMAIN f = 0..(Count(f) - 1) /\ \A p \in DOMAIN f : f[p] \in PageNode
  BY AreaSize
<1>2. \A n \in 0..Count(f) : read[n] \in Seq(Rec) /\ Len(read[n]) \in Nat
  BY DEF Reads
<1>3. ASSUME NEW n \in 1..Count(f)
      PROVE  Len(read[n]) = Len(read[n - 1]) + Len(f[n - 1].records) /\ Len(f[n - 1].records) \in Nat
  <2>1. n - 1 \in DOMAIN f /\ n - 1 \in 0..Count(f)
    BY <1>1
  <2>2. f[n - 1].records \in Seq(Rec)
    BY <1>1, <2>1 DEF PageNode
  <2>3. read[n] = read[n - 1] \o f[n - 1].records
    BY DEF Reads
  <2>4. read[n - 1] \in Seq(Rec)
    BY <1>2, <2>1
  <2> QED  BY <2>2, <2>3, <2>4
<1>4. ASSUME NEW m \in 0..Count(f), NEW n \in 0..Count(f), m <= n PROVE Len(read[m]) <= Len(read[n])
  <2>1. PICK G : G = {i \in 0..Count(f) : i < m \/ Len(read[m]) <= Len(read[i])}
    OBVIOUS
  <2>2. 0 \in G
    BY <1>1, <1>2, <2>1
  <2>3. ASSUME NEW i \in 1..Count(f), i - 1 \in G PROVE i \in G
    <3>1. i - 1 < m \/ Len(read[m]) <= Len(read[i - 1])
      BY <2>1, <2>3
    <3>2. Len(read[i]) = Len(read[i - 1]) + Len(f[i - 1].records) /\ Len(f[i - 1].records) \in Nat
      BY <1>3
    <3>3. Len(read[i]) \in Nat /\ Len(read[i - 1]) \in Nat /\ Len(read[m]) \in Nat
      BY <1>1, <1>2
    <3>4. i < m \/ i = m \/ Len(read[m]) <= Len(read[i - 1])
      BY <3>1
    <3>5. Len(read[m]) <= Len(read[i - 1]) => Len(read[m]) <= Len(read[i])
      <4>1. PICK a, b, c, d : a = Len(read[m]) /\ b = Len(read[i - 1]) /\ c = Len(f[i - 1].records) /\ d = Len(read[i])
        OBVIOUS
      <4>2. d = b + c /\ a \in Nat /\ b \in Nat /\ c \in Nat
        BY <3>2, <3>3, <4>1
      <4>3. a <= b => a <= d
        BY <4>2
      <4> QED  BY <4>1, <4>3
    <3>6. i = m => Len(read[m]) <= Len(read[i])
      BY <3>3
    <3>7. i < m \/ Len(read[m]) <= Len(read[i])
      BY <3>4, <3>5, <3>6
    <3> QED  BY <1>1, <2>1, <3>7
  <2>4. \A i \in 0..Count(f) : i \in G
    BY <1>1, <2>2, <2>3, EveryRound
  <2>5. n \in G
    BY <2>4
  <2> QED  BY <1>4, <2>1, <2>5
<1> QED  BY <1>2, <1>3, <1>4

(* The ranks are those of the records read, and grow with the place. *)
LEMMA Ranks ==
  ASSUME NEW f \in Areas, NEW read, Reads(read, f)
  PROVE  /\ Len(RecordsOf(f)) \in Nat
         /\ \A y \in Places(f) : Rank(read, y) \in 1..Len(RecordsOf(f))
         /\ \A y, z \in Places(f) : Before(y, z) => Rank(read, y) < Rank(read, z)
<1>1. Count(f) \in Nat \ {0} /\ DOMAIN f = 0..(Count(f) - 1)
  BY AreaSize
<1>2. /\ \A n \in 0..Count(f) : Len(read[n]) \in Nat
      /\ \A n \in 1..Count(f) : Len(read[n]) = Len(read[n - 1]) + Len(f[n - 1].records)
      /\ \A m, n \in 0..Count(f) : m <= n => Len(read[m]) <= Len(read[n])
  BY ReadGrows
<1>3. RecordsOf(f) = read[Count(f)]
  BY DEF Reads
<1>4. ASSUME NEW y \in Places(f)
      PROVE  /\ y[1] \in 0..(Count(f) - 1) /\ y[2] \in Nat \ {0}
             /\ Rank(read, y) \in Nat
             /\ Rank(read, y) <= Len(read[y[1] + 1]) /\ Len(read[y[1]]) < Rank(read, y)
  <2>1. y[1] \in DOMAIN f /\ y[2] \in 1..Len(f[y[1]].records)
    BY PlaceShape
  <2>2. PICK p : p = y[1]
    OBVIOUS
  <2>3. PICK n : n = p + 1
    OBVIOUS
  <2>7. p \in 0..(Count(f) - 1) /\ n \in 1..Count(f) /\ p \in 0..Count(f) /\ n \in 0..Count(f) /\ n - 1 = p
    BY <1>1, <2>1, <2>2, <2>3
  <2>4. f[p].records \in Seq(Rec)
    BY <2>1, <2>2, PageHolds
  <2>5. Len(f[p].records) \in Nat
    BY <2>4
  <2>6. Len(read[n]) = Len(read[p]) + Len(f[p].records) /\ Len(read[p]) \in Nat /\ Len(read[n]) \in Nat
    BY <1>2, <2>7
  <2>8. Rank(read, y) = Len(read[p]) + y[2] /\ read[n] = read[y[1] + 1]
    BY <2>2, <2>3 DEF Rank
  <2>9. PICK a, b, c, i, r : a = Len(read[p]) /\ b = Len(read[n]) /\ c = Len(f[p].records) /\ i = y[2] /\ r = Rank(read, y)
    OBVIOUS
  <2>10. a \in Nat /\ c \in Nat /\ i \in 1..c /\ b = a + c /\ r = a + i
    BY <2>1, <2>2, <2>5, <2>6, <2>8, <2>9
  <2>11. i \in Nat \ {0} /\ r \in Nat /\ r <= b /\ a < r
    BY <2>10
  <2>12. a = Len(read[y[1]]) /\ b = Len(read[y[1] + 1])
    BY <2>2, <2>8, <2>9
  <2> QED  BY <2>2, <2>7, <2>9, <2>11, <2>12
<1>5. ASSUME NEW y \in Places(f) PROVE Rank(read, y) \in 1..Len(RecordsOf(f))
  <2>1. PICK p : p = y[1] + 1
    OBVIOUS
  <2>2. p \in 0..Count(f) /\ y[1] \in 0..Count(f) /\ Count(f) \in 0..Count(f) /\ p <= Count(f)
    BY <1>1, <1>4, <2>1
  <2>3. Len(read[p]) <= Len(read[Count(f)]) /\ Len(read[y[1]]) \in Nat /\ Len(read[Count(f)]) \in Nat /\ Len(read[p]) \in Nat
    BY <1>2, <2>2
  <2> QED  BY <1>3, <1>4, <2>1, <2>3
<1>6. ASSUME NEW y \in Places(f), NEW z \in Places(f), Before(y, z) PROVE Rank(read, y) < Rank(read, z)
  <2>1. CASE y[1] = z[1]
    <3>1. y[2] < z[2]
      BY <1>4, <1>6, <2>1 DEF Before
    <3>2. Len(read[y[1]]) \in Nat
      BY <1>1, <1>2, <1>4
    <3> QED  BY <1>4, <2>1, <3>1, <3>2 DEF Rank
  <2>2. CASE y[1] # z[1]
    <3>1. y[1] < z[1]
      BY <1>6, <2>2 DEF Before
    <3>2. PICK p, q : p = y[1] + 1 /\ q = z[1]
      OBVIOUS
    <3>3. p \in 0..Count(f) /\ q \in 0..Count(f) /\ p <= q
      BY <1>1, <1>4, <3>1, <3>2
    <3>4. Len(read[p]) <= Len(read[q]) /\ Len(read[p]) \in Nat /\ Len(read[q]) \in Nat
      BY <1>2, <3>3
    <3> QED  BY <1>4, <3>2, <3>4
  <2> QED  BY <2>1, <2>2
<1>7. Len(RecordsOf(f)) \in Nat
  BY <1>1, <1>2, <1>3
<1> QED  BY <1>5, <1>6, <1>7

-----------------------------------------------------------------------------
(* Following a chain.                                                      *)

(* What no record is at. *)
LEMMA NoPlace ==
  ASSUME NEW f \in Areas
  PROVE  Nowhere \notin Places(f)
<1>1. \A x \in Places(f) : x[1] \in DOMAIN f
  BY PlaceShape
<1>2. DOMAIN f = 0..(Count(f) - 1) /\ Count(f) \in Nat
  BY AreaSize
<1>3. Nowhere[1] = -1 /\ -1 \notin 0..(Count(f) - 1)
  BY <1>2 DEF Nowhere
<1> QED  BY <1>1, <1>2, <1>3

WalkStates(f) == [places : Seq(Places(f)), at : Places(f) \cup {Nowhere}]
Passed(s)     == {s.places[i] : i \in 1..Len(s.places)}

(* After n rounds: what is passed has, with a record, the next one, up to where
   the walk stands; and that is below by as many ranks.                    *)
Walked(f, read, from, n, s) ==
  /\ s \in WalkStates(f)
  /\ Len(s.places) <= n
  /\ s.at = Nowhere \/ Rank(read, s.at) + n <= Len(RecordsOf(f))
  /\ from = s.at \/ from \in Passed(s)
  /\ \A y \in Passed(s) : NextOf(f, y) = s.at \/ NextOf(f, y) \in Passed(s)

LEMMA PassedOne ==
  ASSUME NEW S, NEW t \in Seq(S), NEW x \in S
  PROVE  /\ Append(t, x) \in Seq(S) /\ Len(Append(t, x)) = Len(t) + 1 /\ Len(t) \in Nat
         /\ {Append(t, x)[i] : i \in 1..Len(Append(t, x))} = {t[i] : i \in 1..Len(t)} \cup {x}
<1>1. PICK n \in Nat : n = Len(t)
  OBVIOUS
<1>2. PICK u : u = Append(t, x)
  OBVIOUS
<1>3. u \in Seq(S) /\ Len(u) = n + 1
  BY <1>1, <1>2
<1>4. u[n + 1] = x /\ \A i \in 1..n : u[i] = t[i]
  BY <1>1, <1>2
<1>5. 1..(n + 1) = (1..n) \cup {n + 1}
  OBVIOUS
<1>6. {u[i] : i \in 1..(n + 1)} = {t[i] : i \in 1..n} \cup {x}
  BY <1>4, <1>5
<1> QED  BY <1>1, <1>2, <1>3, <1>6

(* One step: it ends, or one more record is passed. *)
LEMMA FollowShape ==
  ASSUME disk.over \in Areas, \A y \in Places(disk.over) : LeadsDown(disk.over, y),
         NEW s \in WalkStates(disk.over)
  PROVE  /\ Follow(s) \in WalkStates(disk.over)
         /\ s.at = Nowhere => Follow(s) = s
         /\ s.at # Nowhere =>
              /\ s.at \in Places(disk.over)
              /\ Len(Follow(s).places) = Len(s.places) + 1
              /\ Passed(Follow(s)) = Passed(s) \cup {s.at}
              /\ Follow(s).at = NextOf(disk.over, s.at)
<1>1. PICK f : f = disk.over
  OBVIOUS
<1>2. f \in Areas /\ \A y \in Places(f) : LeadsDown(f, y)
  BY <1>1
<1>3. s.places \in Seq(Places(f)) /\ s.at \in Places(f) \cup {Nowhere}
  BY <1>1 DEF WalkStates
<1>4. CASE s.at = Nowhere
  BY <1>4 DEF Follow
<1>5. CASE s.at # Nowhere
  <2>1. PICK t, x : t = s.places /\ x = s.at
    OBVIOUS
  <2>2. t \in Seq(Places(f)) /\ x \in Places(f)
    BY <1>3, <1>5, <2>1
  <2>3. x[2] \in 1..Len(f[x[1]].records) /\ x[1] \in DOMAIN f
    BY <1>2, <2>2, PlaceShape
  <2>4. Len(f[x[1]].records) \in Nat
    BY <1>2, <2>3, PageHolds
  <2>5. ~(x[2] > Len(f[x[1]].records))
    BY <2>3, <2>4
  <2>6. Follow(s) = [places |-> Append(t, x), at |-> NextOf(f, x)]
    BY <1>1, <1>5, <2>1, <2>5 DEF Follow, NextOf
  <2>7. Append(t, x) \in Seq(Places(f)) /\ Len(Append(t, x)) = Len(t) + 1
        /\ {Append(t, x)[i] : i \in 1..Len(Append(t, x))} = {t[i] : i \in 1..Len(t)} \cup {x}
    BY <2>2, PassedOne
  <2>8. NextOf(f, x) \in Places(f) \cup {Nowhere}
    BY <1>2, <2>2 DEF LeadsDown
  <2>9. Follow(s) \in WalkStates(f)
    BY <2>6, <2>7, <2>8 DEF WalkStates
  <2>10. Passed(Follow(s)) = Passed(s) \cup {x}
    BY <2>1, <2>6, <2>7 DEF Passed
  <2>11. Follow(s).places = Append(t, x) /\ Follow(s).at = NextOf(f, x)
    BY <2>6
  <2>12. Len(Follow(s).places) = Len(s.places) + 1
    BY <2>1, <2>7, <2>11
  <2>13. Follow(s) \in WalkStates(disk.over)
    BY <1>1, <2>9
  <2>14. s.at \in Places(disk.over) /\ Follow(s).at = NextOf(disk.over, s.at)
    BY <1>1, <2>1, <2>2, <2>11
  <2>15. Passed(Follow(s)) = Passed(s) \cup {s.at}
    BY <2>1, <2>10
  <2> QED  BY <1>5, <2>12, <2>13, <2>14, <2>15
<1> QED  BY <1>4, <1>5

LEMMA WalkedOneMore ==
  ASSUME disk.over \in Areas, \A y \in Places(disk.over) : LeadsDown(disk.over, y),
         NEW read, Reads(read, disk.over), NEW from, NEW n \in Nat,
         NEW s, Walked(disk.over, read, from, n, s)
  PROVE  Walked(disk.over, read, from, n + 1, Follow(s))
<1>1. PICK f, t : f = disk.over /\ t = Follow(s)
  OBVIOUS
<1>2. f \in Areas /\ \A y \in Places(f) : LeadsDown(f, y)
  BY <1>1
<1>3. /\ s \in WalkStates(f) /\ Len(s.places) <= n
      /\ s.at = Nowhere \/ Rank(read, s.at) + n <= Len(RecordsOf(f))
      /\ from = s.at \/ from \in Passed(s)
      /\ \A y \in Passed(s) : NextOf(f, y) = s.at \/ NextOf(f, y) \in Passed(s)
  BY <1>1 DEF Walked
<1>4. /\ t \in WalkStates(f)
      /\ s.at = Nowhere => t = s
      /\ s.at # Nowhere => /\ s.at \in Places(f)
                           /\ Len(t.places) = Len(s.places) + 1
                           /\ Passed(t) = Passed(s) \cup {s.at}
                           /\ t.at = NextOf(f, s.at)
  BY <1>1, <1>3, FollowShape
<1>5. Len(s.places) \in Nat
  BY <1>3 DEF WalkStates
<1>6. CASE s.at = Nowhere
  <2>1. Len(s.places) <= n + 1
    BY <1>3, <1>5
  <2> QED  BY <1>1, <1>3, <1>4, <1>6, <2>1 DEF Walked
<1>7. CASE s.at # Nowhere
  <2>1. Len(t.places) <= n + 1
    BY <1>3, <1>4, <1>5, <1>7
  <2>2. t.at = Nowhere \/ Rank(read, t.at) + (n + 1) <= Len(RecordsOf(f))
    <3>1. SUFFICES ASSUME t.at # Nowhere PROVE Rank(read, t.at) + (n + 1) <= Len(RecordsOf(f))
      OBVIOUS
    <3>2. PICK x, y : x = s.at /\ y = t.at
      OBVIOUS
    <3>3. x \in Places(f) /\ y = NextOf(f, x) /\ y # Nowhere
      BY <1>4, <1>7, <3>1, <3>2
    <3>4. LeadsDown(f, x)
      BY <1>2, <3>3
    <3>5. y \in Places(f) /\ Before(y, x)
      BY <3>3, <3>4 DEF LeadsDown
    <3>6. /\ Len(RecordsOf(f)) \in Nat
          /\ \A z \in Places(f) : Rank(read, z) \in 1..Len(RecordsOf(f))
          /\ \A z, w \in Places(f) : Before(z, w) => Rank(read, z) < Rank(read, w)
      BY <1>1, <1>2, Ranks
    <3>7. Rank(read, y) < Rank(read, x) /\ Rank(read, x) \in Nat /\ Rank(read, y) \in Nat
      BY <3>3, <3>5, <3>6
    <3>8. Rank(read, x) + n <= Len(RecordsOf(f))
      BY <1>3, <1>7, <3>2
    <3> QED  BY <3>2, <3>6, <3>7, <3>8
  <2>3. from = t.at \/ from \in Passed(t)
    BY <1>3, <1>4, <1>7
  <2>4. \A y \in Passed(t) : NextOf(f, y) = t.at \/ NextOf(f, y) \in Passed(t)
    BY <1>3, <1>4, <1>7
  <2> QED  BY <1>1, <1>4, <2>1, <2>2, <2>3, <2>4 DEF Walked
<1> QED  BY <1>6, <1>7

(* The chain from a place: it ends, and has with a record the next one. *)
ChainOf(f, from, c) ==
  /\ c \in Seq(Places(f)) /\ Len(c) <= Len(RecordsOf(f))
  /\ LeadsIn(f, from) => from = Nowhere \/ from \in ToSet(c)
  /\ ToSet(c) \subseteq Places(f)
  /\ \A y \in ToSet(c) : NextOf(f, y) = Nowhere \/ NextOf(f, y) \in ToSet(c)

LEMMA WalkEnds ==
  ASSUME disk.over \in Areas, \A y \in Places(disk.over) : LeadsDown(disk.over, y),
         NEW from, LeadsIn(disk.over, from), NEW read, Reads(read, disk.over),
         NEW N \in Nat, N = Len(RecordsOf(disk.over)) + 1, NEW g,
         g[0] = [places |-> <<>>, at |-> from],
         \A n \in 1..N : g[n] = Follow(g[n - 1])
  PROVE  ChainOf(disk.over, from, g[N].places)
<1>1. PICK f, T : f = disk.over /\ T = Len(RecordsOf(f))
  OBVIOUS
<1>2. f \in Areas /\ LeadsIn(f, from) /\ Reads(read, f)
  BY <1>1
<1>3. T \in Nat /\ N = T + 1 /\ \A z \in Places(f) : Rank(read, z) \in 1..T
  BY <1>1, <1>2, Ranks
<1>4. PICK e : e = <<>>
  OBVIOUS
<1>5. e \in Seq(Places(f)) /\ Len(e) = 0 /\ 1..0 = {}
  BY <1>4
<1>6. from \in Places(f) \cup {Nowhere}
  BY <1>2 DEF LeadsIn
<1>7. g[0].places = e /\ g[0].at = from /\ g[0] = [places |-> e, at |-> from]
  BY <1>4
<1>8. Walked(f, read, from, 0, g[0])
  <2>1. g[0] \in WalkStates(f)
    BY <1>5, <1>6, <1>7 DEF WalkStates
  <2>2. Passed(g[0]) = {}
    BY <1>5, <1>7 DEF Passed
  <2>3. from = Nowhere \/ Rank(read, from) + 0 <= T
    BY <1>3, <1>6
  <2> QED  BY <1>1, <1>5, <1>7, <2>1, <2>2, <2>3 DEF Walked
<1>9. PICK G : G = {n \in 0..N : Walked(f, read, from, n, g[n])}
  OBVIOUS
<1>10. 0 \in G
  BY <1>8, <1>9
<1>11. ASSUME NEW n \in 1..N, n - 1 \in G PROVE n \in G
  <2>1. PICK m \in Nat : m = n - 1 /\ n = m + 1
    BY <1>11
  <2>2. Walked(f, read, from, m, g[m])
    BY <1>9, <1>11, <2>1
  <2>3. Walked(disk.over, read, from, m + 1, Follow(g[m]))
    BY <1>1, <2>2, WalkedOneMore
  <2>4. g[n] = Follow(g[m])
    BY <2>1
  <2>5. Walked(f, read, from, n, g[n])
    BY <1>1, <2>1, <2>3, <2>4
  <2> QED  BY <1>9, <2>5
<1>12. \A n \in 0..N : n \in G
  BY <1>10, <1>11, EveryRound
<1>13. PICK s : s = g[T]
  OBVIOUS
<1>14. Walked(f, read, from, T, s)
  <2>1. T \in 0..N
    BY <1>3
  <2> QED  BY <1>9, <1>12, <1>13, <2>1
<1>15. /\ s \in WalkStates(f) /\ Len(s.places) <= T
       /\ s.at = Nowhere \/ Rank(read, s.at) + T <= T
       /\ from = s.at \/ from \in Passed(s)
       /\ \A y \in Passed(s) : NextOf(f, y) = s.at \/ NextOf(f, y) \in Passed(s)
  BY <1>1, <1>14 DEF Walked
<1>16. s.at = Nowhere
  <2>1. SUFFICES ASSUME s.at # Nowhere PROVE FALSE
    OBVIOUS
  <2>2. PICK y : y = s.at
    OBVIOUS
  <2>3. y \in Places(f)
    BY <1>15, <2>1, <2>2 DEF WalkStates
  <2>4. Rank(read, y) \in 1..T
    BY <1>3, <2>3
  <2>5. Rank(read, y) + T <= T
    BY <1>15, <2>1, <2>2
  <2> QED  BY <1>3, <2>4, <2>5
<1>17. g[N] = s
  <2>1. N \in 1..N /\ N - 1 = T
    BY <1>3
  <2>2. g[N] = Follow(g[T])
    BY <2>1
  <2>3. Follow(s) = s
    BY <1>1, <1>15, <1>16, FollowShape
  <2> QED  BY <1>13, <2>2, <2>3
<1>18. PICK c : c = s.places
  OBVIOUS
<1>19. c \in Seq(Places(f)) /\ Passed(s) = ToSet(c)
  <2>1. c \in Seq(Places(f))
    BY <1>15, <1>18 DEF WalkStates
  <2>2. DOMAIN c = 1..Len(c)
    BY <2>1
  <2> QED  BY <1>18, <2>1, <2>2 DEF Passed, ToSet
<1>20. ToSet(c) \subseteq Places(f)
  <2>1. \A i \in 1..Len(c) : c[i] \in Places(f)
    BY <1>19
  <2> QED  BY <1>18, <1>19, <2>1 DEF Passed
<1>21. ChainOf(f, from, c)
  BY <1>1, <1>15, <1>16, <1>18, <1>19, <1>20 DEF ChainOf
<1> QED  BY <1>1, <1>17, <1>18, <1>21

LEMMA ChainShape ==
  ASSUME disk.over \in Areas, \A y \in Places(disk.over) : LeadsDown(disk.over, y),
         NEW from, LeadsIn(disk.over, from)
  PROVE  ChainOf(disk.over, from, Chain(from))
<1>1. PICK read : Reads(read, disk.over)
  BY ReadLoop
<1>2. Len(RecordsOf(disk.over)) \in Nat
  BY <1>1, Ranks
<1>3. PICK N \in Nat : N = Len(RecordsOf(disk.over)) + 1
  BY <1>2
<1>4. PICK S : S = WalkStates(disk.over)
  OBVIOUS
<1>5. PICK b : b = [places |-> <<>>, at |-> from]
  OBVIOUS
<1>6. b \in S
  <2>1. <<>> \in Seq(Places(disk.over)) /\ from \in Places(disk.over) \cup {Nowhere}
    BY DEF LeadsIn
  <2> QED  BY <1>4, <1>5, <2>1 DEF WalkStates
<1>7. PICK step : step = [n \in 1..N |-> [s \in S |-> Follow(s)]]
  OBVIOUS
<1>8. step \in [1..N -> [S -> S]]
  <2>1. \A s \in S : Follow(s) \in S
    BY <1>4, FollowShape
  <2> QED  BY <1>7, <2>1
<1>9. PICK g : Loops(g, N, S, b, step)
  BY <1>6, <1>8, LoopRuns
<1>10. g \in [0..N -> S] /\ g[0] = b /\ \A n \in 1..N : g[n] = Follow(g[n - 1])
  <2>1. g \in [0..N -> S] /\ g[0] = b /\ \A n \in 1..N : g[n] = step[n][g[n - 1]]
    BY <1>9 DEF Loops
  <2>2. \A n \in 1..N : n - 1 \in 0..N
    OBVIOUS
  <2> QED  BY <1>7, <2>1, <2>2
<1>11. g = [n \in 0..N |-> IF n = 0 THEN b ELSE Follow(g[n - 1])]
  <2>1. \A n \in 0..N : n = 0 \/ n \in 1..N
    OBVIOUS
  <2>2. \A n \in 0..N : g[n] = IF n = 0 THEN b ELSE Follow(g[n - 1])
    BY <1>10, <2>1
  <2> QED  BY <1>10, <2>2
<1> DEFINE chosen == CHOOSE after : after = [n \in 0..N |-> IF n = 0 THEN b
                                                            ELSE Follow(after[n - 1])]
<1>12. Chain(from) = chosen[N].places
  BY <1>3, <1>5 DEF Chain
<1>13. chosen = [n \in 0..N |-> IF n = 0 THEN b ELSE Follow(chosen[n - 1])]
  BY <1>11
<1> HIDE DEF chosen
<1>14. PICK h : h = chosen
  OBVIOUS
<1>15. h[0] = b /\ \A n \in 1..N : h[n] = Follow(h[n - 1])
  <2>1. 0 \in 0..N /\ \A n \in 1..N : n \in 0..N /\ n # 0
    OBVIOUS
  <2> QED  BY <1>13, <1>14, <2>1
<1>16. ChainOf(disk.over, from, h[N].places)
  BY <1>1, <1>3, <1>5, <1>15, WalkEnds
<1> QED  BY <1>12, <1>14, <1>16

-----------------------------------------------------------------------------
(* What is on the chain of a record of the main area.                      *)

(* The record that one with a key is chained from is the only one. *)
LEMMA OneOwner ==
  ASSUME Parameters, NEW f \in MainAreas, NEW k \in Int, NEW x, IsOwner(f, x, k),
         NEW y, IsOwner(f, y, k)
  PROVE  x = y
<1>1. f \in Areas /\ DOMAIN f = 0..(Count(f) - 1) /\ Count(f) \in Nat
  BY AreaSize DEF MainAreas
<1>2. /\ x = <<x[1], x[2]>> /\ x[1] \in DOMAIN f /\ x[2] \in 1..Len(f[x[1]].records)
      /\ y = <<y[1], y[2]>> /\ y[1] \in DOMAIN f /\ y[2] \in 1..Len(f[y[1]].records)
  BY <1>1, PlaceShape DEF IsOwner
<1>3. x[1] = y[1]
  <2>1. PICK p, q : p = x[1] /\ q = y[1]
    OBVIOUS
  <2>2. IsPageFor(f, p, k) /\ IsPageFor(f, q, k)
    BY <2>1 DEF IsOwner
  <2>3. p \in Nat /\ q \in Nat /\ p \in DOMAIN f /\ q \in DOMAIN f
    BY <1>1, <1>2, <2>1
  <2>4. ~(p < q)
    BY <2>2, <2>3 DEF IsPageFor
  <2>5. ~(q < p)
    BY <2>2, <2>3 DEF IsPageFor
  <2> QED  BY <2>1, <2>3, <2>4, <2>5
<1>4. PICK s : s = f[x[1]].records
  OBVIOUS
<1>5. s \in Seq(Rec) /\ s = f[y[1]].records
  BY <1>1, <1>2, <1>3, <1>4, PageHolds
<1>6. \A i \in 1..Len(s) : s[i].key \in Int
  BY <1>5, KeysOrdered
<1>7. KeyOf(f, x) = s[x[2]].key /\ KeyOf(f, y) = s[y[2]].key
  BY <1>4, <1>5 DEF KeyOf, RecordAt
<1>8. PICK i \in 1..Len(s), j \in 1..Len(s) : i = x[2] /\ j = y[2]
  BY <1>2, <1>4, <1>5
<1>9. /\ i = 1 \/ s[i].key < k
      /\ j = 1 \/ s[j].key < k
      /\ \A n \in 1..Len(s) : i < n => k <= s[n].key
      /\ \A n \in 1..Len(s) : j < n => k <= s[n].key
  BY <1>4, <1>5, <1>7, <1>8 DEF IsOwner
<1>10. ~(i < j)
  BY <1>6, <1>9
<1>11. ~(j < i)
  BY <1>6, <1>9
<1>12. i = j
  BY <1>5, <1>10, <1>11
<1> QED  BY <1>2, <1>3, <1>8, <1>12

(* A nonempty set of records of an area has one of the highest rank. *)
LEMMA HighestRank ==
  ASSUME NEW f \in Areas, NEW read, Reads(read, f), NEW B, B \subseteq Places(f), B # {}
  PROVE  \E y \in B : \A z \in B : ~Before(y, z)
<1>1. PICK T : T = Len(RecordsOf(f))
  OBVIOUS
<1>2. /\ T \in Nat /\ \A y \in Places(f) : Rank(read, y) \in 1..T
      /\ \A y, z \in Places(f) : Before(y, z) => Rank(read, y) < Rank(read, z)
  BY <1>1, Ranks
<1>3. PICK U : U = {T - Rank(read, y) : y \in B}
  OBVIOUS
<1>4. U \subseteq Nat /\ U # {}
  BY <1>2, <1>3
<1>5. PICK m \in U : \A n \in U : m <= n
  BY <1>4, LeastElement
<1>6. PICK y \in B : m = T - Rank(read, y)
  BY <1>3, <1>5
<1>7. ASSUME NEW z \in B PROVE ~Before(y, z)
  <2>1. PICK n : n = T - Rank(read, z)
    OBVIOUS
  <2>2. m <= n
    BY <1>3, <1>5, <2>1
  <2>3. Rank(read, y) \in 1..T /\ Rank(read, z) \in 1..T
    BY <1>2
  <2>4. ~(Rank(read, y) < Rank(read, z))
    BY <1>2, <1>6, <2>1, <2>2, <2>3
  <2> QED  BY <1>2, <2>4
<1> QED  BY <1>6, <1>7

(* The chain has every record of overflow that belongs to its owner. *)
LEMMA ChainHasOwned ==
  ASSUME Parameters, NEW d \in Disks, \A y \in Places(d.over) : LeadsDown(d.over, y),
         \A x \in Places(d.main) : LeadsIn(d.over, NextOf(d.main, x)),
         NEW A, OnChains(d, A), NEW x, NEW c, ChainOf(d.over, NextOf(d.main, x), c),
         NEW y \in A, IsOwner(d.main, x, KeyOf(d.over, y))
  PROVE  y \in ToSet(c)
<1>1. PICK f, g : f = d.main /\ g = d.over
  OBVIOUS
<1>2. f \in MainAreas /\ f \in Areas /\ g \in Areas
  BY <1>1 DEF Disks, MainAreas
<1>3. PICK read : Reads(read, g)
  BY <1>2, ReadLoop
<1>4. A \subseteq Places(g) /\ \A z \in A : Hung(d, A, z)
  BY <1>1 DEF OnChains
<1>5. x \in Places(f)
  BY <1>1 DEF IsOwner
<1>6. \A z \in Places(g) : KeyOf(g, z) \in Int
  BY <1>2, PlaceShape, KeysOrdered DEF KeyOf
<1>7. PICK B : B = {z \in A : IsOwner(f, x, KeyOf(g, z)) /\ z \notin ToSet(c)}
  OBVIOUS
<1>8. SUFFICES ASSUME B # {} PROVE FALSE
  BY <1>1, <1>7
<1>9. B \subseteq Places(g)
  BY <1>4, <1>7
<1>10. PICK z \in B : \A w \in B : ~Before(z, w)
  BY <1>2, <1>3, <1>8, <1>9, HighestRank
<1>11. z \in A /\ z \in Places(g) /\ IsOwner(f, x, KeyOf(g, z)) /\ z \notin ToSet(c)
  BY <1>7, <1>9, <1>10
<1>12. PICK u \in Places(f) : Hangs(d, A, u, z)
  BY <1>1, <1>4, <1>11 DEF Hung
<1>13. IsOwner(f, u, KeyOf(g, z)) /\ (NextOf(f, u) = z \/ FollowsOne(d, A, u, z))
  BY <1>1, <1>12 DEF Hangs
<1>14. u = x
  <2>1. PICK k \in Int : k = KeyOf(g, z)
    BY <1>6, <1>11
  <2>2. IsOwner(f, u, k) /\ IsOwner(f, x, k)
    BY <1>11, <1>13, <2>1
  <2> QED  BY <1>2, <2>2, OneOwner
<1>15. z # Nowhere
  BY <1>2, <1>11, NoPlace
<1>16. PICK from : from = NextOf(f, x)
  OBVIOUS
<1>17. /\ LeadsIn(g, from)
       /\ from = Nowhere \/ from \in ToSet(c)
       /\ \A w \in ToSet(c) : NextOf(g, w) = Nowhere \/ NextOf(g, w) \in ToSet(c)
  BY <1>1, <1>5, <1>16 DEF ChainOf
<1>18. CASE NextOf(f, u) = z
  BY <1>11, <1>14, <1>15, <1>16, <1>17, <1>18
<1>19. CASE FollowsOne(d, A, u, z)
  <2>1. PICK w \in A : IsOwner(f, x, KeyOf(g, w)) /\ NextOf(g, w) = z
    BY <1>1, <1>14, <1>19 DEF FollowsOne
  <2>2. w \in Places(g)
    BY <1>4
  <2>3. LeadsDown(g, w)
    BY <1>1, <2>2
  <2>4. Before(z, w)
    BY <1>15, <2>1, <2>3 DEF LeadsDown
  <2>5. w \notin B
    BY <1>10, <2>4
  <2>6. w \in ToSet(c)
    BY <1>7, <2>1, <2>5
  <2> QED  BY <1>11, <1>15, <1>17, <2>1, <2>6
<1> QED  BY <1>13, <1>18, <1>19

-----------------------------------------------------------------------------
(* What the search finds.                                                  *)

(* A key that an area holds is the key of a record of it. *)
LEMMA HeldShape ==
  ASSUME Parameters, NEW f \in Areas, NEW k
  PROVE  Held(f, k) # 0 <=> \E x \in Places(f) : KeyOf(f, x) = k
<1>1. IsFiniteSet(PlacesOf(f, k))
  BY PlacesFinite
<1>2. Held(f, k) = 0 <=> PlacesOf(f, k) = {}
  BY <1>1, FS_EmptySet DEF Held
<1> QED  BY <1>2 DEF PlacesOf, KeyOf

LEMMA GreatestIs ==
  ASSUME NEW n \in Nat, NEW S, S \subseteq 1..n, NEW i \in S, \A j \in S : j <= i
  PROVE  Max(S) = i
<1>1. \A x \in S : (\A y \in S : x >= y) => x = i
  <2>1. S \subseteq Int
    OBVIOUS
  <2> QED  BY <2>1
<1>2. \A y \in S : i >= y
  <2>1. S \subseteq Int
    OBVIOUS
  <2> QED  BY <2>1
<1> QED  BY <1>1, <1>2 DEF Max

(* The records of the main area with a key are in the page found for it. *)
LEMMA InPageFound ==
  ASSUME Parameters, NEW f \in MainAreas, NEW k \in Keys, NEW p, IsPageFor(f, p, k),
         NEW x \in Places(f), KeyOf(f, x) = k
  PROVE  \E i \in 1..Len(f[p].records) : f[p].records[i].key = k
<1>1. /\ f \in Areas /\ Ordered(f) /\ DOMAIN f = 0..(Count(f) - 1) /\ Count(f) \in Nat
      /\ p \in DOMAIN f
  BY AreaSize DEF MainAreas, IsPageFor
<1>2. PICK q, j : q = x[1] /\ j = x[2]
  OBVIOUS
<1>3. q \in DOMAIN f /\ j \in 1..Len(f[q].records) /\ x = <<q, j>>
  BY <1>1, <1>2, PlaceShape
<1>4. PICK s, t : s = f[p].records /\ t = f[q].records
  OBVIOUS
<1>5. s \in Seq(Rec) /\ t \in Seq(Rec) /\ j \in 1..Len(t)
  BY <1>1, <1>3, <1>4, PageHolds
<1>6. (\A i \in 1..Len(s) : s[i].key \in Int) /\ (\A i \in 1..Len(t) : t[i].key \in Int) /\ k \in Int
  BY <1>5, KeysOrdered DEF Parameters
<1>7. t[j].key = k
  BY <1>2, <1>4 DEF KeyOf, RecordAt
<1>8. StartsBy(f, q, k)
  <2>1. InOrder(t)
    BY <1>1, <1>3, <1>4 DEF Ordered
  <2>2. 1 \in 1..Len(t) /\ t # <<>>
    <3>1. Len(t) \in Nat
      BY <1>5
    <3>2. Len(<<>>) = 0
      OBVIOUS
    <3> QED  BY <1>5, <3>1, <3>2
  <2>3. t[1].key <= t[j].key
    BY <1>5, <1>6, <2>1, <2>2 DEF InOrder
  <2> QED  BY <1>4, <1>7, <2>2, <2>3 DEF StartsBy
<1>9. ~(p < q)
  BY <1>3, <1>8 DEF IsPageFor
<1>10. CASE p = q
  BY <1>4, <1>5, <1>7, <1>10
<1>11. CASE q < p
  <2>1. p # 0
    BY <1>1, <1>3, <1>11
  <2>2. StartsBy(f, p, k)
    BY <2>1 DEF IsPageFor
  <2>3. s # <<>> /\ s[1].key <= k
    BY <1>4, <2>2 DEF StartsBy
  <2>4. 1 \in 1..Len(s)
    BY <1>5, <2>3
  <2>5. t[j].key <= s[1].key
    BY <1>1, <1>3, <1>4, <1>5, <1>11, <2>4 DEF Ordered
  <2>6. s[1].key = k
    BY <1>6, <1>7, <2>3, <2>4, <2>5
  <2> QED  BY <1>4, <2>4, <2>6
<1>12. p \in Int /\ q \in Int
  BY <1>1, <1>3
<1> QED  BY <1>9, <1>10, <1>11, <1>12

(* A chain starts at the record of the main area that owns the key. *)
LEMMA ChainStarts ==
  ASSUME Parameters, NEW d \in Disks, \A x \in Places(d.main) : LeadsIn(d.over, NextOf(d.main, x)),
         NEW k \in Keys, NEW p, IsPageFor(d.main, p, k), NEW s, s = d.main[p].records
  PROVE  /\ LeadsIn(d.over, ChainBelow(s, k))
         /\ \A x : IsOwner(d.main, x, k) /\ Below(s, k) # {} => ChainBelow(s, k) = NextOf(d.main, x)
<1>1. PICK f : f = d.main
  OBVIOUS
<1>2. f \in MainAreas /\ f \in Areas /\ Ordered(f)
  BY <1>1 DEF Disks, MainAreas
<1>3. p \in DOMAIN f /\ IsPageFor(f, p, k) /\ s = f[p].records
  BY <1>1 DEF IsPageFor
<1>4. s \in Seq(Rec)
  BY <1>2, <1>3, PageHolds
<1>5. PICK n \in Nat : n = Len(s) /\ DOMAIN s = 1..n
  BY <1>4
<1>6. \A i \in 1..n : s[i].key \in Int
  BY <1>4, <1>5, KeysOrdered
<1>7. Below(s, k) = {i \in 1..n : s[i].key < k}
  BY <1>5 DEF Below
<1>8. \A i \in 1..n : <<p, i>> \in Places(f) /\ NextOf(f, <<p, i>>) = s[i].next
  BY <1>2, <1>3, <1>5, PlaceShape DEF NextOf
<1>9. LeadsIn(d.over, ChainBelow(s, k))
  <2>1. CASE Below(s, k) = {}
    BY <2>1 DEF ChainBelow, LeadsIn
  <2>2. CASE Below(s, k) # {}
    <3>1. PICK S : S = Below(s, k)
      OBVIOUS
    <3>2. S \subseteq 1..n /\ S # {}
      BY <1>7, <2>2, <3>1
    <3>3. PICK i : i = Max(S)
      OBVIOUS
    <3>4. i \in 1..n
      BY <3>2, <3>3, GreatestSlot
    <3>5. ChainBelow(s, k) = s[i].next
      BY <2>2, <3>1, <3>3 DEF ChainBelow
    <3> QED  BY <1>1, <1>8, <3>4, <3>5
  <2> QED  BY <2>1, <2>2
<1>10. ASSUME NEW x, IsOwner(f, x, k), Below(s, k) # {}
       PROVE  ChainBelow(s, k) = NextOf(f, x)
  <2>1. x \in Places(f) /\ IsPageFor(f, x[1], k)
    BY <1>10 DEF IsOwner
  <2>2. x = <<x[1], x[2]>> /\ x[1] \in DOMAIN f /\ x[2] \in 1..Len(f[x[1]].records)
    BY <1>2, <2>1, PlaceShape
  <2>3. x[1] = p
    <3>1. PICK q : q = x[1]
      OBVIOUS
    <3>2. DOMAIN f = 0..(Count(f) - 1) /\ Count(f) \in Nat
      BY <1>2, AreaSize
    <3>3. p \in Nat /\ q \in Nat /\ p \in DOMAIN f /\ q \in DOMAIN f
      BY <1>3, <2>2, <3>1, <3>2
    <3>4. IsPageFor(f, q, k)
      BY <2>1, <3>1
    <3>5. ~(p < q)
      BY <1>3, <3>3, <3>4 DEF IsPageFor
    <3>6. ~(q < p)
      BY <1>3, <3>3, <3>4 DEF IsPageFor
    <3> QED  BY <3>1, <3>3, <3>5, <3>6
  <2>4. PICK i \in 1..n : i = x[2]
    BY <1>3, <1>5, <2>2, <2>3
  <2>5. KeyOf(f, x) = s[i].key
    BY <1>3, <2>3, <2>4 DEF KeyOf, RecordAt
  <2>6. (i = 1 \/ s[i].key < k) /\ \A j \in 1..n : i < j => k <= s[j].key
    BY <1>3, <1>5, <1>10, <2>3, <2>4, <2>5 DEF IsOwner
  <2>7. PICK S : S = Below(s, k)
    OBVIOUS
  <2>8. S \subseteq 1..n /\ S # {} /\ \A j \in S : s[j].key < k
    BY <1>7, <1>10, <2>7
  <2>9. k \in Int
    BY DEF Parameters
  <2>10. \A j \in S : j <= i
    BY <1>6, <2>6, <2>8, <2>9
  <2>11. i \in S
    <3>1. PICK j \in S : TRUE
      BY <2>8
    <3>2. i = 1 => j = i
      BY <2>8, <2>10, <3>1
    <3>3. s[i].key < k
      BY <2>6, <2>8, <3>2
    <3> QED  BY <1>7, <2>7, <3>3
  <2>12. Max(S) = i
    BY <2>8, <2>10, <2>11, GreatestIs
  <2>13. ChainBelow(s, k) = s[i].next
    BY <1>10, <2>7, <2>12 DEF ChainBelow
  <2>14. x = <<p, i>>
    BY <2>2, <2>3, <2>4
  <2> QED  BY <1>8, <2>13, <2>14
<1> QED  BY <1>1, <1>9, <1>10

-----------------------------------------------------------------------------
(* An insert and the chains.                                               *)

AsBefore(f, g, p, x) == x[1] # p /\ x \in Places(f) /\ RecordAt(g, x) = RecordAt(f, x)
OnPage(t, g, p, x)   ==
  x[1] = p /\ x = <<p, x[2]>> /\ x[2] \in 1..Len(t) /\ RecordAt(g, x) = t[x[2]]

(* A record of the new area is on the page that was written, or as before. *)
LEMMA ChangedPlaces ==
  ASSUME NEW f \in Areas, NEW p \in DOMAIN f, NEW g, NEW t \in Seq(Rec), Changed(f, g, p, Node(p, t))
  PROVE  /\ \A x \in Places(g) : AsBefore(f, g, p, x) \/ OnPage(t, g, p, x)
         /\ \A x \in Places(f) : x[1] # p => x \in Places(g) /\ AsBefore(f, g, p, x)
         /\ \A i \in 1..Len(t) : <<p, i>> \in Places(g) /\ OnPage(t, g, p, <<p, i>>)
<1>1. /\ g \in Areas /\ DOMAIN g = DOMAIN f /\ g[p].records = t
      /\ \A q \in DOMAIN f : q # p => g[q] = f[q]
  BY DEF Changed, SameBut, Node
<1>2. ASSUME NEW x \in Places(g)
      PROVE  AsBefore(f, g, p, x) \/ OnPage(t, g, p, x)
  <2>1. x = <<x[1], x[2]>> /\ x[1] \in DOMAIN g /\ x[2] \in 1..Len(g[x[1]].records)
    BY <1>1, PlaceShape
  <2>2. CASE x[1] = p
    BY <1>1, <2>1, <2>2 DEF RecordAt, OnPage
  <2>3. CASE x[1] # p
    <3>1. PICK q, i : q = x[1] /\ i = x[2]
      OBVIOUS
    <3>2. q \in DOMAIN f /\ i \in 1..Len(f[q].records) /\ g[q] = f[q] /\ x = <<q, i>>
      BY <1>1, <2>1, <2>3, <3>1
    <3>3. <<q, i>> \in Places(f)
      BY <3>2, PlaceShape
    <3> QED  BY <2>3, <3>1, <3>2, <3>3 DEF RecordAt, AsBefore
  <2> QED  BY <2>2, <2>3
<1>3. ASSUME NEW x \in Places(f), x[1] # p
      PROVE  x \in Places(g) /\ AsBefore(f, g, p, x)
  <2>1. x = <<x[1], x[2]>> /\ x[1] \in DOMAIN f /\ x[2] \in 1..Len(f[x[1]].records)
    BY PlaceShape
  <2>2. PICK q, i : q = x[1] /\ i = x[2]
    OBVIOUS
  <2>3. q \in DOMAIN g /\ i \in 1..Len(g[q].records) /\ g[q] = f[q] /\ x = <<q, i>>
    BY <1>1, <1>3, <2>1, <2>2
  <2>4. <<q, i>> \in Places(g)
    BY <1>1, <2>3, PlaceShape
  <2> QED  BY <1>3, <2>3, <2>4 DEF RecordAt, AsBefore
<1>4. ASSUME NEW i \in 1..Len(t) PROVE <<p, i>> \in Places(g) /\ OnPage(t, g, p, <<p, i>>)
  <2>1. p \in DOMAIN g /\ i \in 1..Len(g[p].records)
    BY <1>1
  <2>2. <<p, i>> \in Places(g) /\ RecordAt(g, <<p, i>>) = t[i]
    BY <1>1, <2>1, PlaceShape
  <2> QED  BY <2>2 DEF OnPage
<1> QED  BY <1>2, <1>3, <1>4

(* An owner with a full page stays one, with its link. *)
StaysOwner(f, g, x, m) ==
  IsOwner(f, x, m) /\ Full(f[x[1]].records) =>
    IsOwner(g, x, m) /\ Full(g[x[1]].records) /\ NextOf(g, x) = NextOf(f, x)

(* What is on chains stays so when owners and the keys of the main area do. *)
LEMMA OwnersKeepChains ==
  ASSUME Parameters, NEW d \in Disks, NEW e \in Disks, e.over = d.over, NEW A, OnChains(d, A),
         \A x \in Places(d.main), m \in Int : StaysOwner(d.main, e.main, x, m),
         \A m : Held(d.main, m) # 0 => Held(e.main, m) # 0
  PROVE  OnChains(e, A)
<1>1. PICK f, g, h : f = d.main /\ g = e.main /\ h = d.over /\ h = e.over
  OBVIOUS
<1>2. h \in Areas /\ f \in Areas /\ g \in Areas
  BY <1>1 DEF Disks, MainAreas
<1>3. /\ A \subseteq Places(h) /\ \A y \in A : Hung(d, A, y)
      /\ \A y \in Places(h) : y \in A \/ Held(f, KeyOf(h, y)) # 0
  BY <1>1 DEF OnChains
<1>4. \A y \in Places(h) : KeyOf(h, y) \in Int
  BY <1>2, PlaceShape, KeysOrdered DEF KeyOf
<1>5. ASSUME NEW y \in A PROVE Hung(e, A, y)
  <2>1. PICK x \in Places(f) : Hangs(d, A, x, y)
    BY <1>1, <1>3 DEF Hung
  <2>2. /\ IsOwner(f, x, KeyOf(h, y)) /\ Full(f[x[1]].records)
        /\ NextOf(f, x) = y \/ FollowsOne(d, A, x, y)
    BY <1>1, <2>1 DEF Hangs
  <2>3. /\ IsOwner(g, x, KeyOf(h, y)) /\ Full(g[x[1]].records) /\ NextOf(g, x) = NextOf(f, x)
    <3>1. StaysOwner(f, g, x, KeyOf(h, y))
      BY <1>1, <1>3, <1>4
    <3> QED  BY <2>2, <3>1 DEF StaysOwner
  <2>4. FollowsOne(d, A, x, y) => FollowsOne(e, A, x, y)
    <3>1. SUFFICES ASSUME FollowsOne(d, A, x, y) PROVE FollowsOne(e, A, x, y)
      OBVIOUS
    <3>2. PICK z \in A : IsOwner(f, x, KeyOf(h, z)) /\ NextOf(h, z) = y
      BY <1>1, <3>1 DEF FollowsOne
    <3>3. StaysOwner(f, g, x, KeyOf(h, z))
      BY <1>1, <1>3, <1>4
    <3>4. IsOwner(g, x, KeyOf(h, z))
      BY <2>2, <3>2, <3>3 DEF StaysOwner
    <3> QED  BY <1>1, <3>2, <3>4 DEF FollowsOne
  <2>5. x \in Places(g)
    BY <2>3 DEF IsOwner
  <2>6. Hangs(e, A, x, y)
    BY <1>1, <2>2, <2>3, <2>4 DEF Hangs
  <2> QED  BY <1>1, <2>5, <2>6 DEF Hung
<1>6. \A y \in Places(h) : y \in A \/ Held(g, KeyOf(h, y)) # 0
  BY <1>1, <1>3
<1> QED  BY <1>1, <1>3, <1>5, <1>6 DEF OnChains

(* A record placed in a page does not come before a first one that is not
   greater.                                                                *)
LEMMA FirstKept ==
  ASSUME Parameters, NEW s \in Seq(Rec), s # <<>>, InOrder(s), NEW r \in Rec, s[1].key <= r.key
  PROVE  Placed(s, r) # <<>> /\ Placed(s, r)[1].key = s[1].key
<1>1. PICK t : t = Placed(s, r)
  OBVIOUS
<1>2. PICK a : /\ Inserted(s, t, a, r)
               /\ InOrder(s) => /\ \A i \in 1..(a - 1) : s[i].key <= r.key
                                /\ \A i \in a..Len(s) : r.key <= s[i].key
  BY <1>1, PlacedShape
<1>3. /\ a \in 1..(Len(s) + 1) /\ t \in Seq(Rec) /\ Len(t) = Len(s) + 1 /\ t[a] = r
      /\ \A i \in 1..(a - 1) : t[i] = s[i]
      /\ \A i \in a..Len(s) : r.key <= s[i].key
  BY <1>2 DEF Inserted
<1>4. Len(s) \in Nat \ {0} /\ 1 \in 1..Len(s)
  BY NotEmpty
<1>5. s[1].key \in Int /\ r.key \in Int
  BY <1>4, KeysOrdered
<1>6. t # <<>>
  <2>1. Len(t) # 0 /\ Len(<<>>) = 0
    BY <1>3, <1>4
  <2> QED  BY <2>1
<1>7. CASE a = 1
  <2>1. r.key <= s[1].key
    BY <1>3, <1>4, <1>7
  <2> QED  BY <1>1, <1>3, <1>5, <1>6, <1>7, <2>1
<1>8. CASE a # 1
  <2>1. 1 \in 1..(a - 1)
    BY <1>3, <1>4, <1>8
  <2> QED  BY <1>1, <1>3, <1>6, <2>1
<1> QED  BY <1>7, <1>8

(* An insert into a page with room leaves the chains of the full ones. *)
LEMMA RoomKeepsOwners ==
  ASSUME Parameters, NEW f \in MainAreas, NEW k \in Keys, NEW p, IsPageFor(f, p, k),
         ~Full(f[p].records), NEW r \in Rec, r.key = k, NEW g \in MainAreas,
         NEW t \in Seq(Rec), t = Placed(f[p].records, r), Changed(f, g, p, Node(p, t)),
         NEW x \in Places(f), NEW m \in Int
  PROVE  StaysOwner(f, g, x, m)
<1>1. SUFFICES ASSUME IsOwner(f, x, m), Full(f[x[1]].records)
               PROVE  IsOwner(g, x, m) /\ Full(g[x[1]].records) /\ NextOf(g, x) = NextOf(f, x)
  BY DEF StaysOwner
<1>2. f \in Areas /\ p \in DOMAIN f /\ Ordered(f) /\ DOMAIN f = 0..(Count(f) - 1) /\ Count(f) \in Nat
  BY AreaSize DEF MainAreas, IsPageFor
<1>3. x[1] # p
  BY <1>1
<1>4. x \in Places(g) /\ RecordAt(g, x) = RecordAt(f, x)
  <2>1. x \in Places(g) /\ AsBefore(f, g, p, x)
    BY <1>2, <1>3, ChangedPlaces
  <2> QED  BY <2>1 DEF AsBefore
<1>5. KeyOf(g, x) = KeyOf(f, x) /\ NextOf(g, x) = NextOf(f, x)
  BY <1>4 DEF KeyOf, NextOf
<1>6. x[1] \in DOMAIN f
  BY <1>2, PlaceShape
<1>7. PICK q : q = x[1]
  OBVIOUS
<1>8. /\ DOMAIN g = DOMAIN f /\ g[p].records = t
      /\ \A a \in DOMAIN f : a # p => g[a] = f[a]
  BY DEF Changed, SameBut, Node
<1>9. g[q] = f[q] /\ q \in DOMAIN f /\ q # p
  BY <1>3, <1>6, <1>7, <1>8
<1>10. /\ q = 0 \/ StartsBy(f, q, m)
       /\ \A a \in DOMAIN f : q < a => ~StartsBy(f, a, m)
  BY <1>1, <1>7 DEF IsOwner, IsPageFor
<1>11. q = 0 \/ StartsBy(g, q, m)
  BY <1>9, <1>10 DEF StartsBy
<1>12. ASSUME NEW a \in DOMAIN g, q < a PROVE ~StartsBy(g, a, m)
  <2>1. CASE a # p
    <3>1. g[a] = f[a] /\ a \in DOMAIN f
      BY <1>8, <2>1
    <3> QED  BY <1>10, <1>12, <3>1 DEF StartsBy
  <2>2. CASE a = p
    <3>1. p # 0
      BY <1>2, <1>9, <1>12, <2>2
    <3>2. StartsBy(f, p, k)
      BY <3>1 DEF IsPageFor
    <3>3. PICK s : s = f[p].records
      OBVIOUS
    <3>4. s \in Seq(Rec) /\ s # <<>> /\ s[1].key <= r.key /\ InOrder(s)
      BY <1>2, <3>2, <3>3, PageHolds DEF StartsBy, Ordered
    <3>5. t[1].key = s[1].key
      BY <3>3, <3>4, FirstKept
    <3>6. ~StartsBy(f, p, m)
      BY <1>2, <1>10, <1>12, <2>2
    <3>7. ~(s[1].key <= m)
      BY <3>3, <3>4, <3>6 DEF StartsBy
    <3> QED  BY <1>8, <2>2, <3>5, <3>7 DEF StartsBy
  <2> QED  BY <2>1, <2>2
<1>13. IsPageFor(g, q, m)
  BY <1>8, <1>9, <1>11, <1>12 DEF IsPageFor
<1>14. \A i \in 1..Len(g[q].records) : x[2] < i => m <= g[q].records[i].key
  BY <1>1, <1>7, <1>9 DEF IsOwner
<1>15. x[2] = 1 \/ KeyOf(g, x) < m
  BY <1>1, <1>5 DEF IsOwner
<1>16. IsOwner(g, x, m)
  BY <1>4, <1>7, <1>13, <1>14, <1>15 DEF IsOwner
<1> QED  BY <1>1, <1>5, <1>7, <1>9, <1>16

(* An insert into a page with room keeps the chains. *)
LEMMA RoomKeepsChains ==
  ASSUME Parameters, disk \in Disks, Chains(disk), NEW k \in Keys, NEW p, p = BinarySearchPage(k),
         ~Full(disk.main[p].records)
  PROVE  /\ Len(Insertions(k)) = 1 /\ Chains(Insertions(k)[1])
<1>1. PICK f : f = disk.main
  OBVIOUS
<1>2. f \in MainAreas /\ f \in Areas /\ disk.over \in Areas /\ p \in DOMAIN f /\ IsPageFor(f, p, k)
  BY <1>1, PageFound DEF Disks, MainAreas, IsPageFor
<1>3. PICK s \in Seq(Rec), r \in Rec : s = f[p].records /\ r = Record(k, Nowhere)
  <2>1. f[p].records \in Seq(Rec)
    BY <1>2, PageHolds
  <2>2. Record(k, Nowhere) \in Rec
    BY DEF Record, Rec, Nowhere
  <2> QED  BY <2>1, <2>2
<1>4. r.key = k /\ r.next = Nowhere
  BY <1>3 DEF Record
<1>5. PICK t : t = Placed(s, r)
  OBVIOUS
<1>6. /\ t \in Seq(Rec)
      /\ \A i \in 1..Len(t) : t[i] = r \/ \E j \in 1..Len(s) : t[i] = s[j]
  BY <1>5, PlacedInOrder
<1>7. PICK g : g = Put(f, Node(f[p].id, t))
  OBVIOUS
<1>8. /\ g \in MainAreas /\ \A m : Held(g, m) = Held(f, m) + One(m, k)
      /\ Changed(f, g, p, Node(p, t))
  BY <1>1, <1>3, <1>5, <1>7, RoomInPage
<1>9. PICK d : d = [main |-> g, over |-> disk.over]
  OBVIOUS
<1>10. d \in Disks /\ d.main = g /\ d.over = disk.over
  BY <1>2, <1>8, <1>9 DEF Disks
<1>11. Insertions(k) = <<d>>
  <2>1. [disk EXCEPT !.main = g] = d
    BY <1>9 DEF Disks
  <2> QED  BY <1>1, <1>3, <1>5, <1>7, <2>1 DEF Insertions
<1>12. ASSUME NEW x \in Places(g) PROVE LeadsIn(disk.over, NextOf(g, x))
  <2>1. AsBefore(f, g, p, x) \/ OnPage(t, g, p, x)
    BY <1>2, <1>6, <1>8, ChangedPlaces
  <2>2. CASE AsBefore(f, g, p, x)
    <3>1. x \in Places(f) /\ NextOf(g, x) = NextOf(f, x)
      BY <2>2 DEF AsBefore, NextOf
    <3> QED  BY <1>1, <3>1 DEF Chains
  <2>3. CASE OnPage(t, g, p, x)
    <3>1. PICK i : i = x[2]
      OBVIOUS
    <3>2. i \in 1..Len(t) /\ NextOf(g, x) = t[i].next
      BY <2>3, <3>1 DEF OnPage, NextOf
    <3>3. CASE t[i] = r
      BY <1>4, <3>2, <3>3 DEF LeadsIn
    <3>4. CASE t[i] # r
      <4>1. PICK j \in 1..Len(s) : t[i] = s[j]
        BY <1>6, <3>2, <3>4
      <4>2. <<p, j>> \in Places(f) /\ RecordAt(f, <<p, j>>) = s[j]
        BY <1>2, <1>3, PlaceShape
      <4>3. NextOf(f, <<p, j>>) = t[i].next
        BY <4>1, <4>2 DEF NextOf
      <4> QED  BY <1>1, <3>2, <4>2, <4>3 DEF Chains
    <3> QED  BY <3>3, <3>4
  <2> QED  BY <2>1, <2>2, <2>3
<1>13. PICK A : OnChains(disk, A)
  BY DEF Chains
<1>14. OnChains(d, A)
  <2>1. \A m : Held(f, m) # 0 => Held(g, m) # 0
    <3>1. \A m : Held(f, m) \in Nat /\ One(m, k) \in Nat
      BY <1>2, PlacesFinite DEF One
    <3> QED  BY <1>8, <3>1
  <2>2. \A x \in Places(f), m \in Int : StaysOwner(f, g, x, m)
    BY <1>1, <1>2, <1>3, <1>4, <1>5, <1>6, <1>8, RoomKeepsOwners
  <2> QED  BY <1>1, <1>10, <1>13, <2>1, <2>2, OwnersKeepChains
<1>15. Chains(d)
  BY <1>10, <1>12, <1>14 DEF Chains
<1> QED  BY <1>11, <1>15

(* An area with one record more, after all others. *)
Grows(f, g, y, r) ==
  /\ y \notin Places(f) /\ Places(g) = Places(f) \cup {y} /\ RecordAt(g, y) = r
  /\ \A z \in Places(f) : RecordAt(g, z) = RecordAt(f, z) /\ Before(z, y)

LEMMA LastGrows ==
  ASSUME Parameters, NEW f \in Areas, NEW g, NEW n, NEW r \in Rec, AppendsTo(f, g, n, r)
  PROVE  Grows(f, g, <<n, Len(f[n].records) + 1>>, r)
<1>1. /\ n \in DOMAIN f /\ n = Count(f) - 1 /\ DOMAIN f = 0..(Count(f) - 1) /\ Count(f) \in Nat
      /\ Changed(f, g, n, Node(n, Append(f[n].records, r)))
  BY AreaSize DEF AppendsTo
<1>2. PICK s \in Seq(Rec) : s = f[n].records
  BY <1>1, PageHolds
<1>3. PICK t : t = Append(s, r)
  OBVIOUS
<1>4. PICK l \in Nat : l = Len(s)
  BY <1>2
<1>5. t \in Seq(Rec) /\ Len(t) = l + 1 /\ t[l + 1] = r /\ \A i \in 1..l : t[i] = s[i]
  BY <1>2, <1>3, <1>4
<1>6. PICK y : y = <<n, l + 1>>
  OBVIOUS
<1>7. /\ \A x \in Places(g) : AsBefore(f, g, n, x) \/ OnPage(t, g, n, x)
      /\ \A x \in Places(f) : x[1] # n => x \in Places(g) /\ AsBefore(f, g, n, x)
      /\ \A i \in 1..Len(t) : <<n, i>> \in Places(g) /\ OnPage(t, g, n, <<n, i>>)
  BY <1>1, <1>2, <1>3, <1>5, ChangedPlaces
<1>8. \A x \in Places(f) : x = <<x[1], x[2]>> /\ x[1] \in DOMAIN f /\ x[2] \in 1..Len(f[x[1]].records)
  BY PlaceShape
<1>9. y[1] = n /\ y[2] = l + 1
  BY <1>6
<1>10. y \notin Places(f)
  <2>1. SUFFICES ASSUME y \in Places(f) PROVE FALSE
    OBVIOUS
  <2>2. y[2] \in 1..Len(f[y[1]].records)
    BY <1>8, <2>1
  <2>3. l + 1 \in 1..l
    BY <1>2, <1>4, <1>9, <2>2
  <2> QED  BY <2>3
<1>11. y \in Places(g) /\ RecordAt(g, y) = r
  <2>1. l + 1 \in 1..Len(t)
    BY <1>5
  <2>2. <<n, l + 1>> \in Places(g) /\ OnPage(t, g, n, <<n, l + 1>>)
    BY <1>7, <2>1
  <2>3. y \in Places(g) /\ OnPage(t, g, n, y)
    BY <1>6, <2>2
  <2> QED  BY <1>5, <1>9, <2>3 DEF OnPage
<1>12. ASSUME NEW z \in Places(f)
       PROVE  z \in Places(g) /\ RecordAt(g, z) = RecordAt(f, z) /\ Before(z, y)
  <2>1. CASE z[1] = n
    <3>1. PICK i : i = z[2]
      OBVIOUS
    <3>2. i \in 1..l /\ z = <<n, i>>
      BY <1>2, <1>4, <1>8, <2>1, <3>1
    <3>3. <<n, i>> \in Places(g) /\ OnPage(t, g, n, <<n, i>>)
      BY <1>5, <1>7, <3>2
    <3>4. z \in Places(g) /\ RecordAt(g, z) = t[i]
      BY <3>1, <3>2, <3>3 DEF OnPage
    <3>5. RecordAt(f, z) = s[i]
      BY <1>2, <2>1, <3>1 DEF RecordAt
    <3>6. Before(z, y)
      BY <1>9, <2>1, <3>1, <3>2 DEF Before
    <3> QED  BY <1>5, <3>2, <3>4, <3>5, <3>6
  <2>2. CASE z[1] # n
    <3>1. z \in Places(g) /\ AsBefore(f, g, n, z)
      BY <1>7, <2>2
    <3>2. z[1] < n
      BY <1>1, <1>8, <2>2
    <3> QED  BY <1>9, <3>1, <3>2 DEF AsBefore, Before
  <2> QED  BY <2>1, <2>2
<1>13. ASSUME NEW x \in Places(g), x # y PROVE x \in Places(f)
  <2>1. CASE AsBefore(f, g, n, x)
    BY <2>1 DEF AsBefore
  <2>2. CASE OnPage(t, g, n, x)
    <3>1. PICK i : i = x[2]
      OBVIOUS
    <3>2. x = <<n, i>> /\ i \in 1..Len(t)
      BY <2>2, <3>1 DEF OnPage
    <3>3. i \in 1..l
      BY <1>5, <1>6, <1>13, <3>2
    <3>4. <<n, i>> \in Places(f)
      BY <1>1, <1>2, <1>4, <3>3, PlaceShape
    <3> QED  BY <3>2, <3>4
  <2> QED  BY <1>7, <2>1, <2>2
<1>14. Grows(f, g, y, r)
  BY <1>10, <1>11, <1>12, <1>13 DEF Grows
<1> QED  BY <1>2, <1>4, <1>6, <1>14

(* A page of zeros has no record. *)
LEMMA AllocatedPlaces ==
  ASSUME Parameters, NEW f \in Areas, NEW h, h = f \/ h = Allocated(f)
  PROVE  /\ h \in Areas /\ Places(h) = Places(f)
         /\ \A z \in Places(f) : RecordAt(h, z) = RecordAt(f, z)
<1>1. CASE h = f
  BY <1>1
<1>2. CASE h = Allocated(f)
  <2>1. /\ Allocated(f) \in Areas
        /\ DOMAIN Allocated(f) = DOMAIN f \cup {Count(f)} /\ Count(Allocated(f)) = Count(f) + 1
        /\ Allocated(f)[Count(f)] = Zero
        /\ \A q \in DOMAIN f : Allocated(f)[q] = f[q]
    BY PageAllocated
  <2>2. /\ h \in Areas /\ DOMAIN h = DOMAIN f \cup {Count(f)}
        /\ h[Count(f)].records = <<>> /\ \A q \in DOMAIN f : h[q] = f[q]
    BY <1>2, <2>1 DEF Zero, Node
  <2>3. DOMAIN <<>> = {}
    OBVIOUS
  <2>4. ASSUME NEW x PROVE x \in Places(h) <=> x \in Places(f)
    <3>1. x \in Places(h) <=> \E p \in DOMAIN h : x \in {<<p, i>> : i \in DOMAIN h[p].records}
      BY DEF Places
    <3>2. x \in Places(f) <=> \E p \in DOMAIN f : x \in {<<p, i>> : i \in DOMAIN f[p].records}
      BY DEF Places
    <3>3. {<<Count(f), i>> : i \in DOMAIN h[Count(f)].records} = {}
      BY <2>2, <2>3
    <3> QED  BY <2>2, <3>1, <3>2, <3>3
  <2>5. ASSUME NEW z \in Places(f) PROVE RecordAt(h, z) = RecordAt(f, z)
    <3>1. z[1] \in DOMAIN f
      BY PlaceShape
    <3> QED  BY <2>2, <3>1 DEF RecordAt
  <2> QED  BY <2>2, <2>4, <2>5
<1> QED  BY <1>1, <1>2

(* g is f with another link at x. *)
LinkChanged(f, g, x, place) ==
  /\ x \in Places(f) /\ Places(g) = Places(f)
  /\ NextOf(g, x) = place /\ \A z \in Places(f) : z # x => NextOf(g, z) = NextOf(f, z)
  /\ \A z \in Places(f) : KeyOf(g, z) = KeyOf(f, z)
  /\ \A z, m : IsOwner(f, z, m) => IsOwner(g, z, m)
  /\ \A z \in Places(f) : Full(f[z[1]].records) => Full(g[z[1]].records)

LEMMA RelinkedKeeps ==
  ASSUME NEW f \in Areas, NEW p \in DOMAIN f, NEW at \in 1..Len(f[p].records), NEW g, NEW place,
         Relinked(f, g, p, at, place), NEW x, x = <<p, at>>
  PROVE  LinkChanged(f, g, x, place)
<1>1. PICK t \in Seq(Rec) : NewLink(f[p].records, t, at, place) /\ Changed(f, g, p, Node(p, t))
  BY DEF Relinked
<1>2. /\ g \in Areas /\ DOMAIN g = DOMAIN f /\ g[p].records = t
      /\ \A q \in DOMAIN f : q # p => g[q] = f[q]
  BY <1>1 DEF Changed, SameBut, Node
<1>3. PICK s \in Seq(Rec) : s = f[p].records
  BY PageHolds
<1>4. /\ Len(t) = Len(s) /\ \A i \in 1..Len(t) : t[i].key = s[i].key
      /\ t[at].next = place /\ \A i \in 1..Len(t) : i # at => t[i] = s[i]
  BY <1>1, <1>3 DEF NewLink
<1>5. /\ \A q \in DOMAIN f : /\ Len(g[q].records) = Len(f[q].records)
                             /\ \A i \in 1..Len(f[q].records) : g[q].records[i].key = f[q].records[i].key
  BY <1>2, <1>3, <1>4
<1>6. \A q \in DOMAIN f : f[q].records \in Seq(Rec) /\ g[q].records \in Seq(Rec)
  BY <1>2, PageHolds
<1>7. Places(g) = Places(f)
  <2>1. \A q \in DOMAIN f : DOMAIN g[q].records = DOMAIN f[q].records
    <3>1. SUFFICES ASSUME NEW q \in DOMAIN f PROVE DOMAIN g[q].records = DOMAIN f[q].records
      OBVIOUS
    <3>2. PICK u, v \in Seq(Rec) : u = g[q].records /\ v = f[q].records
      BY <1>6
    <3>3. Len(u) = Len(v)
      BY <1>5, <3>2
    <3>4. DOMAIN u = 1..Len(u) /\ DOMAIN v = 1..Len(v)
      OBVIOUS
    <3> QED  BY <3>2, <3>3, <3>4
  <2> QED  BY <1>2, <2>1 DEF Places
<1>8. \A z \in Places(f) : z = <<z[1], z[2]>> /\ z[1] \in DOMAIN f /\ z[2] \in 1..Len(f[z[1]].records)
  BY PlaceShape
<1>9. \A z \in Places(f) : KeyOf(g, z) = KeyOf(f, z)
  BY <1>5, <1>8 DEF KeyOf, RecordAt
<1>10. x \in Places(f) /\ NextOf(g, x) = place /\ x[1] = p /\ x[2] = at
  <2>1. <<p, at>> \in Places(f)
    BY PlaceShape
  <2> QED  BY <1>2, <1>4, <2>1 DEF NextOf, RecordAt
<1>11. ASSUME NEW z \in Places(f), z # x PROVE NextOf(g, z) = NextOf(f, z)
  <2>1. CASE z[1] = p
    <3>1. z[2] # at /\ z[2] \in 1..Len(t)
      BY <1>3, <1>4, <1>8, <1>11, <2>1
    <3>2. t[z[2]] = s[z[2]]
      BY <1>4, <3>1
    <3> QED  BY <1>2, <1>3, <2>1, <3>2 DEF NextOf, RecordAt
  <2>2. CASE z[1] # p
    BY <1>2, <1>8, <2>2 DEF NextOf, RecordAt
  <2> QED  BY <2>1, <2>2
<1>12. ASSUME NEW q \in DOMAIN f, NEW m PROVE StartsBy(g, q, m) <=> StartsBy(f, q, m)
  <2>1. PICK u, v \in Seq(Rec) : u = g[q].records /\ v = f[q].records
    BY <1>6
  <2>2. Len(u) = Len(v) /\ \A i \in 1..Len(v) : u[i].key = v[i].key
    BY <1>5, <2>1
  <2>3. u = <<>> <=> v = <<>>
    BY <2>2
  <2>4. v # <<>> => u[1].key = v[1].key
    <3>1. v # <<>> => 1 \in 1..Len(v)
      OBVIOUS
    <3> QED  BY <2>2, <3>1
  <2> QED  BY <2>1, <2>3, <2>4 DEF StartsBy
<1>13. ASSUME NEW z, NEW m, IsOwner(f, z, m) PROVE IsOwner(g, z, m)
  <2>1. /\ z \in Places(f) /\ IsPageFor(f, z[1], m) /\ (z[2] = 1 \/ KeyOf(f, z) < m)
        /\ \A i \in 1..Len(f[z[1]].records) : z[2] < i => m <= f[z[1]].records[i].key
    BY <1>13 DEF IsOwner
  <2>2. IsPageFor(g, z[1], m)
    BY <1>2, <1>12, <2>1 DEF IsPageFor
  <2>3. z[2] = 1 \/ KeyOf(g, z) < m
    BY <1>9, <2>1
  <2>4. z[1] \in DOMAIN f
    BY <1>8, <2>1
  <2>5. \A i \in 1..Len(g[z[1]].records) : z[2] < i => m <= g[z[1]].records[i].key
    <3>1. PICK q : q = z[1]
      OBVIOUS
    <3>2. q \in DOMAIN f /\ \A i \in 1..Len(f[q].records) : z[2] < i => m <= f[q].records[i].key
      BY <2>1, <2>4, <3>1
    <3>3. /\ Len(g[q].records) = Len(f[q].records)
          /\ \A i \in 1..Len(f[q].records) : g[q].records[i].key = f[q].records[i].key
      BY <1>5, <3>2
    <3>4. \A i \in 1..Len(g[q].records) : z[2] < i => m <= g[q].records[i].key
      BY <3>2, <3>3
    <3> QED  BY <3>1, <3>4
  <2> QED  BY <1>7, <2>1, <2>2, <2>3, <2>5 DEF IsOwner
<1>14. \A z \in Places(f) : Full(f[z[1]].records) => Full(g[z[1]].records)
  BY <1>5, <1>8 DEF Full
<1> QED  BY <1>7, <1>9, <1>10, <1>11, <1>13, <1>14 DEF LinkChanged

(* The record that a new one is linked from owns its key. *)
LEMMA LinkedFromOwner ==
  ASSUME Parameters, NEW f \in MainAreas, NEW k \in Keys, NEW p, IsPageFor(f, p, k),
         Full(f[p].records), NEW at, at = LinkedFrom(f[p].records, k),
         at \in 1..Len(f[p].records), NEW x, x = <<p, at>>
  PROVE  IsOwner(f, x, k)
<1>1. f \in Areas /\ p \in DOMAIN f /\ Ordered(f)
  BY DEF MainAreas, IsPageFor
<1>2. PICK s \in Seq(Rec) : s = f[p].records
  BY <1>1, PageHolds
<1>3. InOrder(s) /\ at = LinkedFrom(s, k) /\ at \in 1..Len(s)
  BY <1>1, <1>2 DEF Ordered
<1>4. x \in Places(f) /\ KeyOf(f, x) = s[at].key /\ x[1] = p /\ x[2] = at
  <2>1. <<p, at>> \in Places(f) /\ RecordAt(f, <<p, at>>) = s[at]
    BY <1>1, <1>2, <1>3, PlaceShape
  <2> QED  BY <2>1 DEF KeyOf
<1>5. k \in Int /\ \A i \in 1..Len(s) : s[i].key \in Int
  BY KeysOrdered DEF Parameters
<1>6. PICK B : B = Below(s, k)
  OBVIOUS
<1>7. PICK l \in Nat : l = Len(s)
  OBVIOUS
<1>8. B \subseteq 1..l /\ \A i \in 1..l : i \in B <=> s[i].key < k
  BY <1>6, <1>7 DEF Below
<1>9. CASE B = {}
  <2>1. at = 1
    BY <1>3, <1>6, <1>9 DEF LinkedFrom
  <2>2. \A i \in 1..l : k <= s[i].key
    BY <1>5, <1>7, <1>8, <1>9
  <2> QED  BY <1>2, <1>4, <1>7, <2>1, <2>2 DEF IsOwner
<1>10. CASE B # {}
  <2>1. \E i \in B : \A j \in B : j <= i
    <3>1. PICK C : C = {l - i : i \in B}
      OBVIOUS
    <3>2. C \subseteq Nat /\ C # {}
      <4>1. \A i \in B : l - i \in Nat
        BY <1>8
      <4> QED  BY <1>10, <3>1, <4>1
    <3>3. PICK c \in C : \A y \in C : c <= y
      BY <3>2, LeastElement
    <3>4. PICK i \in B : c = l - i
      BY <3>1
    <3>5. ASSUME NEW j \in B PROVE j <= i
      <4>1. l - j \in C
        BY <3>1
      <4>2. l - i <= l - j /\ i \in Int /\ j \in Int
        BY <1>8, <3>3, <3>4, <4>1
      <4> QED  BY <4>2
    <3> QED  BY <3>5
  <2>2. PICK i \in B : \A j \in B : j <= i
    BY <2>1
  <2>3. Max(B) = i
    BY <1>8, <2>2, GreatestIs
  <2>4. at = i
    BY <1>3, <1>6, <1>10, <2>3 DEF LinkedFrom
  <2>5. s[at].key < k
    BY <1>8, <2>4
  <2>6. \A j \in 1..l : at < j => k <= s[j].key
    <3>1. SUFFICES ASSUME NEW j \in 1..l, at < j PROVE k <= s[j].key
      OBVIOUS
    <3>2. j \notin B
      BY <1>3, <1>7, <2>2, <2>4, <3>1
    <3> QED  BY <1>5, <1>7, <1>8, <3>2
  <2> QED  BY <1>2, <1>4, <1>7, <2>5, <2>6 DEF IsOwner
<1> QED  BY <1>9, <1>10

(* A record more, linked from its owner and with the link that had, and the
   chains are whole: it comes before all that the owner had.               *)
LEMMA OverflowKeepsChains ==
  ASSUME Parameters, NEW d \in Disks, Chains(d), NEW f, NEW g, NEW k \in Keys,
         NEW x, IsOwner(d.main, x, k), Full(d.main[x[1]].records), NEW y, LinkChanged(d.main, f, x, y),
         NEW r, Grows(d.over, g, y, r), r.key = k, r.next = NextOf(d.main, x),
         \A m : Held(f, m) = Held(d.main, m), NEW e, e.main = f, e.over = g
  PROVE  Chains(e)
<1>1. PICK u, v : u = d.main /\ v = d.over
  OBVIOUS
<1>2. /\ \A z \in Places(u) : LeadsIn(v, NextOf(u, z))
      /\ \A z \in Places(v) : LeadsDown(v, z)
  BY <1>1 DEF Chains
<1>3. PICK A : OnChains(d, A)
  BY DEF Chains
<1>4. /\ A \subseteq Places(v) /\ \A z \in A : Hung(d, A, z)
      /\ \A z \in Places(v) : z \in A \/ Held(u, KeyOf(v, z)) # 0
  BY <1>1, <1>3 DEF OnChains
<1>5. /\ x \in Places(u) /\ Places(f) = Places(u)
      /\ NextOf(f, x) = y /\ \A z \in Places(u) : z # x => NextOf(f, z) = NextOf(u, z)
      /\ \A z \in Places(u) : KeyOf(f, z) = KeyOf(u, z)
      /\ \A z, m : IsOwner(u, z, m) => IsOwner(f, z, m)
      /\ \A z \in Places(u) : Full(u[z[1]].records) => Full(f[z[1]].records)
  BY <1>1 DEF LinkChanged
<1>6. /\ y \notin Places(v) /\ Places(g) = Places(v) \cup {y}
      /\ KeyOf(g, y) = k /\ NextOf(g, y) = NextOf(u, x)
      /\ \A z \in Places(v) : /\ KeyOf(g, z) = KeyOf(v, z) /\ NextOf(g, z) = NextOf(v, z)
                              /\ Before(z, y)
  BY <1>1 DEF Grows, KeyOf, NextOf
<1>7. ASSUME NEW z \in Places(f) PROVE LeadsIn(g, NextOf(f, z))
  <2>1. CASE z = x
    BY <1>5, <1>6, <2>1 DEF LeadsIn
  <2>2. CASE z # x
    <3>1. LeadsIn(v, NextOf(u, z)) /\ NextOf(f, z) = NextOf(u, z)
      BY <1>2, <1>5, <2>2
    <3> QED  BY <1>6, <3>1 DEF LeadsIn
  <2> QED  BY <2>1, <2>2
<1>8. ASSUME NEW z \in Places(g) PROVE LeadsDown(g, z)
  <2>1. CASE z = y
    <3>1. LeadsIn(v, NextOf(u, x))
      BY <1>2, <1>5
    <3> QED  BY <1>6, <2>1, <3>1 DEF LeadsIn, LeadsDown
  <2>2. CASE z # y
    <3>1. LeadsDown(v, z) /\ NextOf(g, z) = NextOf(v, z)
      BY <1>2, <1>6, <2>2
    <3> QED  BY <1>6, <3>1 DEF LeadsDown
  <2> QED  BY <2>1, <2>2
<1>9. PICK B : B = A \cup {y}
  OBVIOUS
<1>10. Hung(e, B, y)
  <2>1. IsOwner(f, x, KeyOf(g, y)) /\ Full(f[x[1]].records) /\ NextOf(f, x) = y
    BY <1>1, <1>5, <1>6
  <2> QED  BY <1>5, <2>1 DEF Hung, Hangs
<1>11. ASSUME NEW z \in A PROVE Hung(e, B, z)
  <2>1. PICK w \in Places(u) : Hangs(d, A, w, z)
    BY <1>1, <1>4 DEF Hung
  <2>2. /\ IsOwner(u, w, KeyOf(v, z)) /\ Full(u[w[1]].records)
        /\ NextOf(u, w) = z \/ FollowsOne(d, A, w, z)
    BY <1>1, <2>1 DEF Hangs
  <2>3. IsOwner(f, w, KeyOf(g, z)) /\ Full(f[w[1]].records) /\ w \in Places(f)
    BY <1>4, <1>5, <1>6, <2>2
  <2>4. CASE NextOf(u, w) = z /\ w # x
    <3>1. NextOf(f, w) = z
      BY <1>5, <2>4
    <3> QED  BY <2>3, <3>1 DEF Hung, Hangs
  <2>5. CASE NextOf(u, w) = z /\ w = x
    <3>1. IsOwner(f, w, KeyOf(g, y)) /\ NextOf(g, y) = z /\ y \in B
      BY <1>1, <1>5, <1>6, <1>9, <2>5
    <3>2. FollowsOne(e, B, w, z)
      BY <3>1 DEF FollowsOne
    <3> QED  BY <2>3, <3>2 DEF Hung, Hangs
  <2>6. CASE FollowsOne(d, A, w, z)
    <3>1. PICK a \in A : IsOwner(u, w, KeyOf(v, a)) /\ NextOf(v, a) = z
      BY <1>1, <2>6 DEF FollowsOne
    <3>2. IsOwner(f, w, KeyOf(g, a)) /\ NextOf(g, a) = z /\ a \in B
      BY <1>4, <1>5, <1>6, <1>9, <3>1
    <3>3. FollowsOne(e, B, w, z)
      BY <3>2 DEF FollowsOne
    <3> QED  BY <2>3, <3>3 DEF Hung, Hangs
  <2> QED  BY <2>2, <2>4, <2>5, <2>6
<1>12. OnChains(e, B)
  <2>1. B \subseteq Places(g) /\ \A z \in B : Hung(e, B, z)
    BY <1>4, <1>6, <1>9, <1>10, <1>11
  <2>2. \A z \in Places(g) : z \in B \/ Held(f, KeyOf(g, z)) # 0
    BY <1>1, <1>4, <1>6, <1>9
  <2> QED  BY <2>1, <2>2 DEF OnChains
<1> QED  BY <1>7, <1>8, <1>12 DEF Chains

(* What is read of an area does not change when a page of zeros is added. *)
LEMMA GrowsAllocated ==
  ASSUME NEW f, NEW h, Places(h) = Places(f), \A z \in Places(f) : RecordAt(h, z) = RecordAt(f, z),
         NEW g, NEW y, NEW r, Grows(h, g, y, r)
  PROVE  Grows(f, g, y, r)
BY DEF Grows

(* A page of zeros at the end, and a link to a record that is not there yet,
   are seen.                                                               *)
LEMMA ZeroIsBroken ==
  ASSUME Parameters, NEW f \in Areas, NEW d, d.over = Allocated(f)
  PROVE  Broken(d)
<1>1. Count(f) \in Nat \ {0}
  BY AreaSize
<1>2. Count(Allocated(f)) = Count(f) + 1 /\ Allocated(f)[Count(f)] = Zero
  BY PageAllocated
<1>3. PICK h : h = Allocated(f)
  OBVIOUS
<1>4. Count(h) - 1 = Count(f) /\ h[Count(f)].id = 0
  BY <1>1, <1>2, <1>3 DEF Zero, Node
<1> QED  BY <1>1, <1>3, <1>4 DEF Broken

LEMMA LinkIsBroken ==
  ASSUME NEW d, NEW x \in Places(d.main), NEW n \in Nat, NEW l \in Nat,
         NextOf(d.main, x) = <<n, l>>, l > Len(d.over[n].records)
  PROVE  Broken(d)
<1>1. <<n, l>> # Nowhere /\ <<n, l>>[1] = n /\ <<n, l>>[2] = l
  BY DEF Nowhere
<1> QED  BY <1>1 DEF Broken, NextOf

(* An insert into a full page keeps the chains. *)
LEMMA OverflowInsertKeeps ==
  ASSUME Parameters, disk \in Disks, Numbered(disk.over), Chains(disk), NEW k \in Keys,
         NEW p, p = BinarySearchPage(k), Full(disk.main[p].records)
  PROVE  /\ \A i \in 1..Len(Insertions(k)) : Intact(Insertions(k)[i])
         /\ Chains(Insertions(k)[Len(Insertions(k))])
<1>1. PICK u, v : u = disk.main /\ v = disk.over
  OBVIOUS
<1>2. u \in MainAreas /\ u \in Areas /\ v \in Areas /\ p \in DOMAIN u /\ IsPageFor(u, p, k)
  BY <1>1, PageFound DEF Disks, MainAreas, IsPageFor
<1>3. PICK at : at = LinkedFrom(u[p].records, k)
  OBVIOUS
<1>4. PICK c : c = Insertions(k)
  OBVIOUS
<1>5. /\ at \in 1..Len(u[p].records)
      /\ \E f, h, g, n, r : LinksTo(disk, c, k, p, at, f, h, g, n, r)
  BY <1>1, <1>3, <1>4, InsertInOverflow
<1>6. PICK f, h, g, n, r : LinksTo(disk, c, k, p, at, f, h, g, n, r)
  BY <1>5
<1>7. PICK y : y = <<n, Len(h[n].records) + 1>>
  OBVIOUS
<1>8. /\ f \in MainAreas /\ h \in Areas /\ g \in Areas /\ r \in Rec
      /\ Relinked(u, f, p, at, y)
      /\ \A m : Held(f, m) = Held(u, m)
      /\ r.key = k /\ r.next = u[p].records[at].next
      /\ h = v \/ h = Allocated(v)
      /\ AppendsTo(h, g, n, r)
      /\ c[Len(c)] = [main |-> f, over |-> g]
      /\ \A i \in 1..Len(c) : \/ c[i] = [main |-> u, over |-> h] /\ h = Allocated(v)
                              \/ c[i] = [main |-> f, over |-> h]
                              \/ c[i] = [main |-> f, over |-> g]
  BY <1>1, <1>6, <1>7 DEF LinksTo
<1>9. PICK x : x = <<p, at>>
  OBVIOUS
<1>10. LinkChanged(u, f, x, y)
  BY <1>2, <1>5, <1>8, <1>9, RelinkedKeeps
<1>11. IsOwner(u, x, k) /\ x[1] = p /\ Full(u[p].records)
  BY <1>1, <1>2, <1>3, <1>5, <1>9, LinkedFromOwner
<1>12. Grows(v, g, y, r)
  <2>1. Grows(h, g, y, r)
    BY <1>7, <1>8, LastGrows
  <2>2. Places(h) = Places(v) /\ \A z \in Places(v) : RecordAt(h, z) = RecordAt(v, z)
    BY <1>2, <1>8, AllocatedPlaces
  <2> QED  BY <2>1, <2>2, GrowsAllocated
<1>13. r.next = NextOf(u, x)
  BY <1>8, <1>9 DEF NextOf, RecordAt
<1>14. ASSUME NEW e, e = [main |-> f, over |-> g] PROVE Chains(e)
  <2>1. e.main = f /\ e.over = g
    BY <1>14
  <2>2. Full(u[x[1]].records)
    BY <1>11
  <2> QED  BY <1>1, <1>8, <1>10, <1>11, <1>12, <1>13, <2>1, <2>2, OverflowKeepsChains
<1>15. ASSUME NEW e, e = [main |-> u, over |-> h], h = Allocated(v) PROVE Broken(e)
  <2>1. e.over = Allocated(v)
    BY <1>15
  <2> QED  BY <1>2, <2>1, ZeroIsBroken
<1>16. ASSUME NEW e, e = [main |-> f, over |-> h] PROVE Broken(e)
  <2>1. e.main = f /\ e.over = h
    BY <1>16
  <2>2. x \in Places(e.main) /\ NextOf(e.main, x) = y
    BY <1>10, <2>1 DEF LinkChanged
  <2>3. n \in DOMAIN h /\ n \in Nat
    <3>1. n \in DOMAIN h
      BY <1>8 DEF AppendsTo
    <3>2. DOMAIN h = 0..(Count(h) - 1)
      BY <1>8, AreaSize
    <3> QED  BY <3>1, <3>2
  <2>4. PICK l \in Nat : l = Len(h[n].records)
    <3>1. h[n].records \in Seq(Rec)
      BY <1>8, <2>3, PageHolds
    <3> QED  BY <3>1
  <2>5. PICK a \in Nat : a = l + 1
    BY <2>4
  <2>6. NextOf(e.main, x) = <<n, a>> /\ a > Len(e.over[n].records)
    BY <1>7, <2>1, <2>2, <2>4, <2>5
  <2> QED  BY <2>2, <2>3, <2>6, LinkIsBroken
<1>17. \A i \in 1..Len(c) : Intact(c[i])
  BY <1>8, <1>14, <1>15, <1>16 DEF Intact
<1> QED  BY <1>4, <1>8, <1>14, <1>17

-----------------------------------------------------------------------------
(* A reorganization and the chains.                                        *)

(* What a reorganization lays out has no links. *)
LEMMA NoLinks ==
  ASSUME Parameters, disk \in Disks, NEW f, f = Paged(Merged, FillFactor), f \in Areas
  PROVE  \A x \in Places(f) : NextOf(f, x) = Nowhere
<1>1. PICK r \in Seq(Rec), fill \in Nat \ {0} : r = Merged /\ fill = FillFactor
  <2>1. Merged \in Seq(Rec)
    BY MergedShape
  <2>2. FillFactor \in Nat \ {0}
    <3>1. FillFactor \in 1..Capacity
      BY FillType
    <3> QED  BY <3>1 DEF Parameters
  <2> QED  BY <2>1, <2>2
<1>2. \A i \in 1..Len(r) : r[i].next = Nowhere
  BY <1>1, MergedShape
<1>3. f = Paged(r, fill)
  BY <1>1
<1>4. PICK P \in Nat : /\ f = [p \in 0..P |-> f[p]]
                       /\ \A p \in 0..P : PageOf(r, fill, P, p, f[p])
  BY <1>3, PagedShape
<1>5. ASSUME NEW x \in Places(f) PROVE NextOf(f, x) = Nowhere
  <2>1. x[1] \in DOMAIN f /\ x[2] \in 1..Len(f[x[1]].records)
    BY PlaceShape
  <2>2. PICK p, j, node : p = x[1] /\ j = x[2] /\ node = f[p]
    OBVIOUS
  <2>3. p \in 0..P /\ j \in 1..Len(node.records)
    <3>1. DOMAIN f = 0..P
      BY <1>4
    <3> QED  BY <2>1, <2>2, <3>1
  <2>4. PageOf(r, fill, P, p, node)
    BY <1>4, <2>2, <2>3
  <2>5. p * fill + j \in 1..Len(r) /\ node.records[j] = r[p * fill + j]
    BY <2>3, <2>4 DEF PageOf
  <2>6. node.records[j].next = Nowhere
    BY <1>2, <2>5
  <2> QED  BY <2>2, <2>6 DEF NextOf, RecordAt
<1> QED  BY <1>5

(* Without a link no record is on a chain, and none has to be when the main
   area has the keys of overflow.                                          *)
LEMMA UnlinkedChains ==
  ASSUME NEW d, \A x \in Places(d.main) : NextOf(d.main, x) = Nowhere,
         \A y \in Places(d.over) : LeadsDown(d.over, y) /\ Held(d.main, KeyOf(d.over, y)) # 0
  PROVE  Chains(d)
<1>1. \A x \in Places(d.main) : LeadsIn(d.over, NextOf(d.main, x))
  BY DEF LeadsIn
<1>2. OnChains(d, {})
  BY DEF OnChains
<1> QED  BY <1>1, <1>2 DEF Chains

LEMMA NothingHeld ==
  ASSUME Parameters, NEW f \in Areas, \A m : Held(f, m) = 0
  PROVE  Places(f) = {}
<1>1. SUFFICES ASSUME NEW x \in Places(f) PROVE FALSE
  OBVIOUS
<1>2. PICK k : k = KeyOf(f, x)
  OBVIOUS
<1>3. Held(f, k) # 0
  BY <1>2, HeldShape
<1> QED  BY <1>3

(* The last write of a reorganization leaves chains whole, whatever it found;
   one that found them whole, every write.                                 *)
LEMMA ReorganizationChains ==
  ASSUME Parameters, disk \in Disks, NEW c, c = Reorganization
  PROVE  /\ Chains(c[Len(c)])
         /\ Chains(disk) => \A i \in 1..Len(c) : Intact(c[i])
<1>1. PICK f, g : Unlinks(disk, c, f, g)
  BY ReorganizationKeeps
<1>2. /\ f = Paged(Merged, FillFactor) /\ f \in MainAreas /\ f \in Areas
      /\ \A m : Held(f, m) = InDisk(disk, m)
      /\ g \in Areas /\ g[Count(g) - 1].id # Count(g) - 1
      /\ c[Len(c)].main = f /\ \A m : Held(c[Len(c)].over, m) = 0
      /\ \A i \in 1..Len(c) :
           /\ c[i].main = f
           /\ c[i].over \in {disk.over, g} \/ \A m : Held(c[i].over, m) = 0
  BY <1>1 DEF Unlinks, MainAreas
<1>3. \A i \in 1..Len(c) : c[i] \in Disks
  <2>1. c \in Seq(Disks)
    BY ReorganizationKeeps DEF Reorganizes
  <2> QED  BY <2>1
<1>4. Len(c) \in 1..Len(c)
  <2>1. c \in Seq(Disks) /\ c # <<>>
    BY ReorganizationKeeps DEF Reorganizes
  <2>2. Len(c) \in Nat \ {0}
    BY <2>1, NotEmpty
  <2> QED  BY <2>2
<1>5. \A x \in Places(f) : NextOf(f, x) = Nowhere
  BY <1>2, NoLinks
<1>6. ASSUME NEW d \in Disks, d.main = f, \A m : Held(d.over, m) = 0
      PROVE  Chains(d)
  <2>1. d.over \in Areas
    BY DEF Disks
  <2>2. Places(d.over) = {}
    BY <1>6, <2>1, NothingHeld
  <2> QED  BY <1>5, <1>6, <2>2, UnlinkedChains
<1>7. ASSUME Chains(disk), NEW d \in Disks, d.main = f, d.over = disk.over
      PROVE  Chains(d)
  <2>1. PICK v : v = disk.over
    OBVIOUS
  <2>2. v \in Areas /\ \A y \in Places(v) : LeadsDown(v, y)
    BY <1>7, <2>1 DEF Disks, Chains
  <2>3. ASSUME NEW y \in Places(v) PROVE Held(f, KeyOf(v, y)) # 0
    <3>1. PICK k : k = KeyOf(v, y)
      OBVIOUS
    <3>2. Held(v, k) # 0
      BY <2>2, <3>1, HeldShape
    <3>3. Held(v, k) \in Nat /\ Held(disk.main, k) \in Nat
      BY <2>1, DiskCounts
    <3>4. Held(f, k) = Held(disk.main, k) + Held(v, k)
      BY <1>2, <2>1 DEF InDisk
    <3> QED  BY <3>1, <3>2, <3>3, <3>4
  <2> QED  BY <1>5, <1>7, <2>1, <2>2, <2>3, UnlinkedChains
<1>8. ASSUME NEW d, d.over = g PROVE Broken(d)
  BY <1>2, <1>8 DEF Broken
<1>9. Chains(c[Len(c)])
  <2>1. PICK d \in Disks : d = c[Len(c)]
    BY <1>3, <1>4
  <2> QED  BY <1>2, <1>6, <2>1
<1>10. ASSUME Chains(disk), NEW i \in 1..Len(c) PROVE Intact(c[i])
  <2>1. PICK d \in Disks : d = c[i]
    BY <1>3
  <2>2. d.main = f /\ (d.over = disk.over \/ d.over = g \/ \A m : Held(d.over, m) = 0)
    BY <1>2, <2>1
  <2>3. Chains(d) \/ Broken(d)
    BY <1>6, <1>7, <1>8, <1>10, <2>2
  <2> QED  BY <2>1, <2>3 DEF Intact
<1> QED  BY <1>9, <1>10

-----------------------------------------------------------------------------
(* The invariant of the chains.                                            *)

LEMMA InitLinks ==
  ASSUME Parameters, Init
  PROVE  LinkPromise
<1>1. PICK f : f = [p \in 0..0 |-> Node(0, <<>>)]
  OBVIOUS
<1>2. f = [p \in 0..0 |-> Zero]
  BY <1>1 DEF Zero
<1>3. f \in Areas /\ \A m : Held(f, m) = 0
  BY <1>2, EmptyArea
<1>4. disk.main = f /\ disk.over = f /\ coming = <<>> /\ Len(<<>>) = 0
  BY <1>1 DEF Init
<1>5. Places(f) = {}
  BY <1>3, NothingHeld
<1>6. Chains(disk)
  BY <1>4, <1>5, UnlinkedChains
<1>7. 1..Len(coming) = {}
  BY <1>4
<1> QED  BY <1>4, <1>6, <1>7 DEF LinkPromise, Intact

(* Between calls, chains are whole. *)
LEMMA RestingChains ==
  ASSUME Parameters, SInv, LinkPromise, Idle, ~torn
  PROVE  disk \in Disks /\ Numbered(disk.over) /\ Chains(disk)
<1>1. disk \in Disks
  BY DEF SInv, Shape
<1>2. Numbered(disk.over)
  BY RestingDisk
<1>3. Chains(disk)
  BY DEF LinkPromise, Idle
<1> QED  BY <1>1, <1>2, <1>3

LEMMA InsertLinks ==
  ASSUME Parameters, SInv, LinkPromise, NEW k \in Keys, StartInsert(k)
  PROVE  LinkPromise'
<1>1. Idle /\ coming' = Insertions(k) /\ job' = <<"insert", k>> /\ disk' = disk /\ torn' = torn
  BY DEF StartInsert
<1>2. PICK c : c = Insertions(k)
  OBVIOUS
<1>3. job' # Merge
  BY <1>1 DEF Merge
<1>4. ASSUME ~torn
      PROVE  /\ \A i \in 1..Len(c) : Intact(c[i])
             /\ c # <<>> => Chains(c[Len(c)])
             /\ Chains(disk)
  <2>1. disk \in Disks /\ Numbered(disk.over) /\ Chains(disk)
    BY <1>1, <1>4, RestingChains
  <2>2. PICK p : p = BinarySearchPage(k)
    OBVIOUS
  <2>3. CASE Full(disk.main[p].records)
    BY <1>2, <2>1, <2>2, <2>3, OverflowInsertKeeps
  <2>4. CASE ~Full(disk.main[p].records)
    <3>1. Len(c) = 1 /\ Chains(c[1])
      BY <1>2, <2>1, <2>2, <2>4, RoomKeepsChains
    <3> QED  BY <2>1, <3>1 DEF Intact
  <2> QED  BY <2>3, <2>4
<1>5. Intact(disk)' = Intact(disk) /\ Chains(disk)' = Chains(disk)
  BY <1>1
<1>6. ~torn' => Intact(disk') /\ \A i \in 1..Len(coming') : Intact(coming'[i])
  BY <1>1, <1>2, <1>4 DEF Intact
<1>7. ~torn' \/ job' = Merge => Chains(IF coming' = <<>> THEN disk' ELSE coming'[Len(coming')])
  BY <1>1, <1>2, <1>3, <1>4
<1> QED  BY <1>6, <1>7 DEF LinkPromise

LEMMA ReorganizeLinks ==
  ASSUME Parameters, SInv, LinkPromise, StartReorganize
  PROVE  LinkPromise'
<1>1. Idle /\ coming' = Reorganization /\ disk' = disk /\ torn' = torn
  BY DEF StartReorganize
<1>2. PICK c : c = Reorganization
  OBVIOUS
<1>3. disk \in Disks
  BY DEF SInv, Shape
<1>4. /\ Chains(c[Len(c)])
      /\ Chains(disk) => \A i \in 1..Len(c) : Intact(c[i])
  BY <1>2, <1>3, ReorganizationChains
<1>5. c # <<>>
  BY <1>2, <1>3, ReorganizationKeeps DEF Reorganizes
<1>6. ~torn => Chains(disk)
  BY <1>1, RestingChains
<1>7. ~torn' => Intact(disk') /\ \A i \in 1..Len(coming') : Intact(coming'[i])
  BY <1>1, <1>2, <1>4, <1>6 DEF Intact
<1>8. Chains(IF coming' = <<>> THEN disk' ELSE coming'[Len(coming')])
  BY <1>1, <1>2, <1>4, <1>5
<1> QED  BY <1>7, <1>8 DEF LinkPromise

LEMMA WriteLinks ==
  ASSUME Parameters, SInv, LinkPromise, WritePage
  PROVE  LinkPromise'
<1>1. coming \in Seq(Disks) /\ coming # <<>> /\ torn \in BOOLEAN
  BY DEF SInv, Shape, WritePage
<1>2. PICK c, t, h : c = coming /\ t = Tail(c) /\ h = Head(c)
  OBVIOUS
<1>3. disk' = h /\ coming' = t
  BY <1>2 DEF WritePage
<1>4. /\ h = c[1] /\ t \in Seq(Disks) /\ Len(c) \in Nat \ {0} /\ Len(t) = Len(c) - 1
      /\ \A i \in 1..Len(t) : t[i] = c[i + 1]
      /\ t = <<>> <=> Len(c) = 1
  BY <1>1, <1>2, TailWrites
<1>5. 1 \in 1..Len(c) /\ \A i \in 1..Len(t) : i + 1 \in 1..Len(c)
  BY <1>4
<1>6. (IF t = <<>> THEN h ELSE t[Len(t)]) = c[Len(c)]
  <2>1. CASE t = <<>>
    BY <1>4, <2>1
  <2>2. CASE t # <<>>
    <3>1. Len(t) \in 1..Len(t) /\ Len(t) + 1 = Len(c)
      BY <1>4, <2>2
    <3> QED  BY <1>4, <2>2, <3>1
  <2> QED  BY <2>1, <2>2
<1>7. ~torn => Intact(h) /\ \A i \in 1..Len(t) : Intact(t[i])
  BY <1>2, <1>4, <1>5 DEF LinkPromise
<1>8. ~torn \/ job = Merge => Chains(c[Len(c)])
  BY <1>1, <1>2 DEF LinkPromise
<1>9. CASE t # <<>>
  <2>1. job' = job /\ torn' = torn
    BY <1>3, <1>9 DEF WritePage
  <2>2. ~torn' => Intact(disk') /\ \A i \in 1..Len(coming') : Intact(coming'[i])
    BY <1>3, <1>7, <2>1
  <2>3. ~torn' \/ job' = Merge => Chains(IF coming' = <<>> THEN disk' ELSE coming'[Len(coming')])
    BY <1>3, <1>6, <1>8, <2>1
  <2> QED  BY <2>2, <2>3 DEF LinkPromise
<1>10. CASE t = <<>>
  <2>1. job' = NoJob /\ torn' = (torn /\ job # Merge)
    BY <1>3, <1>10 DEF WritePage
  <2>2. ~torn' => Chains(h)
    BY <1>6, <1>8, <1>10, <2>1
  <2>3. job' # Merge
    BY <2>1 DEF NoJob, Merge
  <2>4. 1..Len(t) = {}
    <3>1. Len(<<>>) = 0 /\ 1..0 = {}
      OBVIOUS
    <3> QED  BY <1>10, <3>1
  <2>5. ~torn' => Intact(disk') /\ \A i \in 1..Len(coming') : Intact(coming'[i])
    BY <1>3, <2>2, <2>4 DEF Intact
  <2>6. ~torn' \/ job' = Merge => Chains(IF coming' = <<>> THEN disk' ELSE coming'[Len(coming')])
    BY <1>3, <1>10, <2>2, <2>3
  <2> QED  BY <2>5, <2>6 DEF LinkPromise
<1> QED  BY <1>9, <1>10

LEMMA StopLinks ==
  ASSUME Parameters, SInv, LinkPromise, Stop
  PROVE  LinkPromise'
<1>1. disk' = disk /\ coming' = <<>> /\ job' = NoJob /\ torn' = (torn \/ Broken(disk))
  BY DEF Stop
<1>2. job' # Merge
  BY <1>1 DEF NoJob, Merge
<1>3. ~torn' => Chains(disk)
  BY <1>1 DEF LinkPromise, Intact
<1>4. Len(<<>>) = 0 /\ 1..0 = {}
  OBVIOUS
<1>5. ~torn' => Intact(disk') /\ \A i \in 1..Len(coming') : Intact(coming'[i])
  BY <1>1, <1>3, <1>4 DEF Intact
<1>6. ~torn' \/ job' = Merge => Chains(IF coming' = <<>> THEN disk' ELSE coming'[Len(coming')])
  BY <1>1, <1>2, <1>3
<1> QED  BY <1>5, <1>6 DEF LinkPromise

LEMMA StepLinks ==
  ASSUME Parameters, SInv, LinkPromise, [Next]_vars
  PROVE  LinkPromise'
<1>1. ASSUME NEW k \in Keys, StartInsert(k) PROVE LinkPromise'
  BY <1>1, InsertLinks
<1>2. CASE StartReorganize
  BY <1>2, ReorganizeLinks
<1>3. CASE WritePage
  BY <1>3, WriteLinks
<1>4. CASE Stop
  BY <1>4, StopLinks
<1>5. CASE UNCHANGED vars
  BY <1>5 DEF vars, LinkPromise
<1> QED  BY <1>1, <1>2, <1>3, <1>4, <1>5 DEF Next

-----------------------------------------------------------------------------
(* The pages that records name.                                            *)

NamesPage(r, v)  == r.next = Nowhere \/ r.next[1] \in DOMAIN v
NamePages(s, v)  == \A i \in 1..Len(s) : NamesPage(s[i], v)
PagesNamed(f, v) == \A p \in DOMAIN f : NamePages(f[p].records, v)

(* Whatever was torn, a record names pages of overflow that exist. *)
NamesStay(d) == PagesNamed(d.main, d.over) /\ PagesNamed(d.over, d.over)
NamePromise  == NamesStay(disk) /\ \A i \in 1..Len(coming) : NamesStay(coming[i])

LEMMA NamesGrow ==
  ASSUME NEW f, NEW v, PagesNamed(f, v), NEW w, DOMAIN v \subseteq DOMAIN w
  PROVE  PagesNamed(f, w)
BY DEF PagesNamed, NamePages, NamesPage

(* A page is written. *)
LEMMA NamesWritten ==
  ASSUME NEW f, NEW v, PagesNamed(f, v), NEW g, NEW p, NEW t, NamePages(t, v),
         Changed(f, g, p, Node(p, t))
  PROVE  PagesNamed(g, v)
<1>1. DOMAIN g = DOMAIN f /\ g[p].records = t /\ \A q \in DOMAIN f : q # p => g[q] = f[q]
  BY DEF Changed, SameBut, Node
<1> QED  BY <1>1 DEF PagesNamed

(* A page is allocated, or none. *)
LEMMA NamesAllocated ==
  ASSUME Parameters, NEW f \in Areas, NEW v, PagesNamed(f, v), NEW h, h = f \/ h = Allocated(f)
  PROVE  PagesNamed(h, v) /\ DOMAIN f \subseteq DOMAIN h
<1>1. CASE h = f
  BY <1>1
<1>2. CASE h = Allocated(f)
  <2>1. /\ DOMAIN h = DOMAIN f \cup {Count(f)} /\ h[Count(f)] = Zero
        /\ \A q \in DOMAIN f : h[q] = f[q]
    BY <1>2, PageAllocated
  <2>2. NamePages(<<>>, v)
    <3>1. 1..Len(<<>>) = {}
      OBVIOUS
    <3> QED  BY <3>1 DEF NamePages
  <2>3. NamePages(h[Count(f)].records, v)
    BY <2>1, <2>2 DEF Zero, Node
  <2> QED  BY <2>1, <2>3 DEF PagesNamed
<1> QED  BY <1>1, <1>2

LEMMA NothingNamed ==
  ASSUME Parameters, NEW f \in Areas, Places(f) = {}, NEW v
  PROVE  PagesNamed(f, v)
<1>1. \A p \in DOMAIN f : \A i \in 1..Len(f[p].records) : <<p, i>> \in Places(f)
  BY PlaceShape
<1> QED  BY <1>1 DEF PagesNamed, NamePages

LEMMA InsertNames ==
  ASSUME Parameters, disk \in Disks, NamesStay(disk), NEW k \in Keys
  PROVE  \A i \in 1..Len(Insertions(k)) : NamesStay(Insertions(k)[i])
<1>1. PICK u, v : u = disk.main /\ v = disk.over
  OBVIOUS
<1>2. PICK p : p = BinarySearchPage(k)
  OBVIOUS
<1>3. u \in MainAreas /\ u \in Areas /\ v \in Areas /\ p \in DOMAIN u
  BY <1>1, <1>2, PageFound DEF Disks, MainAreas
<1>4. PICK s \in Seq(Rec) : s = u[p].records
  BY <1>3, PageHolds
<1>5. PagesNamed(u, v) /\ PagesNamed(v, v) /\ NamePages(s, v)
  BY <1>1, <1>3, <1>4 DEF NamesStay, PagesNamed
<1>6. PICK c : c = Insertions(k)
  OBVIOUS
<1>7. CASE ~Full(s)
  <2>1. PICK r \in Rec : r = Record(k, Nowhere)
    <3>1. Record(k, Nowhere) \in Rec
      BY DEF Record, Rec, Nowhere
    <3> QED  BY <3>1
  <2>2. PICK t : t = Placed(s, r)
    OBVIOUS
  <2>3. /\ t \in Seq(Rec)
        /\ \A i \in 1..Len(t) : t[i] = r \/ \E j \in 1..Len(s) : t[i] = s[j]
    BY <2>2, PlacedInOrder
  <2>4. PICK g : g = Put(u, Node(u[p].id, t))
    OBVIOUS
  <2>5. Changed(u, g, p, Node(p, t))
    BY <1>1, <1>2, <1>4, <1>7, <2>1, <2>2, <2>4, RoomInPage
  <2>6. PICK d : d = [main |-> g, over |-> v]
    OBVIOUS
  <2>7. c = <<d>>
    <3>1. [disk EXCEPT !.main = g] = d
      BY <1>1, <2>6 DEF Disks
    <3> QED  BY <1>1, <1>2, <1>4, <1>6, <1>7, <2>1, <2>2, <2>4, <3>1 DEF Insertions
  <2>8. NamePages(t, v)
    <3>1. NamesPage(r, v)
      BY <2>1 DEF NamesPage, Record
    <3> QED  BY <1>5, <2>3, <3>1 DEF NamePages
  <2>9. PagesNamed(g, v)
    BY <1>5, <2>5, <2>8, NamesWritten
  <2>10. NamesStay(d)
    BY <1>5, <2>6, <2>9 DEF NamesStay
  <2>11. Len(c) = 1 /\ c[1] = d
    BY <2>7
  <2> QED  BY <1>6, <2>10, <2>11
<1>8. CASE Full(s)
  <2>1. PICK at : at = LinkedFrom(s, k)
    OBVIOUS
  <2>2. at \in 1..Len(s) /\ \E f, h, g, n, w, r : GoesTo(disk, c, p, at, f, h, g, n, w, r)
    BY <1>1, <1>2, <1>4, <1>6, <1>8, <2>1, InsertInOverflow
  <2>3. PICK f, h, g, n, w, r : GoesTo(disk, c, p, at, f, h, g, n, w, r)
    BY <2>2
  <2>4. PICK place : place = <<n, Len(w) + 1>>
    OBVIOUS
  <2>5. /\ Relinked(u, f, p, at, place) /\ r \in Rec /\ r.next = s[at].next
        /\ h = v \/ h = Allocated(v)
        /\ n \in DOMAIN h /\ w \in Seq(Rec) /\ (w = <<>> \/ w = h[n].records)
        /\ Changed(h, g, n, Node(n, Append(w, r)))
        /\ \A i \in 1..Len(c) : \/ c[i] = [main |-> u, over |-> h]
                                \/ c[i] = [main |-> f, over |-> h]
                                \/ c[i] = [main |-> f, over |-> g]
    BY <1>1, <1>4, <2>3, <2>4 DEF GoesTo, Extends
  <2>6. PagesNamed(h, v) /\ DOMAIN v \subseteq DOMAIN h
    BY <1>3, <1>5, <2>5, NamesAllocated
  <2>7. PagesNamed(u, h) /\ PagesNamed(h, h)
    <3>1. PagesNamed(u, h)
      BY <1>5, <2>6, NamesGrow
    <3>2. PagesNamed(h, h)
      BY <2>6, NamesGrow
    <3> QED  BY <3>1, <3>2
  <2>8. NamePages(s, h)
    BY <1>3, <1>4, <2>7 DEF PagesNamed
  <2>9. PagesNamed(f, h)
    <3>1. PICK t \in Seq(Rec) : NewLink(s, t, at, place) /\ Changed(u, f, p, Node(p, t))
      BY <1>4, <2>5 DEF Relinked
    <3>2. place[1] = n
      BY <2>4
    <3>3. NamePages(t, h)
      <4>1. ASSUME NEW i \in 1..Len(t) PROVE NamesPage(t[i], h)
        <5>1. CASE i = at
          BY <2>5, <3>1, <3>2, <5>1 DEF NewLink, NamesPage
        <5>2. CASE i # at
          BY <2>8, <3>1, <5>2 DEF NewLink, NamePages
        <5> QED  BY <5>1, <5>2
      <4> QED  BY <4>1 DEF NamePages
    <3> QED  BY <2>7, <3>1, <3>3, NamesWritten
  <2>10. PagesNamed(g, h) /\ DOMAIN g = DOMAIN h
    <3>1. PICK a : a = Append(w, r)
      OBVIOUS
    <3>2. \A i \in 1..Len(a) : a[i] = r \/ (i \in 1..Len(w) /\ a[i] = w[i])
      BY <2>5, <3>1, AppendShape
    <3>3. NamePages(w, h)
      <4>1. CASE w = <<>>
        <5>1. 1..Len(w) = {}
          BY <4>1
        <5> QED  BY <5>1 DEF NamePages
      <4>2. CASE w = h[n].records
        BY <2>5, <2>7, <4>2 DEF PagesNamed
      <4> QED  BY <2>5, <4>1, <4>2
    <3>4. NamesPage(r, h)
      BY <2>2, <2>5, <2>8 DEF NamePages, NamesPage
    <3>5. NamePages(a, h)
      BY <3>2, <3>3, <3>4 DEF NamePages
    <3>6. Changed(h, g, n, Node(n, a))
      BY <2>5, <3>1
    <3>7. PagesNamed(g, h)
      BY <2>7, <3>5, <3>6, NamesWritten
    <3> QED  BY <3>6, <3>7 DEF Changed
  <2>11. PagesNamed(f, g) /\ PagesNamed(g, g)
    <3>1. PagesNamed(f, g)
      BY <2>9, <2>10, NamesGrow
    <3>2. PagesNamed(g, g)
      BY <2>10, NamesGrow
    <3> QED  BY <3>1, <3>2
  <2>12. ASSUME NEW i \in 1..Len(c) PROVE NamesStay(c[i])
    BY <2>5, <2>7, <2>9, <2>11 DEF NamesStay
  <2> QED  BY <1>6, <2>12
<1> QED  BY <1>7, <1>8

LEMMA ReorganizeNames ==
  ASSUME Parameters, disk \in Disks, NamesStay(disk)
  PROVE  \A i \in 1..Len(Reorganization) : NamesStay(Reorganization[i])
<1>1. PICK c : c = Reorganization
  OBVIOUS
<1>2. PICK f, g : Unlinks(disk, c, f, g)
  BY <1>1, ReorganizationKeeps
<1>3. /\ f = Paged(Merged, FillFactor) /\ f \in Areas
      /\ \A m : Held(g, m) = 0
      /\ \A i \in 1..Len(c) :
           /\ c[i].main = f
           /\ c[i].over \in {disk.over, g} \/ \A m : Held(c[i].over, m) = 0
  BY <1>2 DEF Unlinks, MainAreas
<1>4. \A i \in 1..Len(c) : c[i] \in Disks
  <2>1. c \in Seq(Disks)
    BY <1>1, ReorganizationKeeps DEF Reorganizes
  <2> QED  BY <2>1
<1>5. ASSUME NEW v PROVE PagesNamed(f, v)
  <2>1. \A x \in Places(f) : NextOf(f, x) = Nowhere
    BY <1>3, NoLinks
  <2>2. \A p \in DOMAIN f : \A i \in 1..Len(f[p].records) :
          <<p, i>> \in Places(f) /\ RecordAt(f, <<p, i>>) = f[p].records[i]
    BY <1>3, PlaceShape
  <2>3. \A p \in DOMAIN f : \A i \in 1..Len(f[p].records) : f[p].records[i].next = Nowhere
    BY <2>1, <2>2, ZenonT(40) DEF NextOf
  <2> QED  BY <2>3 DEF PagesNamed, NamePages, NamesPage
<1>6. ASSUME NEW i \in 1..Len(c) PROVE NamesStay(c[i])
  <2>1. PICK d \in Disks : d = c[i]
    BY <1>4
  <2>2. d.main = f /\ d.over \in Areas
    BY <1>3, <2>1 DEF Disks
  <2>3. PICK v : v = d.over
    OBVIOUS
  <2>4. PagesNamed(v, v)
    <3>1. CASE v = disk.over
      BY <3>1 DEF NamesStay
    <3>2. CASE v # disk.over
      <4>1. \A m : Held(v, m) = 0
        BY <1>3, <2>1, <2>3, <3>2
      <4>2. Places(v) = {}
        BY <2>2, <2>3, <4>1, NothingHeld
      <4> QED  BY <2>2, <2>3, <4>2, NothingNamed
    <3> QED  BY <3>1, <3>2
  <2> QED  BY <1>5, <2>1, <2>2, <2>3, <2>4 DEF NamesStay
<1> QED  BY <1>1, <1>6

LEMMA InitNames ==
  ASSUME Parameters, Init
  PROVE  NamePromise
<1>1. PICK f : f = [p \in 0..0 |-> Node(0, <<>>)]
  OBVIOUS
<1>2. f = [p \in 0..0 |-> Zero]
  BY <1>1 DEF Zero
<1>3. f \in Areas /\ \A m : Held(f, m) = 0
  BY <1>2, EmptyArea
<1>4. disk.main = f /\ disk.over = f /\ coming = <<>> /\ 1..Len(<<>>) = {}
  BY <1>1 DEF Init
<1>5. Places(f) = {}
  BY <1>3, NothingHeld
<1>6. PagesNamed(f, f)
  BY <1>3, <1>5, NothingNamed
<1> QED  BY <1>4, <1>6 DEF NamePromise, NamesStay

LEMMA StepNames ==
  ASSUME Parameters, SInv, NamePromise, [Next]_vars
  PROVE  NamePromise'
<1>1. disk \in Disks /\ coming \in Seq(Disks) /\ NamesStay(disk)
  BY DEF SInv, Shape, NamePromise
<1>2. ASSUME NEW k \in Keys, StartInsert(k) PROVE NamePromise'
  <2>1. coming' = Insertions(k) /\ disk' = disk
    BY <1>2 DEF StartInsert
  <2>2. PICK c : c = Insertions(k)
    OBVIOUS
  <2>3. \A i \in 1..Len(c) : NamesStay(c[i])
    BY <1>1, <2>2, InsertNames
  <2>4. (\A i \in 1..Len(coming') : NamesStay(coming'[i])) /\ NamesStay(disk')
    BY <1>1, <2>1, <2>2, <2>3
  <2> QED  BY <2>4 DEF NamePromise
<1>3. CASE StartReorganize
  <2>1. coming' = Reorganization /\ disk' = disk
    BY <1>3 DEF StartReorganize
  <2>2. PICK c : c = Reorganization
    OBVIOUS
  <2>3. \A i \in 1..Len(c) : NamesStay(c[i])
    BY <1>1, <2>2, ReorganizeNames
  <2>4. (\A i \in 1..Len(coming') : NamesStay(coming'[i])) /\ NamesStay(disk')
    BY <1>1, <2>1, <2>2, <2>3
  <2> QED  BY <2>4 DEF NamePromise
<1>4. CASE WritePage
  <2>1. PICK c, t, h : c = coming /\ t = Tail(c) /\ h = Head(c)
    OBVIOUS
  <2>2. disk' = h /\ coming' = t /\ c # <<>>
    BY <1>4, <2>1 DEF WritePage
  <2>3. /\ h = c[1] /\ Len(c) \in Nat \ {0} /\ Len(t) = Len(c) - 1
        /\ \A i \in 1..Len(t) : t[i] = c[i + 1]
    BY <1>1, <2>1, <2>2, TailWrites
  <2>4. 1 \in 1..Len(c) /\ \A i \in 1..Len(t) : i + 1 \in 1..Len(c)
    BY <2>3
  <2>5. NamesStay(h) /\ \A i \in 1..Len(t) : NamesStay(t[i])
    BY <2>1, <2>3, <2>4 DEF NamePromise
  <2> QED  BY <2>2, <2>5 DEF NamePromise
<1>5. CASE Stop
  <2>1. disk' = disk /\ coming' = <<>> /\ 1..Len(<<>>) = {}
    BY <1>5 DEF Stop
  <2> QED  BY <1>1, <2>1 DEF NamePromise
<1>6. CASE UNCHANGED vars
  BY <1>6 DEF vars, NamePromise
<1> QED  BY <1>2, <1>3, <1>4, <1>5, <1>6 DEF Next

(* Shape and names together are the types. *)
LEMMA AreaTypes ==
  ASSUME NEW f \in Areas, NEW v, PagesNamed(f, v)
  PROVE  IsArea(f, v)
<1>1. /\ DOMAIN f = 0..(Count(f) - 1)
      /\ \A p \in DOMAIN f : Len(f[p].records) <= Capacity
  BY AreaSize DEF FitsAt
<1>2. ASSUME NEW x \in Places(f)
      PROVE  /\ RecordAt(f, x).key \in Keys
             /\ RecordAt(f, x).next = Nowhere \/ RecordAt(f, x).next[1] \in DOMAIN v
  <2>1. x[1] \in DOMAIN f /\ x[2] \in 1..Len(f[x[1]].records) /\ RecordAt(f, x) \in Rec
    BY PlaceShape
  <2>2. NamesPage(RecordAt(f, x), v)
    BY <2>1 DEF PagesNamed, NamePages, RecordAt
  <2> QED  BY <2>1, <2>2 DEF Rec, NamesPage
<1> QED  BY <1>1, <1>2 DEF IsArea

LEMMA SaysTypes ==
  ASSUME Parameters, SInv, NamePromise
  PROVE  TypeOK
<1>1. disk.main \in Areas /\ disk.over \in Areas
  BY DEF SInv, Shape, Disks, MainAreas
<1>2. PICK u, v : u = disk.main /\ v = disk.over
  OBVIOUS
<1>3. IsArea(u, v) /\ IsArea(v, v)
  <2>1. PagesNamed(u, v) /\ PagesNamed(v, v)
    BY <1>2 DEF NamePromise, NamesStay
  <2> QED  BY <1>1, <1>2, <2>1, AreaTypes
<1> QED  BY <1>2, <1>3 DEF SInv, Shape, TypeOK

-----------------------------------------------------------------------------
(* What it says of a sequential file.                                      *)

LEMMA SaysOrdered ==
  ASSUME Parameters, SInv
  PROVE  MainOrdered
<1>1. PICK f : f = disk.main /\ f \in Areas /\ Ordered(f)
  BY DEF SInv, Shape, Disks, MainAreas
<1>2. ASSUME NEW x \in Places(f), NEW y \in Places(f), Before(x, y)
      PROVE  RecordAt(f, x).key <= RecordAt(f, y).key
  <2>1. x[1] \in DOMAIN f /\ x[2] \in 1..Len(f[x[1]].records)
    BY <1>1, PlaceShape
  <2>2. y[1] \in DOMAIN f /\ y[2] \in 1..Len(f[y[1]].records)
    BY <1>1, PlaceShape
  <2>3. CASE x[1] < y[1]
    BY <1>1, <2>1, <2>2, <2>3 DEF Ordered, RecordAt
  <2>4. CASE x[1] = y[1] /\ x[2] < y[2]
    <3>1. InOrder(f[x[1]].records)
      BY <1>1, <2>1 DEF Ordered
    <3> QED  BY <2>1, <2>2, <2>4, <3>1 DEF InOrder, RecordAt
  <2> QED  BY <1>2, <2>3, <2>4 DEF Before
<1>3. ASSUME NEW p \in DOMAIN f, p # 0 PROVE f[p].records # <<>>
  <2>1. PICK n \in Nat : n = Count(f) /\ DOMAIN f = 0..(n - 1)
    BY <1>1, AreaSize
  <2>2. n # 1
    BY <1>3, <2>1
  <2> QED  BY <1>1, <2>1, <2>2 DEF Ordered
<1>4. \A x, y \in Places(f) : Before(x, y) => RecordAt(f, x).key <= RecordAt(f, y).key
  BY <1>2
<1> QED  BY <1>1, <1>3, <1>4 DEF MainOrdered

LEMMA SaysContent ==
  ASSUME Parameters, SInv
  PROVE  ContentExact /\ NoRecordLost
<1>1. disk \in Disks /\ stored \in [Keys -> Nat]
  BY DEF SInv, Shape
<1>2. Content(disk) \in [Keys -> Nat] /\ \A m \in Keys : Content(disk)[m] = InDisk(disk, m)
  BY <1>1, ContentOfDisk
<1>3. ContentExact
  <2>1. ASSUME AtRest PROVE Content(disk) = stored
    <3>1. \A m \in Keys : InDisk(disk, m) = stored[m]
      BY <2>1, RestingDisk DEF AtRest
    <3>2. \A m \in Keys : Content(disk)[m] = stored[m]
      BY <1>2, <3>1
    <3> QED  BY <1>1, <1>2, <3>2
  <2> QED  BY <2>1 DEF ContentExact
<1>4. NoRecordLost
  <2>1. ASSUME ~torn \/ job = Merge, NEW m \in Keys PROVE Content(disk)[m] >= stored[m]
    <3>1. Safe(disk, stored)
      BY <2>1 DEF SInv, Promise, Kept
    <3>2. stored[m] <= InDisk(disk, m)
      BY <3>1 DEF Safe
    <3>3. Content(disk)[m] = InDisk(disk, m) /\ stored[m] \in Nat /\ Content(disk)[m] \in Nat
      BY <1>1, <1>2
    <3> QED  BY <3>2, <3>3
  <2> QED  BY <2>1 DEF NoRecordLost
<1> QED  BY <1>3, <1>4

(* From the least key of the main area on, a chain is looked along: a record
   that only overflow has belongs to a record of the main area before it.   *)
LEMMA OwnerBefore ==
  ASSUME Parameters, disk \in Disks, NEW k \in Keys, Least <= k, Held(disk.main, k) = 0,
         NEW x, IsOwner(disk.main, x, k), Full(disk.main[x[1]].records)
  PROVE  Below(disk.main[x[1]].records, k) # {}
<1>1. PICK f, p : f = disk.main /\ p = x[1]
  OBVIOUS
<1>2. f \in MainAreas /\ f \in Areas
  BY <1>1 DEF Disks, MainAreas
<1>3. IsPageFor(f, p, k) /\ p \in DOMAIN f
  BY <1>1 DEF IsOwner, IsPageFor
<1>4. PICK s : s = f[p].records
  OBVIOUS
<1>5. s \in Seq(Rec)
  BY <1>2, <1>3, <1>4, PageHolds
<1>6. s # <<>> /\ 1 \in 1..Len(s) /\ 1 \in DOMAIN s
  <2>1. Len(s) >= Capacity
    BY <1>1, <1>4 DEF Full
  <2>2. Capacity \in Nat \ {0} /\ Len(s) \in Nat
    BY <1>5 DEF Parameters
  <2>3. Len(s) # 0 /\ 1 \in 1..Len(s)
    BY <2>1, <2>2
  <2>4. Len(<<>>) = 0
    OBVIOUS
  <2> QED  BY <1>5, <2>3, <2>4
<1>7. s[1].key <= k
  <2>1. CASE p = 0
    <3>1. Least = s[1].key
      BY <1>1, <1>4, <1>6, <2>1 DEF Least
    <3> QED  BY <3>1
  <2>2. CASE p # 0
    BY <1>3, <1>4, <2>2 DEF IsPageFor, StartsBy
  <2> QED  BY <2>1, <2>2
<1>8. s[1].key # k
  <2>1. <<p, 1>> \in Places(f) /\ RecordAt(f, <<p, 1>>) = s[1]
    BY <1>2, <1>3, <1>4, <1>6, PlaceShape
  <2>2. KeyOf(f, <<p, 1>>) = s[1].key
    BY <2>1 DEF KeyOf
  <2> QED  BY <1>1, <1>2, <2>1, <2>2, HeldShape
<1>9. s[1].key \in Int /\ k \in Int
  BY <1>5, <1>6, KeysOrdered DEF Parameters
<1>10. s[1].key < k
  BY <1>7, <1>8, <1>9
<1> QED  BY <1>1, <1>4, <1>6, <1>10 DEF Below

LEMMA SaysSearchExact ==
  ASSUME Parameters, SInv, LinkPromise
  PROVE  SearchExact
<1>1. SUFFICES ASSUME AtRest, NEW k \in Keys, Least <= k
               PROVE  SearchEnds(k) /\ (SearchFinds(k) <=> stored[k] > 0)
  BY DEF SearchExact
<1>2. disk \in Disks /\ ~torn /\ Idle /\ coming = <<>> /\ stored \in [Keys -> Nat]
  BY <1>1 DEF AtRest, SInv, Shape, Idle
<1>3. Chains(disk)
  BY <1>2 DEF LinkPromise
<1>4. PICK f, g : f = disk.main /\ g = disk.over
  OBVIOUS
<1>5. f \in MainAreas /\ f \in Areas /\ g \in Areas
  BY <1>2, <1>4 DEF Disks, MainAreas
<1>6. /\ \A x \in Places(f) : LeadsIn(g, NextOf(f, x))
      /\ \A y \in Places(g) : LeadsDown(g, y)
  BY <1>3, <1>4 DEF Chains
<1>7. PICK A : OnChains(disk, A)
  BY <1>3 DEF Chains
<1>8. PICK p : p = BinarySearchPage(k)
  OBVIOUS
<1>9. IsPageFor(f, p, k) /\ p \in DOMAIN f
  BY <1>4, <1>5, <1>8, PageFound DEF IsPageFor
<1>10. PICK s : s = f[p].records
  OBVIOUS
<1>11. s \in Seq(Rec) /\ DOMAIN s = 1..Len(s)
  <2>1. s \in Seq(Rec)
    BY <1>5, <1>9, <1>10, PageHolds
  <2> QED  BY <2>1
<1>12. PICK from : from = ChainBelow(s, k)
  OBVIOUS
<1>13. /\ LeadsIn(g, from)
       /\ \A x : IsOwner(f, x, k) /\ Below(s, k) # {} => from = NextOf(f, x)
  BY <1>2, <1>4, <1>6, <1>9, <1>10, <1>12, ChainStarts
<1>14. PICK c : c = Chain(from)
  OBVIOUS
<1>15. ChainOf(g, from, c)
  BY <1>4, <1>5, <1>6, <1>13, <1>14, ChainShape
<1>16. SearchEnds(k)
  <2>1. SearchEnds(k) <=> Len(c) <= Len(RecordsOf(g))
    BY <1>4, <1>8, <1>10, <1>12, <1>14 DEF SearchEnds
  <2> QED  BY <1>15, <2>1 DEF ChainOf
<1>17. stored[k] = InDisk(disk, k) /\ Held(f, k) \in Nat /\ Held(g, k) \in Nat
       /\ InDisk(disk, k) = Held(f, k) + Held(g, k)
  BY <1>2, <1>4, RestingDisk, DiskCounts DEF InDisk
<1>18. stored[k] > 0 <=> Held(f, k) # 0 \/ Held(g, k) # 0
  BY <1>17
<1>19. SearchFinds(k) <=> \/ \E i \in DOMAIN s : s[i].key = k
                          \/ \E y \in ToSet(c) : KeyOf(g, y) = k
  BY <1>4, <1>8, <1>10, <1>12, <1>14 DEF SearchFinds, KeyOf, RecordAt
<1>20. ASSUME SearchFinds(k) PROVE stored[k] > 0
  <2>1. CASE \E i \in DOMAIN s : s[i].key = k
    <3>1. PICK i \in 1..Len(s) : s[i].key = k
      BY <1>11, <2>1
    <3>2. <<p, i>> \in Places(f) /\ RecordAt(f, <<p, i>>) = s[i]
      BY <1>5, <1>9, <1>10, <3>1, PlaceShape
    <3>3. KeyOf(f, <<p, i>>) = k
      BY <3>1, <3>2 DEF KeyOf
    <3>4. Held(f, k) # 0
      BY <1>5, <3>2, <3>3, HeldShape
    <3> QED  BY <1>18, <3>4
  <2>2. CASE \E y \in ToSet(c) : KeyOf(g, y) = k
    <3>1. PICK y \in Places(g) : KeyOf(g, y) = k
      BY <1>15, <2>2 DEF ChainOf
    <3>2. Held(g, k) # 0
      BY <1>5, <3>1, HeldShape
    <3> QED  BY <1>18, <3>2
  <2> QED  BY <1>19, <1>20, <2>1, <2>2
<1>21. ASSUME stored[k] > 0 PROVE SearchFinds(k)
  <2>1. CASE Held(f, k) # 0
    <3>1. PICK x \in Places(f) : KeyOf(f, x) = k
      BY <1>5, <2>1, HeldShape
    <3>2. \E i \in 1..Len(f[p].records) : f[p].records[i].key = k
      BY <1>5, <1>9, <3>1, InPageFound
    <3> QED  BY <1>10, <1>11, <1>19, <3>2
  <2>2. CASE Held(f, k) = 0
    <3>1. Held(g, k) # 0
      BY <1>18, <1>21, <2>2
    <3>2. PICK y \in Places(g) : KeyOf(g, y) = k
      BY <1>5, <3>1, HeldShape
    <3>3. y \in A /\ \A z \in A : Hung(disk, A, z)
      BY <1>4, <1>7, <2>2, <3>2 DEF OnChains
    <3>4. PICK x \in Places(f) : Hangs(disk, A, x, y)
      BY <1>4, <3>3 DEF Hung
    <3>5. IsOwner(f, x, k) /\ Full(f[x[1]].records)
      BY <1>4, <3>2, <3>4 DEF Hangs
    <3>6. Below(f[x[1]].records, k) # {}
      BY <1>1, <1>2, <1>4, <2>2, <3>5, OwnerBefore
    <3>7. x[1] = p
      <4>1. PICK q : q = x[1]
        OBVIOUS
      <4>2. DOMAIN f = 0..(Count(f) - 1) /\ Count(f) \in Nat
        BY <1>5, AreaSize
      <4>3. IsPageFor(f, q, k)
        BY <3>5, <4>1 DEF IsOwner
      <4>4. p \in Nat /\ q \in Nat /\ p \in DOMAIN f /\ q \in DOMAIN f
        BY <1>9, <4>2, <4>3 DEF IsPageFor
      <4>5. ~(p < q)
        BY <1>9, <4>3, <4>4 DEF IsPageFor
      <4>6. ~(q < p)
        BY <1>9, <4>3, <4>4 DEF IsPageFor
      <4> QED  BY <4>1, <4>4, <4>5, <4>6
    <3>8. from = NextOf(f, x)
      BY <1>10, <1>13, <3>5, <3>6, <3>7
    <3>9. ChainOf(g, NextOf(f, x), c)
      BY <1>15, <3>8
    <3>10. IsOwner(f, x, KeyOf(g, y))
      BY <3>2, <3>5
    <3>11. y \in ToSet(c)
      BY <1>2, <1>4, <1>6, <1>7, <3>3, <3>9, <3>10, ChainHasOwned
    <3> QED  BY <1>19, <3>2, <3>11
  <2> QED  BY <2>1, <2>2
<1> QED  BY <1>16, <1>20, <1>21

(* In every state of a sequential file, SInv. *)
THEOREM SequentialInvariant ==
  ASSUME Parameters
  PROVE  Spec => []SInv
<1>1. Init => SInv
  BY InitHolds
<1>2. SInv /\ [Next]_vars => SInv'
  BY StepKeeps
<1> QED  BY <1>1, <1>2, PTL DEF Spec

(* The main area is in key order, in every state and after every stop. *)
THEOREM SequentialOrder ==
  ASSUME Parameters
  PROVE  Spec => []MainOrdered
<1>1. SInv => MainOrdered
  BY SaysOrdered
<1> QED  BY <1>1, SequentialInvariant, PTL

(* Between calls both areas have each record as often as the calls left it. *)
THEOREM SequentialContent ==
  ASSUME Parameters
  PROVE  Spec => []ContentExact
<1>1. SInv => ContentExact
  BY SaysContent
<1> QED  BY <1>1, SequentialInvariant, PTL

(* Wherever an insert or a reorganization stops, no record is lost. *)
THEOREM SequentialNoneLost ==
  ASSUME Parameters
  PROVE  Spec => []NoRecordLost
<1>1. SInv => NoRecordLost
  BY SaysContent
<1> QED  BY <1>1, SequentialInvariant, PTL

(* Chains are whole until a stop tears one, and again after a reorganization. *)
THEOREM SequentialChains ==
  ASSUME Parameters
  PROVE  Spec => []LinkPromise
<1>1. Init => LinkPromise
  BY InitLinks
<1>2. SInv /\ LinkPromise /\ [Next]_vars => LinkPromise'
  BY StepLinks
<1>3. Spec => []SInv
  BY SequentialInvariant
<1> QED  BY <1>1, <1>2, <1>3, PTL DEF Spec

(* Between calls a search ends and finds the keys that are stored, and no
   others, from the least key of the main area on.                         *)
THEOREM SequentialSearch ==
  ASSUME Parameters
  PROVE  Spec => []SearchExact
<1>1. SInv /\ LinkPromise => SearchExact
  BY SaysSearchExact
<1> QED  BY <1>1, SequentialInvariant, SequentialChains, PTL

(* In every state, also after a chain was torn, the two areas have the shape
   that the code reads them with: full pages fit, and a record names a page of
   overflow that exists.                                                    *)
THEOREM SequentialTypeCorrect ==
  ASSUME Parameters
  PROVE  Spec => []TypeOK
<1>1. Init => NamePromise
  BY InitNames
<1>2. SInv /\ NamePromise /\ [Next]_vars => NamePromise'
  BY StepNames
<1>3. SInv /\ NamePromise => TypeOK
  BY SaysTypes
<1>4. Spec => []SInv
  BY SequentialInvariant
<1> QED  BY <1>1, <1>2, <1>3, <1>4, PTL DEF Spec

=============================================================================
