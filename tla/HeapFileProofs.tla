--------------------------- MODULE HeapFileProofs ---------------------------
(***************************************************************************)
(* A heap file of any size, with pages of any capacity and any records:    *)
(* between calls it holds what the calls left, and at every page write, so *)
(* wherever the process stops, every record but the one being removed.     *)
(*                                                                         *)
(* Neither is inductive.  HInv adds what the writes that are still coming  *)
(* will leave: each of them a file that a stop may leave (Sound), and the  *)
(* last of them the file that the call promises (Done).                    *)
(***************************************************************************)
EXTENDS HeapFile, FiniteSetTheorems, WellFoundedInduction, TLAPS

Parameters == Capacity \in Nat \ {0} /\ MaxStops \in Nat

PageNode == [id : Nat, records : Seq(Ids)]
FitsAt(node, p) ==
  /\ Len(node.records) <= Capacity
  /\ node.id \in {0, p}
  /\ node.records # <<>> => node.id = p

(* Files without a gap; a page with a record has its own number. *)
Files == {f \in UNION {[0..n -> PageNode] : n \in Nat} : \A p \in DOMAIN f : FitsAt(f[p], p)}

(* The pages of a file, by its last one. *)
LEMMA FileShape ==
  ASSUME NEW f
  PROVE  f \in Files <=> \E n \in Nat : f \in [0..n -> PageNode] /\ \A p \in 0..n : FitsAt(f[p], p)
BY DEF Files

(* The size of a file counts its pages. *)
LEMMA FileSize ==
  ASSUME NEW f \in Files
  PROVE  /\ Count(f) \in Nat \ {0} /\ DOMAIN f = 0..(Count(f) - 1)
         /\ \A p \in DOMAIN f : f[p] \in PageNode /\ FitsAt(f[p], p)
<1>1. PICK n \in Nat : f \in [0..n -> PageNode] /\ \A p \in 0..n : FitsAt(f[p], p)
  BY FileShape
<1>2. Cardinality(0..n) = n + 1
  BY FS_Interval
<1>3. Count(f) = n + 1 /\ DOMAIN f = 0..n
  BY <1>1, <1>2 DEF Count
<1> QED  BY <1>1, <1>3

(* A page written inside the file, or right after its end. *)
LEMMA WithShape ==
  ASSUME NEW f \in Files, NEW p \in 0..Count(f), NEW node \in PageNode, FitsAt(node, p)
  PROVE  /\ With(f, p, node) \in Files
         /\ DOMAIN With(f, p, node) = DOMAIN f \cup {p}
         /\ With(f, p, node)[p] = node
         /\ \A q \in DOMAIN f : q # p => With(f, p, node)[q] = f[q]
         /\ p \in DOMAIN f => Count(With(f, p, node)) = Count(f)
         /\ p = Count(f) => Count(With(f, p, node)) = Count(f) + 1
<1>1. PICK n \in Nat : n = Count(f) - 1 /\ DOMAIN f = 0..n
  BY FileSize
<1>2. PICK m \in Nat : m = IF p = n + 1 THEN n + 1 ELSE n
  OBVIOUS
<1>3. p \in 0..(n + 1) /\ (0..n) \cup {p} = 0..m /\ Count(f) = n + 1
  BY <1>1, <1>2, FileSize
<1>4. PICK g : g = With(f, p, node)
  OBVIOUS
<1>5. g = [q \in 0..m |-> IF q = p THEN node ELSE f[q]]
  BY <1>1, <1>3, <1>4 DEF With
<1>6. \A q \in 0..m : q # p => q \in DOMAIN f
  BY <1>1, <1>3
<1>7. \A q \in 0..m : g[q] \in PageNode /\ FitsAt(g[q], q)
  BY <1>5, <1>6, FileSize
<1>8. g \in Files
  BY <1>5, <1>7, FileShape
<1>9. Count(g) = m + 1
  BY <1>5, FS_Interval DEF Count
<1>10. DOMAIN g = DOMAIN f \cup {p} /\ p \in 0..m /\ g[p] = node
  BY <1>1, <1>3, <1>5
<1>11. \A q \in DOMAIN f : q # p => g[q] = f[q]
  BY <1>1, <1>3, <1>5
<1>12. (p \in DOMAIN f => m = n) /\ (p = Count(f) => m = n + 1)
  BY <1>1, <1>2, <1>3
<1> QED  BY <1>3, <1>4, <1>8, <1>9, <1>10, <1>11, <1>12

-----------------------------------------------------------------------------
(* What a file holds. *)
LEMMA PlaceShape ==
  ASSUME NEW f \in Files
  PROVE  /\ \A p \in DOMAIN f : \A i \in 1..Len(f[p].records) :
              <<p, i>> \in Places(f) /\ RecordAt(f, <<p, i>>) = f[p].records[i]
         /\ \A x \in Places(f) : /\ x = <<x[1], x[2]>> /\ x[1] \in DOMAIN f
                                 /\ x[2] \in 1..Len(f[x[1]].records)
                                 /\ RecordAt(f, x) \in Ids
<1>1. \A p \in DOMAIN f : f[p].records \in Seq(Ids)
  BY FileSize DEF PageNode
<1>2. \A p \in DOMAIN f : DOMAIN f[p].records = 1..Len(f[p].records)
  BY <1>1
<1>3. ASSUME NEW p \in DOMAIN f, NEW i \in 1..Len(f[p].records)
      PROVE  <<p, i>> \in Places(f) /\ RecordAt(f, <<p, i>>) = f[p].records[i]
  BY <1>2 DEF Places, RecordAt
<1>4. ASSUME NEW x \in Places(f)
      PROVE  /\ x = <<x[1], x[2]>> /\ x[1] \in DOMAIN f /\ x[2] \in 1..Len(f[x[1]].records)
             /\ RecordAt(f, x) \in Ids
  <2>1. PICK p \in DOMAIN f : \E i \in 1..Len(f[p].records) : x = <<p, i>>
    BY <1>2 DEF Places
  <2>2. PICK i \in 1..Len(f[p].records) : x = <<p, i>>
    BY <2>1
  <2>3. f[p].records[i] \in Ids
    BY <1>1
  <2> QED  BY <2>2, <2>3 DEF RecordAt
<1> QED  BY <1>3, <1>4

(* ... is finite, so it can be counted. *)
LEMMA PlacesFinite ==
  ASSUME Parameters, NEW f \in Files, NEW k
  PROVE  IsFiniteSet(PlacesOf(f, k)) /\ Cardinality(PlacesOf(f, k)) \in Nat
<1>1. PICK n \in Nat : n = Count(f) - 1 /\ DOMAIN f = 0..n
  BY FileSize
<1>2. ASSUME NEW x \in Places(f) PROVE x \in (0..n) \X (1..Capacity)
  <2>1. PICK p \in DOMAIN f : \E i \in 1..Len(f[p].records) : x = <<p, i>>
    BY PlaceShape
  <2>2. f[p].records \in Seq(Ids) /\ Len(f[p].records) <= Capacity
    BY FileSize DEF PageNode, FitsAt
  <2> QED  BY <1>1, <2>1, <2>2 DEF Parameters
<1>3. IsFiniteSet(0..n) /\ IsFiniteSet(1..Capacity)
  BY FS_Interval DEF Parameters
<1>4. IsFiniteSet((0..n) \X (1..Capacity))
  BY <1>3, FS_Product
<1>5. PlacesOf(f, k) \subseteq (0..n) \X (1..Capacity)
  BY <1>2 DEF PlacesOf
<1> QED  BY <1>4, <1>5, FS_Subset, FS_CardinalityType

(* One place counts for the record that is there. *)
LEMMA OnePlaceCounts ==
  ASSUME Parameters, NEW f \in Files, NEW x \in Places(f), NEW k
  PROVE  /\ Cardinality(PlacesOf(f, k) \ {x}) \in Nat
         /\ Cardinality(PlacesOf(f, k)) =
              Cardinality(PlacesOf(f, k) \ {x}) + (IF k = RecordAt(f, x) THEN 1 ELSE 0)
<1>1. PICK S : S = PlacesOf(f, k)
  OBVIOUS
<1>2. IsFiniteSet(S) /\ Cardinality(S) \in Nat
  BY <1>1, PlacesFinite
<1>3. IsFiniteSet(S \ {x})
      /\ Cardinality(S \ {x}) = IF x \in S THEN Cardinality(S) - 1 ELSE Cardinality(S)
  BY <1>2, FS_RemoveElement
<1>4. Cardinality(S \ {x}) \in Nat
  BY <1>3, FS_CardinalityType
<1>5. x \in S <=> k = RecordAt(f, x)
  BY <1>1 DEF PlacesOf
<1> QED  BY <1>1, <1>2, <1>3, <1>4, <1>5

(* Whether k is r, as a number. *)
One(k, r) == IF k = r THEN 1 ELSE 0

(* A record more, at a new place. *)
LEMMA OneMore ==
  ASSUME Parameters, NEW f \in Files, NEW g \in Files, NEW x \in Places(g), x \notin Places(f),
         Places(g) = Places(f) \cup {x},
         \A y \in Places(f) : RecordAt(g, y) = RecordAt(f, y)
  PROVE  \A k \in Ids : Content(g)[k] = Content(f)[k] + One(k, RecordAt(g, x))
<1>1. ASSUME NEW k \in Ids PROVE PlacesOf(g, k) \ {x} = PlacesOf(f, k)
  BY DEF PlacesOf
<1>2. ASSUME NEW k \in Ids
      PROVE  Cardinality(PlacesOf(g, k)) = Cardinality(PlacesOf(f, k)) + One(k, RecordAt(g, x))
  BY <1>1, OnePlaceCounts DEF One
<1> QED  BY <1>2 DEF Content

(* Another record at a place. *)
LEMMA OneReplaced ==
  ASSUME Parameters, NEW f \in Files, NEW g \in Files, NEW x \in Places(f),
         Places(g) = Places(f),
         \A y \in Places(f) : y # x => RecordAt(g, y) = RecordAt(f, y)
  PROVE  \A k \in Ids :
           Content(g)[k] = Content(f)[k] - One(k, RecordAt(f, x)) + One(k, RecordAt(g, x))
<1>1. ASSUME NEW k \in Ids PROVE PlacesOf(g, k) \ {x} = PlacesOf(f, k) \ {x}
  BY DEF PlacesOf
<1>2. ASSUME NEW k \in Ids
      PROVE  Cardinality(PlacesOf(g, k)) =
               Cardinality(PlacesOf(f, k)) - One(k, RecordAt(f, x)) + One(k, RecordAt(g, x))
  <2>1. PICK n \in Nat : n = Cardinality(PlacesOf(f, k) \ {x})
    BY OnePlaceCounts
  <2>2. Cardinality(PlacesOf(f, k)) = n + One(k, RecordAt(f, x))
    BY <2>1, OnePlaceCounts DEF One
  <2>3. Cardinality(PlacesOf(g, k)) = n + One(k, RecordAt(g, x))
    BY <1>1, <2>1, OnePlaceCounts DEF One
  <2> QED  BY <2>1, <2>2, <2>3 DEF One
<1> QED  BY <1>2 DEF Content

(* How often a record is in a file is a number. *)
LEMMA ContentType ==
  ASSUME Parameters, NEW f \in Files
  PROVE  Content(f) \in [Ids -> Nat]
BY PlacesFinite DEF Content

-----------------------------------------------------------------------------
(* What a write does to the file.                                          *)

(* What two pages of a file keep when a third is written. *)
SameBut(f, g, p) == \A q \in DOMAIN f : q # p => g[q] = f[q]

(* A page of the file is written again. *)
LEMMA PutShape ==
  ASSUME NEW f \in Files, NEW p \in DOMAIN f, NEW node \in PageNode, FitsAt(node, p), node.id = p
  PROVE  /\ Put(f, node) \in Files
         /\ DOMAIN Put(f, node) = DOMAIN f /\ Count(Put(f, node)) = Count(f)
         /\ Put(f, node)[p] = node
         /\ SameBut(f, Put(f, node), p)
<1>1. p \in 0..Count(f) /\ DOMAIN f \cup {p} = DOMAIN f
  <2>1. Count(f) \in Nat /\ p \in 0..(Count(f) - 1)
    BY FileSize
  <2>2. p \in 0..Count(f)
    BY <2>1
  <2> QED  BY <2>2
<1>2. Put(f, node) = With(f, p, node)
  BY DEF Put
<1>3. PICK g : g = With(f, p, node)
  OBVIOUS
<1>4. /\ g \in Files /\ DOMAIN g = DOMAIN f \cup {p} /\ g[p] = node
      /\ \A q \in DOMAIN f : q # p => g[q] = f[q]
      /\ Count(g) = Count(f)
  <2>1. With(f, p, node) \in Files /\ Count(With(f, p, node)) = Count(f)
    BY <1>1, WithShape
  <2>2. With(f, p, node) = [q \in DOMAIN f |-> IF q = p THEN node ELSE f[q]]
    BY <1>1 DEF With
  <2>3. DOMAIN g = DOMAIN f /\ g[p] = node /\ \A q \in DOMAIN f : q # p => g[q] = f[q]
    BY <1>3, <2>2
  <2> QED  BY <1>1, <1>3, <2>1, <2>3
<1>5. SameBut(f, g, p)
  BY <1>4 DEF SameBut
<1> QED  BY <1>1, <1>2, <1>3, <1>4, <1>5

(* A record is written after those of its page. *)
LEMMA RecordAdded ==
  ASSUME Parameters, NEW f \in Files, NEW p \in DOMAIN f, NEW k \in Ids,
         HasRoom(f[p]), NEW node \in PageNode,
         node.id = p, node.records = Append(f[p].records, k)
  PROVE  /\ Put(f, node) \in Files
         /\ DOMAIN Put(f, node) = DOMAIN f /\ Count(Put(f, node)) = Count(f)
         /\ Put(f, node)[p] = node /\ SameBut(f, Put(f, node), p)
         /\ \A m \in Ids : Content(Put(f, node))[m] = Content(f)[m] + One(m, k)
<1>1. /\ p \in 0..Count(f) /\ p \in DOMAIN f /\ f[p].records \in Seq(Ids)
      /\ Len(f[p].records) \in Nat /\ Len(f[p].records) < Capacity
  BY FileSize DEF PageNode, HasRoom
<1>2. FitsAt(node, p)
  BY <1>1 DEF FitsAt, Parameters
<1>3. PICK g : g = Put(f, node)
  OBVIOUS
<1>4. /\ g \in Files /\ DOMAIN g = DOMAIN f /\ g[p] = node /\ SameBut(f, g, p)
      /\ Count(g) = Count(f)
  BY <1>2, <1>3, PutShape
<1>5. PICK i : i = Len(f[p].records) + 1
  OBVIOUS
<1>6. PICK x : x = <<p, i>>
  OBVIOUS
<1>7. /\ Len(node.records) = i /\ node.records[i] = k
      /\ \A j \in 1..Len(f[p].records) : node.records[j] = f[p].records[j]
      /\ 1..i = (1..Len(f[p].records)) \cup {i} /\ i \in 1..i /\ i \notin 1..Len(f[p].records)
  BY <1>1, <1>5
<1>8. x \in Places(g) /\ RecordAt(g, x) = k /\ x \notin Places(f)
  <2>1. x \in Places(g) /\ RecordAt(g, x) = g[p].records[i]
    BY <1>4, <1>6, <1>7, PlaceShape
  <2>2. x[1] = p /\ x[2] = i
    BY <1>6
  <2> QED  BY <1>4, <1>7, <2>1, <2>2, PlaceShape
<1>9. ASSUME NEW y \in Places(f) PROVE y \in Places(g) /\ RecordAt(g, y) = RecordAt(f, y)
  <2>0. PICK q \in DOMAIN f : \E j \in 1..Len(f[q].records) : y = <<q, j>>
    BY PlaceShape
  <2>1. PICK j \in 1..Len(f[q].records) : y = <<q, j>>
    BY <2>0
  <2>2. CASE q = p
    <3>1. j \in 1..Len(g[q].records) /\ g[q].records[j] = f[q].records[j]
      BY <1>4, <1>7, <2>1, <2>2
    <3> QED  BY <1>4, <2>1, <3>1, PlaceShape
  <2>3. CASE q # p
    <3>1. g[q] = f[q]
      BY <1>4, <2>3 DEF SameBut
    <3> QED  BY <1>4, <2>1, <3>1, PlaceShape
  <2> QED  BY <2>2, <2>3
<1>10. ASSUME NEW y \in Places(g), y # x PROVE y \in Places(f)
  <2>0. PICK q \in DOMAIN g : \E j \in 1..Len(g[q].records) : y = <<q, j>>
    BY <1>4, PlaceShape
  <2>1. PICK j \in 1..Len(g[q].records) : y = <<q, j>>
    BY <2>0
  <2>2. CASE q = p
    <3>1. j \in 1..Len(f[q].records)
      BY <1>4, <1>6, <1>7, <1>10, <2>1, <2>2
    <3> QED  BY <1>4, <2>1, <3>1, PlaceShape
  <2>3. CASE q # p
    <3>1. g[q] = f[q]
      BY <1>4, <2>3 DEF SameBut
    <3> QED  BY <1>4, <2>1, <3>1, PlaceShape
  <2> QED  BY <2>2, <2>3
<1>11. Places(g) = Places(f) \cup {x}
  BY <1>8, <1>9, <1>10
<1>12. \A m \in Ids : Content(g)[m] = Content(f)[m] + One(m, RecordAt(g, x))
  BY <1>4, <1>8, <1>9, <1>11, OneMore
<1> QED  BY <1>3, <1>4, <1>8, <1>12

(* A page of zeros after the last one holds nothing. *)
LEMMA PageAllocated ==
  ASSUME Parameters, NEW f \in Files
  PROVE  /\ Allocated(f) \in Files
         /\ DOMAIN Allocated(f) = DOMAIN f \cup {Count(f)} /\ Count(Allocated(f)) = Count(f) + 1
         /\ Allocated(f)[Count(f)] = Zero /\ SameBut(f, Allocated(f), Count(f))
         /\ \A m \in Ids : Content(Allocated(f))[m] = Content(f)[m]
<1>1. PICK n \in Nat \ {0} : n = Count(f) /\ DOMAIN f = 0..(n - 1)
  BY FileSize
<1>2. Zero \in PageNode /\ FitsAt(Zero, n) /\ Zero.records = <<>>
  BY DEF Zero, Node, PageNode, FitsAt, Parameters
<1>3. PICK g : g = Allocated(f)
  OBVIOUS
<1>4. /\ g \in Files /\ DOMAIN g = DOMAIN f \cup {n} /\ Count(g) = n + 1
      /\ g[n] = Zero /\ SameBut(f, g, n)
  <2>1. g = With(f, n, Zero) /\ n \in 0..Count(f)
    BY <1>1, <1>3 DEF Allocated
  <2>2. /\ With(f, n, Zero) \in Files
        /\ DOMAIN With(f, n, Zero) = DOMAIN f \cup {n} /\ With(f, n, Zero)[n] = Zero
    BY <1>2, <2>1, WithShape
  <2>3. Count(With(f, n, Zero)) = Count(f) + 1
    BY <1>1, <1>2, <2>1, WithShape
  <2>4. \A q \in DOMAIN f : q # n => With(f, n, Zero)[q] = f[q]
    BY <1>2, <2>1, WithShape
  <2> QED  BY <1>1, <2>1, <2>2, <2>3, <2>4 DEF SameBut
<1>5. n \notin DOMAIN f
  BY <1>1
<1>6. \A q \in DOMAIN f : g[q] = f[q]
  BY <1>4, <1>5 DEF SameBut
<1>7. DOMAIN g[n].records = {}
  BY <1>2, <1>4
<1>8. Places(g) = Places(f)
  BY <1>4, <1>6, <1>7 DEF Places
<1>9. \A y \in Places(f) : RecordAt(g, y) = RecordAt(f, y)
  BY <1>6, PlaceShape DEF RecordAt
<1>10. \A m \in Ids : PlacesOf(g, m) = PlacesOf(f, m)
  BY <1>8, <1>9 DEF PlacesOf
<1> QED  BY <1>1, <1>3, <1>4, <1>10 DEF Content

(* Records that have r at i, and elsewhere those of old. *)
Differ(new, old, i, r) ==
  /\ Len(new) = Len(old) /\ new[i] = r
  /\ \A j \in 1..Len(old) : j # i => new[j] = old[j]

(* A record is written in the place of another. *)
LEMMA RecordReplaced ==
  ASSUME Parameters, NEW f \in Files, NEW p \in DOMAIN f, NEW i \in 1..Len(f[p].records),
         NEW r \in Ids, NEW node \in PageNode,
         node.id = p, Differ(node.records, f[p].records, i, r)
  PROVE  /\ Put(f, node) \in Files
         /\ DOMAIN Put(f, node) = DOMAIN f /\ Count(Put(f, node)) = Count(f)
         /\ Put(f, node)[p] = node /\ SameBut(f, Put(f, node), p)
         /\ Len(node.records) = Len(f[p].records)
         /\ \A m \in Ids : Content(Put(f, node))[m] =
                            Content(f)[m] - One(m, f[p].records[i]) + One(m, r)
<1>1. /\ p \in 0..Count(f) /\ f[p] \in PageNode /\ f[p].records \in Seq(Ids)
      /\ Len(f[p].records) \in Nat /\ FitsAt(f[p], p)
  BY FileSize DEF PageNode
<1>2. f[p].id = p
  BY <1>1 DEF FitsAt
<1>3. /\ node.records \in Seq(Ids) /\ Len(node.records) = Len(f[p].records)
      /\ node.records[i] = r
      /\ \A j \in 1..Len(f[p].records) : j # i => node.records[j] = f[p].records[j]
  BY DEF PageNode, Differ
<1>4. node \in PageNode /\ FitsAt(node, p)
  BY <1>1, <1>3, FileSize DEF PageNode, FitsAt
<1>5. PICK g : g = Put(f, node)
  OBVIOUS
<1>6. /\ g \in Files /\ DOMAIN g = DOMAIN f /\ g[p] = node /\ SameBut(f, g, p)
      /\ Count(g) = Count(f)
  BY <1>3, <1>4, <1>5, PutShape
<1>7. \A q \in DOMAIN f : Len(g[q].records) = Len(f[q].records)
  BY <1>3, <1>6 DEF SameBut
<1>8. ASSUME NEW y \in Places(f) PROVE y \in Places(g)
  <2>1. y = <<y[1], y[2]>> /\ y[1] \in DOMAIN f /\ y[2] \in 1..Len(f[y[1]].records)
    BY PlaceShape
  <2>2. y[1] \in DOMAIN g /\ y[2] \in 1..Len(g[y[1]].records)
    BY <1>6, <1>7, <2>1
  <2> QED  BY <1>6, <2>1, <2>2, PlaceShape
<1>9. ASSUME NEW y \in Places(g) PROVE y \in Places(f)
  <2>1. y = <<y[1], y[2]>> /\ y[1] \in DOMAIN g /\ y[2] \in 1..Len(g[y[1]].records)
    BY <1>6, PlaceShape
  <2>2. y[1] \in DOMAIN f /\ y[2] \in 1..Len(f[y[1]].records)
    BY <1>6, <1>7, <2>1
  <2> QED  BY <2>1, <2>2, PlaceShape
<1>10. PICK x : x = <<p, i>>
  OBVIOUS
<1>11. x \in Places(f) /\ RecordAt(f, x) = f[p].records[i] /\ RecordAt(g, x) = r
  <2>1. x \in Places(f) /\ RecordAt(f, x) = f[p].records[i]
    BY <1>10, PlaceShape
  <2>2. RecordAt(g, x) = g[p].records[i]
    BY <1>10 DEF RecordAt
  <2> QED  BY <1>3, <1>6, <2>1, <2>2
<1>12. ASSUME NEW y \in Places(f), y # x PROVE RecordAt(g, y) = RecordAt(f, y)
  <2>0. PICK q \in DOMAIN f : \E j \in 1..Len(f[q].records) : y = <<q, j>>
    BY PlaceShape
  <2>1. PICK j \in 1..Len(f[q].records) : y = <<q, j>>
    BY <2>0
  <2>2. g[q].records[j] = f[q].records[j]
    BY <1>3, <1>6, <1>10, <1>12, <2>1 DEF SameBut
  <2> QED  BY <2>1, <2>2 DEF RecordAt
<1>13. \A m \in Ids :
         Content(g)[m] = Content(f)[m] - One(m, RecordAt(f, x)) + One(m, RecordAt(g, x))
  <2>1. Places(g) = Places(f)
    BY <1>8, <1>9
  <2> QED  BY <1>6, <1>11, <1>12, <2>1, OneReplaced
<1>14. \A m \in Ids : Content(g)[m] = Content(f)[m] - One(m, f[p].records[i]) + One(m, r)
  BY <1>11, <1>13
<1> QED  BY <1>3, <1>5, <1>6, <1>14

(* The last record of a page is cut off. *)
LEMMA LastRecordCut ==
  ASSUME Parameters, NEW f \in Files, NEW p \in DOMAIN f, f[p].records # <<>>,
         NEW node \in PageNode, node.id = p, node.records = Front(f[p].records)
  PROVE  /\ Put(f, node) \in Files
         /\ DOMAIN Put(f, node) = DOMAIN f /\ Count(Put(f, node)) = Count(f)
         /\ Put(f, node)[p] = node /\ SameBut(f, Put(f, node), p)
         /\ Last(f[p].records) \in Ids
         /\ \A m \in Ids :
              Content(Put(f, node))[m] = Content(f)[m] - One(m, Last(f[p].records))
<1>1. /\ p \in 0..Count(f) /\ f[p] \in PageNode /\ f[p].records \in Seq(Ids)
      /\ FitsAt(f[p], p)
  BY FileSize DEF PageNode
<1>2. PICK i \in Nat \ {0} : i = Len(f[p].records)
  BY <1>1
<1>3. f[p].id = p
  BY <1>1 DEF FitsAt
<1>4. PICK cut : cut = Front(f[p].records)
  OBVIOUS
<1>5. cut \in Seq(Ids) /\ Len(cut) = i - 1 /\ \A j \in 1..(i - 1) : cut[j] = f[p].records[j]
  BY <1>1, <1>2, <1>4 DEF Front
<1>6. node.records = cut
  BY <1>4
<1>7. node \in PageNode /\ FitsAt(node, p)
  BY <1>1, <1>2, <1>3, <1>5, <1>6 DEF PageNode, FitsAt, Parameters
<1>8. PICK g : g = Put(f, node)
  OBVIOUS
<1>9. /\ g \in Files /\ DOMAIN g = DOMAIN f /\ g[p] = node /\ SameBut(f, g, p)
      /\ Count(g) = Count(f)
  BY <1>6, <1>7, <1>8, PutShape
<1>10. HasRoom(g[p])
  BY <1>1, <1>2, <1>5, <1>6, <1>9 DEF HasRoom, FitsAt, Parameters
<1>11. PICK r : r = Last(f[p].records)
  OBVIOUS
<1>12. r = f[p].records[i] /\ r \in Ids
  BY <1>1, <1>2, <1>11 DEF Last
<1>13. f[p].records = Append(cut, r)
  <2>1. PICK rs \in Seq(Ids) : rs = f[p].records
    BY <1>1
  <2>2. PICK longer : longer = Append(cut, r)
    OBVIOUS
  <2>3. longer \in Seq(Ids) /\ Len(longer) = i /\ longer[i] = r
    BY <1>2, <1>5, <1>12, <2>2
  <2>4. \A j \in 1..(i - 1) : longer[j] = cut[j]
    BY <1>2, <1>5, <2>2
  <2>5. \A j \in 1..i : j \in 1..(i - 1) \/ j = i
    BY <1>2
  <2>6. Len(rs) = i /\ \A j \in 1..i : longer[j] = rs[j]
    BY <1>2, <1>5, <1>12, <2>1, <2>3, <2>4, <2>5
  <2>7. longer = rs
    BY <2>3, <2>6
  <2> QED  BY <2>1, <2>2, <2>7
<1>14. Put(g, f[p]) = f
  <2>1. DOMAIN f = 0..(Count(f) - 1) /\ f \in Files
    BY FileSize
  <2>2. f = [q \in DOMAIN f |-> f[q]]
    BY FileShape
  <2>3. \A q \in DOMAIN f : (IF q = p THEN f[p] ELSE g[q]) = f[q]
    BY <1>9 DEF SameBut
  <2>4. Put(g, f[p]) = [q \in DOMAIN f |-> IF q = p THEN f[p] ELSE g[q]]
    BY <1>3, <1>9 DEF Put, With
  <2> QED  BY <2>2, <2>3, <2>4
<1>15. \A m \in Ids : Content(f)[m] = Content(g)[m] + One(m, r)
  <2>1. p \in DOMAIN g /\ f[p].records = Append(g[p].records, r)
    BY <1>6, <1>9, <1>13
  <2>2. PICK page \in PageNode : page = f[p]
    BY <1>1
  <2>3. g \in Files /\ page.id = p /\ r \in Ids /\ HasRoom(g[p])
    BY <1>3, <1>9, <1>10, <1>12, <2>2
  <2>4. page.records = Append(g[p].records, r)
    BY <2>1, <2>2
  <2>5. \A m \in Ids : Content(Put(g, page))[m] = Content(g)[m] + One(m, r)
    BY <2>1, <2>3, <2>4, RecordAdded
  <2> QED  BY <1>14, <2>2, <2>5
<1>16. \A m \in Ids : Content(g)[m] \in Nat
  BY <1>9, ContentType
<1>17. \A m \in Ids : Content(g)[m] = Content(f)[m] - One(m, r)
  BY <1>15, <1>16 DEF One
<1> QED  BY <1>6, <1>8, <1>9, <1>11, <1>12, <1>17


-----------------------------------------------------------------------------
(* What the code finds in the file: the greatest and the least of a set.   *)

(* A set of numbers has a least element. *)
LEMMA LeastElement ==
  ASSUME NEW T, T \subseteq Nat, T # {}
  PROVE  Min(T) \in T /\ \A y \in T : Min(T) <= y
<1>1. PICK x \in T : \A y \in T : <<y, x>> \notin OpToRel(<, Nat)
  BY NatLessThanWellFounded, WFMin
<1>2. \A y \in T : ~(y < x)
  BY <1>1 DEF OpToRel
<1>3. \E z \in T : \A y \in T : z <= y
  BY <1>2
<1> QED  BY <1>3 DEF Min

(* A bounded one has a greatest. *)
LEMMA GreatestElement ==
  ASSUME NEW m \in Nat, NEW T, T \subseteq 0..m, T # {}
  PROVE  Max(T) \in T /\ \A y \in T : y <= Max(T)
<1> DEFINE U == {u \in 0..m : m - u \in T}
<1>1. PICK x \in T : x \in 0..m
  OBVIOUS
<1>2. m - x \in U
  BY <1>1
<1>3. U \subseteq Nat /\ U # {}
  BY <1>2
<1>4. PICK u \in U : \A v \in U : u <= v
  <2> HIDE DEF U
  <2> QED  BY <1>3, LeastElement
<1>5. m - u \in T /\ u \in 0..m
  BY <1>4
<1>6. ASSUME NEW y \in T PROVE m - u >= y
  <2>1. y \in 0..m /\ m - y \in 0..m /\ m - (m - y) = y
    OBVIOUS
  <2>2. u <= m - y
    BY <1>4, <2>1
  <2> QED  BY <1>5, <2>1, <2>2
<1>7. \E z \in T : \A y \in T : z >= y
  BY <1>5, <1>6
<1>8. Max(T) \in T /\ \A y \in T : Max(T) >= y
  BY <1>7 DEF Max
<1> QED  BY <1>8

(* The last page with a record is in the file, and after it there is none. *)
LEMMA LastUsedShape ==
  ASSUME pages \in Files
  PROVE  /\ LastUsed \in DOMAIN pages
         /\ \A p \in DOMAIN pages : pages[p].records # <<>> => p <= LastUsed
         /\ (\E p \in DOMAIN pages : pages[p].records # <<>>) => pages[LastUsed].records # <<>>
<1>1. PICK n \in Nat : DOMAIN pages = 0..n
  BY FileShape
<1>2. PICK T : T = {p \in DOMAIN pages : p = 0 \/ pages[p].records # <<>>}
  OBVIOUS
<1>3. T \subseteq 0..n /\ 0 \in T
  BY <1>1, <1>2
<1>4. Max(T) \in T /\ \A y \in T : y <= Max(T)
  BY <1>3, GreatestElement
<1>5. LastUsed = Max(T)
  BY <1>2 DEF LastUsed
<1>6. LastUsed \in DOMAIN pages /\ (LastUsed = 0 \/ pages[LastUsed].records # <<>>)
  BY <1>2, <1>4, <1>5
<1>7. \A p \in DOMAIN pages : pages[p].records # <<>> => p <= LastUsed
  BY <1>2, <1>4, <1>5
<1>8. ASSUME NEW p \in DOMAIN pages, pages[p].records # <<>>
      PROVE  pages[LastUsed].records # <<>>
  <2>1. CASE LastUsed = 0
    BY <1>1, <1>7, <1>8, <2>1
  <2> QED  BY <1>6, <2>1
<1> QED  BY <1>6, <1>7, <1>8

(* search returns a place where the record is. *)
LEMMA SearchFinds ==
  ASSUME pages \in Files, NEW k \in Ids, Search(k) # <<>>
  PROVE  \E p \in DOMAIN pages : \E i \in 1..Len(pages[p].records) :
           Search(k) = <<p, i>> /\ pages[p].records[i] = k
<1>1. PagesWith(k) # {}
  BY DEF Search
<1>2. DOMAIN pages \subseteq Nat
  BY FileShape
<1>3. PagesWith(k) \subseteq Nat
  BY <1>2 DEF PagesWith
<1>4. PICK p : p = Min(PagesWith(k))
  OBVIOUS
<1>5. p \in PagesWith(k)
  BY <1>1, <1>3, <1>4, LeastElement
<1>6. p \in DOMAIN pages /\ k \in ToSet(pages[p].records)
  BY <1>5 DEF PagesWith
<1>7. pages[p].records \in Seq(Ids)
  BY <1>6, FileSize DEF PageNode
<1>8. DOMAIN pages[p].records = 1..Len(pages[p].records) /\ Len(pages[p].records) \in Nat
  BY <1>7
<1>9. PICK T : T = {i \in DOMAIN pages[p].records : pages[p].records[i] = k}
  OBVIOUS
<1>10. T # {}
  BY <1>6, <1>9 DEF ToSet
<1>11. T \subseteq Nat
  BY <1>8, <1>9
<1>12. Min(T) \in T
  BY <1>10, <1>11, LeastElement
<1>13. Search(k) = <<p, Min(T)>>
  BY <1>1, <1>4, <1>9 DEF Search
<1>14. Min(T) \in 1..Len(pages[p].records) /\ pages[p].records[Min(T)] = k
  BY <1>8, <1>9, <1>12
<1> QED  BY <1>6, <1>13, <1>14

-----------------------------------------------------------------------------
(* What each write of a call leaves.                                       *)

Numbered(f)       == \A p \in DOMAIN f : f[p].id = p
AlmostNumbered(f) == \A p \in DOMAIN f : p < Count(f) - 1 => f[p].id = p

(* By how much a call changes the number of a record. *)
More(call, m) == IF call = <<"insert", m>> THEN 1 ELSE 0
Less(call, m) == IF call = <<"remove", m>> THEN 1 ELSE 0

(* A file that a stop may leave, and the one that the call promises, when the
   calls before it left each record as often as kept says.                 *)
Near(found, kept, call) ==
  /\ \A k \in Ids : /\ kept[k] - Less(call, k) <= found[k]
                    /\ found[k] <= kept[k] - Less(call, k) + 1
  /\ \A k, m \in Ids :
       found[k] > kept[k] - Less(call, k) /\ found[m] > kept[m] - Less(call, m) => k = m
Sound(f, kept, call) == AlmostNumbered(f) /\ Near(Content(f), kept, call)
Done(f, kept, call) ==
  Numbered(f) /\ \A m \in Ids : Content(f)[m] = kept[m] + More(call, m) - Less(call, m)

(* The file and the writes still coming, up to the last one, which is the call's. *)
Kept(f, writes, kept, call) ==
  /\ Sound(f, kept, call)
  /\ writes = <<>> => Done(f, kept, call)
  /\ writes # <<>> => Done(writes[Len(writes)], kept, call)
  /\ \A i \in 1..Len(writes) : i < Len(writes) => Sound(writes[i], kept, call)

Shape ==
  /\ pages \in Files
  /\ coming \in Seq(Files)
  /\ job \in {NoJob} \cup ({"insert", "remove"} \X Ids)
  /\ (coming = <<>>) = (job = NoJob)
  /\ stored \in [Ids -> Nat]
  /\ torn \in BOOLEAN /\ stops \in 0..MaxStops

Promise == ~torn => Kept(pages, coming, stored, job)

HInv == Shape /\ Promise

(* Writing a page as it is changes nothing. *)
LEMMA PutSame ==
  ASSUME NEW f \in Files, NEW p \in DOMAIN f, f[p].id = p
  PROVE  Put(f, f[p]) = f
<1>1. f = [q \in DOMAIN f |-> f[q]]
  BY FileShape
<1>2. DOMAIN f \cup {p} = DOMAIN f
  OBVIOUS
<1>3. Put(f, f[p]) = [q \in DOMAIN f |-> IF q = p THEN f[p] ELSE f[q]]
  BY <1>2 DEF Put, With
<1>4. \A q \in DOMAIN f : (IF q = p THEN f[p] ELSE f[q]) = f[q]
  OBVIOUS
<1> QED  BY <1>1, <1>3, <1>4

(* An insert into a last page with room writes that page. *)
LEMMA InsertWithRoom ==
  ASSUME Parameters, pages \in Files, NEW k \in Ids, HasRoom(LastPage(pages))
  PROVE  \E g \in Files :
           /\ Insertions(k) = <<g>>
           /\ Numbered(pages) =>
                Numbered(g) /\ \A m \in Ids : Content(g)[m] = Content(pages)[m] + One(m, k)
<1>1. PICK n \in Nat : n = Count(pages) - 1 /\ DOMAIN pages = 0..n
  BY FileSize
<1>2. n \in DOMAIN pages /\ 0 \in DOMAIN pages
  BY <1>1
<1>3. PICK node \in PageNode : node = pages[n] /\ FitsAt(node, n)
  BY <1>2, FileSize
<1>4. node.id \in DOMAIN pages /\ node.records \in Seq(Ids) /\ HasRoom(node)
      /\ LastPage(pages) = node
  BY <1>1, <1>2, <1>3 DEF FitsAt, PageNode, LastPage
<1>5. PICK new : new = [node EXCEPT !.records = Append(@, k)]
  OBVIOUS
<1>6. new = [id |-> node.id, records |-> Append(node.records, k)]
  BY <1>3, <1>5 DEF PageNode
<1>7. new \in PageNode /\ new.id = node.id /\ new.records = Append(node.records, k)
  BY <1>3, <1>4, <1>6 DEF PageNode
<1>8. Len(new.records) <= Capacity
  BY <1>4, <1>7 DEF HasRoom, Parameters
<1>9. FitsAt(new, new.id)
  BY <1>8 DEF FitsAt
<1>10. PICK g : g = Put(pages, new)
  OBVIOUS
<1>11. g \in Files
  BY <1>4, <1>7, <1>9, <1>10, PutShape
<1>12. Insertions(k) = <<g>>
  BY <1>4, <1>5, <1>10 DEF Insertions
<1>13. ASSUME Numbered(pages)
       PROVE  Numbered(g) /\ \A m \in Ids : Content(g)[m] = Content(pages)[m] + One(m, k)
  <2>1. node.id = n
    BY <1>2, <1>3, <1>13 DEF Numbered
  <2>2. HasRoom(pages[n]) /\ new.id = n /\ new.records = Append(pages[n].records, k)
    BY <1>3, <1>4, <1>7, <2>1
  <2>3. /\ DOMAIN g = DOMAIN pages /\ g[n] = new /\ SameBut(pages, g, n)
        /\ \A m \in Ids : Content(g)[m] = Content(pages)[m] + One(m, k)
    BY <1>2, <1>7, <1>10, <2>2, RecordAdded
  <2>4. Numbered(g)
    BY <1>13, <2>2, <2>3 DEF Numbered, SameBut
  <2> QED  BY <2>3, <2>4
<1> QED  BY <1>11, <1>12, <1>13

(* One into a full last page writes a page of zeros, the last page as it was, and a new one. *)
LEMMA InsertWithoutRoom ==
  ASSUME Parameters, pages \in Files, NEW k \in Ids, ~HasRoom(LastPage(pages))
  PROVE  \E a, g \in Files :
           /\ Insertions(k) = <<a, a, g>>
           /\ \A m \in Ids : Content(a)[m] = Content(pages)[m]
           /\ Numbered(pages) =>
                /\ AlmostNumbered(a) /\ Numbered(g)
                /\ \A m \in Ids : Content(g)[m] = Content(pages)[m] + One(m, k)
<1>1. PICK n \in Nat : n = Count(pages) - 1 /\ DOMAIN pages = 0..n
  BY FileSize
<1>2. n \in DOMAIN pages /\ n + 1 = Count(pages) /\ n # n + 1 /\ n + 2 = Count(pages) + 1
  BY <1>1, FileSize
<1>3. PICK node \in PageNode : node = pages[n] /\ FitsAt(node, n)
  BY <1>2, FileSize
<1>4. node.records \in Seq(Ids) /\ ~HasRoom(node) /\ LastPage(pages) = node
  BY <1>1, <1>2, <1>3 DEF FitsAt, PageNode, LastPage
<1>5. node.records # <<>>
  BY <1>4 DEF HasRoom, Parameters
<1>6. node.id = n
  BY <1>3, <1>5 DEF FitsAt
<1>7. PICK a : a = Allocated(pages)
  OBVIOUS
<1>8. /\ a \in Files /\ DOMAIN a = DOMAIN pages \cup {n + 1} /\ Count(a) = n + 2
      /\ a[n + 1] = Zero /\ SameBut(pages, a, n + 1)
  <2>1. /\ a \in Files /\ DOMAIN a = DOMAIN pages \cup {Count(pages)}
        /\ Count(a) = Count(pages) + 1 /\ a[Count(pages)] = Zero
        /\ SameBut(pages, a, Count(pages))
    BY <1>7, PageAllocated
  <2> QED  BY <1>2, <2>1
<1>9. \A m \in Ids : Content(a)[m] = Content(pages)[m]
  BY <1>7, PageAllocated
<1>10. \A q \in DOMAIN pages : a[q] = pages[q]
  BY <1>1, <1>8 DEF SameBut
<1>11. Put(a, node) = a
  <2>1. n \in DOMAIN a /\ a[n] = node
    BY <1>2, <1>3, <1>8, <1>10
  <2>2. a[n].id = n
    BY <1>6, <2>1
  <2>3. Put(a, a[n]) = a
    BY <1>8, <2>1, <2>2, PutSame
  <2> QED  BY <2>1, <2>3
<1>12. PICK new : new = Node(n + 1, <<k>>)
  OBVIOUS
<1>13. new \in PageNode /\ new.id = n + 1 /\ new.records = <<k>>
  BY <1>12 DEF Node, PageNode
<1>14. PICK g : g = Put(a, new)
  OBVIOUS
<1>15. Insertions(k) = <<a, a, g>>
  BY <1>2, <1>4, <1>7, <1>11, <1>12, <1>14 DEF Insertions
<1>16. /\ g \in Files /\ DOMAIN g = DOMAIN a /\ g[n + 1] = new /\ SameBut(a, g, n + 1)
       /\ \A m \in Ids : Content(g)[m] = Content(a)[m] + One(m, k)
  <2>1. n + 1 \in DOMAIN a
    BY <1>8
  <2>2. HasRoom(a[n + 1]) /\ new.records = Append(a[n + 1].records, k)
    BY <1>8, <1>13 DEF Zero, Node, HasRoom, Parameters
  <2> QED  BY <1>8, <1>13, <1>14, <2>1, <2>2, RecordAdded
<1>17. ASSUME Numbered(pages) PROVE AlmostNumbered(a) /\ Numbered(g)
  <2>1. \A q \in DOMAIN pages : a[q].id = q
    BY <1>10, <1>17 DEF Numbered
  <2>2. AlmostNumbered(a)
    BY <1>1, <1>8, <2>1 DEF AlmostNumbered
  <2>3. \A q \in DOMAIN pages : g[q].id = q
    BY <1>1, <1>8, <1>16, <2>1 DEF SameBut
  <2>4. Numbered(g)
    BY <1>8, <1>13, <1>16, <2>3 DEF Numbered
  <2> QED  BY <2>2, <2>4
<1>18. \A m \in Ids : Content(g)[m] = Content(pages)[m] + One(m, k)
  BY <1>9, <1>16
<1> QED  BY <1>8, <1>9, <1>15, <1>16, <1>17, <1>18

(* A page with another record in the place of one. *)
Replaced(node, i, r) == [node EXCEPT !.records[i] = r]
LEMMA NodeReplaced ==
  ASSUME NEW node \in PageNode, NEW i \in 1..Len(node.records), NEW r \in Ids
  PROVE  /\ Replaced(node, i, r) \in PageNode
         /\ Replaced(node, i, r).id = node.id
         /\ Replaced(node, i, r).records = [node.records EXCEPT ![i] = r]
         /\ Differ(Replaced(node, i, r).records, node.records, i, r)
<1>0. PICK new : new = Replaced(node, i, r)
  OBVIOUS
<1>1. PICK rs \in Seq(Ids) : rs = node.records
  BY DEF PageNode
<1>2. PICK changed : changed = [rs EXCEPT ![i] = r]
  OBVIOUS
<1>3. changed \in Seq(Ids)
  BY <1>1, <1>2
<1>4. new = [id |-> node.id, records |-> changed]
  BY <1>0, <1>1, <1>2 DEF PageNode, Replaced
<1>5. node.id \in Nat
  BY DEF PageNode
<1>6. new \in PageNode /\ new.id = node.id /\ new.records = changed
  BY <1>3, <1>4, <1>5 DEF PageNode
<1>7. Differ(changed, rs, i, r)
  BY <1>1, <1>2 DEF Differ
<1> QED  BY <1>0, <1>1, <1>2, <1>6, <1>7

(* A page without its last record. *)
WithoutLast(node) == [node EXCEPT !.records = Front(@)]
LEMMA NodeCut ==
  ASSUME NEW node \in PageNode, node.records # <<>>
  PROVE  /\ WithoutLast(node) \in PageNode
         /\ WithoutLast(node).id = node.id
         /\ WithoutLast(node).records = Front(node.records)
<1>1. node.records \in Seq(Ids) /\ node.id \in Nat
  BY DEF PageNode
<1>2. PICK cut : cut = Front(node.records)
  OBVIOUS
<1>3. cut \in Seq(Ids)
  BY <1>1, <1>2 DEF Front
<1>4. WithoutLast(node) = [id |-> node.id, records |-> cut]
  BY <1>2 DEF PageNode, WithoutLast
<1> QED  BY <1>1, <1>2, <1>3, <1>4 DEF PageNode

(* The second of two writes of a page is the one that stays. *)
LEMMA PutTwice ==
  ASSUME NEW f \in Files, NEW p \in DOMAIN f, NEW mid, NEW new, mid.id = p, new.id = p
  PROVE  Put(Put(f, mid), new) = Put(f, new)
<1>1. DOMAIN f \cup {p} = DOMAIN f
  OBVIOUS
<1>2. Put(f, new) = [q \in DOMAIN f |-> IF q = p THEN new ELSE f[q]]
  BY <1>1 DEF Put, With
<1>3. PICK g : g = Put(f, mid)
  OBVIOUS
<1>4. g = [q \in DOMAIN f |-> IF q = p THEN mid ELSE f[q]]
  BY <1>1, <1>3 DEF Put, With
<1>5. DOMAIN g = DOMAIN f /\ \A q \in DOMAIN f : q # p => g[q] = f[q]
  BY <1>4
<1>6. Put(g, new) = [q \in DOMAIN f |-> IF q = p THEN new ELSE g[q]]
  BY <1>1, <1>5 DEF Put, With
<1>7. \A q \in DOMAIN f : (IF q = p THEN new ELSE g[q]) = (IF q = p THEN new ELSE f[q])
  BY <1>5
<1>8. Put(g, new) = Put(f, new)
  BY <1>2, <1>6, <1>7
<1> QED  BY <1>3, <1>8

(* A remove from the last page with records writes that page. *)
LEMMA RemoveInPage ==
  ASSUME Parameters, pages \in Files, NEW k \in Ids, Search(k) # <<>>, Search(k)[1] = LastUsed
  PROVE  \E g \in Files :
           /\ Removals(k) = <<g>>
           /\ Numbered(pages) => Numbered(g)
           /\ \A m \in Ids : Content(g)[m] = Content(pages)[m] - One(m, k)
<1>1. PICK p \in DOMAIN pages : \E i \in 1..Len(pages[p].records) :
             Search(k) = <<p, i>> /\ pages[p].records[i] = k
  BY SearchFinds
<1>2. PICK i \in 1..Len(pages[p].records) : Search(k) = <<p, i>> /\ pages[p].records[i] = k
  BY <1>1
<1>3. p = LastUsed /\ Search(k)[1] = p /\ Search(k)[2] = i
  BY <1>2
<1>4. PICK node \in PageNode : node = pages[p] /\ FitsAt(node, p)
  BY FileSize
<1>5. PICK n \in Nat \ {0} : n = Len(node.records)
  BY <1>2, <1>4 DEF PageNode
<1>6. PICK rs \in Seq(Ids) : rs = node.records /\ n = Len(rs) /\ i \in 1..n
  BY <1>2, <1>4, <1>5 DEF PageNode
<1>7. node.id = p
  BY <1>4, <1>5, <1>6 DEF FitsAt
<1>8. PICK r : r = Last(rs)
  OBVIOUS
<1>9. r \in Ids /\ r = rs[n]
  BY <1>5, <1>6, <1>8 DEF Last
<1>10. PICK mid : mid = Replaced(node, i, r)
  OBVIOUS
<1>11. /\ mid \in PageNode /\ mid.id = p /\ mid.records = [rs EXCEPT ![i] = r]
       /\ Differ(mid.records, rs, i, r)
  BY <1>6, <1>7, <1>9, <1>10, NodeReplaced
<1>12. PICK f : f = Put(pages, mid)
  OBVIOUS
<1>13. /\ f \in Files /\ DOMAIN f = DOMAIN pages /\ f[p] = mid /\ SameBut(pages, f, p)
       /\ Len(mid.records) = n
       /\ \A m \in Ids : Content(f)[m] = Content(pages)[m] - One(m, k) + One(m, r)
  <2>1. Differ(mid.records, pages[p].records, i, r) /\ pages[p].records[i] = k
    BY <1>2, <1>4, <1>6, <1>11
  <2>2. /\ Put(pages, mid) \in Files
        /\ DOMAIN Put(pages, mid) = DOMAIN pages
        /\ Put(pages, mid)[p] = mid /\ SameBut(pages, Put(pages, mid), p)
        /\ Len(mid.records) = Len(pages[p].records)
    BY <1>2, <1>9, <1>11, <2>1, RecordReplaced
  <2>3. \A m \in Ids : Content(Put(pages, mid))[m] = Content(pages)[m] - One(m, k) + One(m, r)
    BY <1>2, <1>9, <1>11, <2>1, RecordReplaced
  <2> QED  BY <1>4, <1>5, <1>12, <2>2, <2>3
<1>14. mid.records # <<>> /\ Last(mid.records) = r
  <2>1. PICK changed : changed = [rs EXCEPT ![i] = r]
    OBVIOUS
  <2>2. changed \in Seq(Ids) /\ Len(changed) = n
    BY <1>6, <1>9, <2>1
  <2>3. changed[n] = r
    BY <1>6, <1>9, <2>1
  <2> QED  BY <1>11, <2>1, <2>2, <2>3 DEF Last
<1>15. PICK new : new = WithoutLast(mid)
  OBVIOUS
<1>16. new \in PageNode /\ new.id = p /\ new.records = Front(mid.records)
  BY <1>11, <1>14, <1>15, NodeCut
<1>17. PICK g : g = Put(f, new)
  OBVIOUS
<1>18. /\ g \in Files /\ DOMAIN g = DOMAIN f /\ g[p] = new /\ SameBut(f, g, p)
       /\ \A m \in Ids : Content(g)[m] = Content(f)[m] - One(m, r)
  BY <1>13, <1>14, <1>16, <1>17, LastRecordCut
<1>19. g = Put(pages, new)
  BY <1>11, <1>12, <1>16, <1>17, PutTwice
<1>20. new = [node EXCEPT !.records = Front(ReplaceAt(@, i, Last(@)))]
  <2>1. PICK cut : cut = Front([rs EXCEPT ![i] = r])
    OBVIOUS
  <2>2. new = [id |-> p, records |-> cut]
    BY <1>11, <1>16, <2>1 DEF PageNode
  <2>3. node = [id |-> p, records |-> rs]
    BY <1>6, <1>7 DEF PageNode
  <2>4. Front(ReplaceAt(rs, i, Last(rs))) = cut
    BY <1>8, <2>1 DEF ReplaceAt
  <2> QED  BY <2>2, <2>3, <2>4
<1>21. Removals(k) = <<g>>
  BY <1>3, <1>4, <1>19, <1>20 DEF Removals
<1>22. \A m \in Ids : Content(g)[m] = Content(pages)[m] - One(m, k)
  <2>1. \A m \in Ids : Content(pages)[m] \in Nat
    BY ContentType
  <2> QED  BY <1>13, <1>18, <2>1 DEF One
<1>23. Numbered(pages) => Numbered(g)
  BY <1>11, <1>13, <1>16, <1>18 DEF Numbered, SameBut
<1> QED  BY <1>18, <1>21, <1>22, <1>23

(* One from an earlier page writes that page, with the last record, and then the last page. *)
LEMMA RemoveFromEarlier ==
  ASSUME Parameters, pages \in Files, NEW k \in Ids, Search(k) # <<>>, Search(k)[1] # LastUsed
  PROVE  \E f, g \in Files :
           /\ Removals(k) = <<f, g>>
           /\ Numbered(pages) => Numbered(f) /\ Numbered(g)
           /\ \E r \in Ids :
                \A m \in Ids : Content(f)[m] = Content(pages)[m] - One(m, k) + One(m, r)
           /\ \A m \in Ids : Content(g)[m] = Content(pages)[m] - One(m, k)
<1>1. PICK p \in DOMAIN pages : \E i \in 1..Len(pages[p].records) :
             Search(k) = <<p, i>> /\ pages[p].records[i] = k
  BY SearchFinds
<1>2. PICK i \in 1..Len(pages[p].records) : Search(k) = <<p, i>> /\ pages[p].records[i] = k
  BY <1>1
<1>3. p # LastUsed /\ Search(k)[1] = p /\ Search(k)[2] = i
  BY <1>2
<1>4. PICK target \in PageNode : target = pages[p] /\ FitsAt(target, p)
  BY FileSize
<1>5. target.records # <<>>
  BY <1>2, <1>4 DEF PageNode
<1>6. target.id = p
  BY <1>4, <1>5 DEF FitsAt
<1>7. PICK l \in DOMAIN pages : l = LastUsed /\ pages[l].records # <<>>
  BY <1>4, <1>5, LastUsedShape
<1>8. PICK last \in PageNode : last = pages[l] /\ FitsAt(last, l)
  BY FileSize
<1>9. last.id = l /\ last.records # <<>>
  BY <1>7, <1>8 DEF FitsAt
<1>10. PICK r : r = Last(last.records)
  OBVIOUS
<1>11. r \in Ids
  BY <1>9, <1>10 DEF PageNode, Last
<1>12. PICK mid : mid = Replaced(target, i, r)
  OBVIOUS
<1>13. mid \in PageNode /\ mid.id = p /\ Differ(mid.records, pages[p].records, i, r)
  <2>1. i \in 1..Len(target.records)
    BY <1>2, <1>4
  <2>2. mid \in PageNode /\ mid.id = target.id /\ Differ(mid.records, target.records, i, r)
    BY <1>11, <1>12, <2>1, NodeReplaced
  <2> QED  BY <1>4, <1>6, <2>2
<1>14. PICK f : f = Put(pages, mid)
  OBVIOUS
<1>15. /\ f \in Files /\ DOMAIN f = DOMAIN pages /\ f[p] = mid /\ SameBut(pages, f, p)
       /\ \A m \in Ids : Content(f)[m] = Content(pages)[m] - One(m, k) + One(m, r)
  <2>1. /\ Put(pages, mid) \in Files
        /\ DOMAIN Put(pages, mid) = DOMAIN pages
        /\ Put(pages, mid)[p] = mid /\ SameBut(pages, Put(pages, mid), p)
    BY <1>2, <1>11, <1>13, RecordReplaced
  <2>2. \A m \in Ids : Content(Put(pages, mid))[m] = Content(pages)[m] - One(m, k) + One(m, r)
    BY <1>2, <1>11, <1>13, RecordReplaced
  <2> QED  BY <1>14, <2>1, <2>2
<1>16. f[l] = last /\ l \in DOMAIN f
  BY <1>3, <1>7, <1>8, <1>15 DEF SameBut
<1>17. PICK new : new = WithoutLast(last)
  OBVIOUS
<1>18. new \in PageNode /\ new.id = l /\ new.records = Front(last.records)
  BY <1>9, <1>17, NodeCut
<1>19. PICK g : g = Put(f, new)
  OBVIOUS
<1>20. /\ g \in Files /\ DOMAIN g = DOMAIN f /\ g[l] = new /\ SameBut(f, g, l)
       /\ \A m \in Ids : Content(g)[m] = Content(f)[m] - One(m, r)
  BY <1>9, <1>10, <1>15, <1>16, <1>18, <1>19, LastRecordCut
<1>21. Removals(k) = <<f, g>>
  <2>1. Removals(k) = MovedFirst(pages[p], i, pages[LastUsed])
    BY <1>3 DEF Removals
  <2>2. Removals(k) = MovedFirst(target, i, last)
    BY <1>4, <1>7, <1>8, <2>1
  <2> QED  BY <1>10, <1>12, <1>14, <1>17, <1>19, <2>2 DEF MovedFirst, Replaced, WithoutLast
<1>22. \A m \in Ids : Content(g)[m] = Content(pages)[m] - One(m, k)
  <2>1. \A m \in Ids : Content(pages)[m] \in Nat
    BY ContentType
  <2> QED  BY <1>15, <1>20, <2>1 DEF One
<1>23. ASSUME Numbered(pages) PROVE Numbered(f) /\ Numbered(g)
  <2>1. Numbered(f)
    BY <1>13, <1>15, <1>23 DEF Numbered, SameBut
  <2> QED  BY <1>18, <1>20, <2>1 DEF Numbered, SameBut
<1> QED  BY <1>11, <1>15, <1>20, <1>21, <1>22, <1>23

-----------------------------------------------------------------------------
(* What the calls keep.                                                    *)

(* A file that the calls have left can be stopped at. *)
LEMMA AtRest ==
  ASSUME NEW f \in Files, NEW kept \in [Ids -> Nat], NEW call,
         Numbered(f), \A m \in Ids : Content(f)[m] = kept[m]
  PROVE  Sound(f, kept, call)
<1>1. AlmostNumbered(f)
  BY DEF AlmostNumbered, Numbered
<1>2. \A m \in Ids : kept[m] \in Nat /\ Less(call, m) \in {0, 1}
  BY DEF Less
<1>3. \A m \in Ids : kept[m] - Less(call, m) <= Content(f)[m]
                     /\ Content(f)[m] <= kept[m] - Less(call, m) + 1
  BY <1>2
<1>4. ASSUME NEW k \in Ids, Content(f)[k] > kept[k] - Less(call, k) PROVE call = <<"remove", k>>
  BY <1>2, <1>4 DEF Less
<1>5. ASSUME NEW k \in Ids, NEW m \in Ids,
             Content(f)[k] > kept[k] - Less(call, k), Content(f)[m] > kept[m] - Less(call, m)
      PROVE  k = m
  BY <1>4, <1>5
<1>6. Near(Content(f), kept, call)
  BY <1>3, <1>5 DEF Near
<1> QED  BY <1>1, <1>6 DEF Sound

(* With no call under way, the file is what the calls left. *)
LEMMA Between ==
  ASSUME NEW f \in Files, NEW kept \in [Ids -> Nat]
  PROVE  Done(f, kept, NoJob) <=> Numbered(f) /\ \A m \in Ids : Content(f)[m] = kept[m]
<1>1. \A m \in Ids : More(NoJob, m) = 0 /\ Less(NoJob, m) = 0
  BY DEF More, Less, NoJob
<1>2. \A m \in Ids : kept[m] + More(NoJob, m) - Less(NoJob, m) = kept[m]
  BY <1>1
<1> QED  BY <1>2 DEF Done

(* An insert keeps the promise from its first write on. *)
LEMMA InsertKeeps ==
  ASSUME Parameters, pages \in Files, NEW k \in Ids, NEW kept \in [Ids -> Nat]
  PROVE  /\ Insertions(k) \in Seq(Files) /\ Insertions(k) # <<>>
         /\ Numbered(pages) /\ (\A m \in Ids : Content(pages)[m] = kept[m]) =>
              Kept(pages, Insertions(k), kept, <<"insert", k>>)
<1>1. PICK call : call = <<"insert", k>>
  OBVIOUS
<1>2. \A m \in Ids : More(call, m) = One(m, k) /\ Less(call, m) = 0
  BY <1>1 DEF More, Less, One
<1>3. ASSUME NEW g \in Files, Numbered(g),
             \A m \in Ids : Content(pages)[m] = kept[m],
             \A m \in Ids : Content(g)[m] = Content(pages)[m] + One(m, k)
      PROVE  Done(g, kept, call)
  <2>1. \A m \in Ids : Content(g)[m] = kept[m] + More(call, m) - Less(call, m)
    BY <1>2, <1>3 DEF One
  <2> QED  BY <1>3, <2>1 DEF Done
<1>4. CASE HasRoom(LastPage(pages))
  <2>1. PICK g \in Files :
          /\ Insertions(k) = <<g>>
          /\ Numbered(pages) =>
               Numbered(g) /\ \A m \in Ids : Content(g)[m] = Content(pages)[m] + One(m, k)
    BY <1>4, InsertWithRoom
  <2>2. PICK c : c = Insertions(k)
    OBVIOUS
  <2>3. c \in Seq(Files) /\ c # <<>> /\ Len(c) = 1 /\ c[Len(c)] = g
    BY <2>1, <2>2
  <2>4. ASSUME Numbered(pages), \A m \in Ids : Content(pages)[m] = kept[m]
        PROVE  Kept(pages, c, kept, call)
    <3>1. Sound(pages, kept, call)
      BY <2>4, AtRest
    <3>2. Done(c[Len(c)], kept, call)
      BY <1>3, <2>1, <2>3, <2>4
    <3> QED  BY <2>3, <3>1, <3>2 DEF Kept
  <2> QED  BY <1>1, <2>2, <2>3, <2>4
<1>5. CASE ~HasRoom(LastPage(pages))
  <2>1. PICK a \in Files, g \in Files :
          /\ Insertions(k) = <<a, a, g>>
          /\ \A m \in Ids : Content(a)[m] = Content(pages)[m]
          /\ Numbered(pages) =>
               /\ AlmostNumbered(a) /\ Numbered(g)
               /\ \A m \in Ids : Content(g)[m] = Content(pages)[m] + One(m, k)
    BY <1>5, InsertWithoutRoom
  <2>2. PICK c : c = Insertions(k)
    OBVIOUS
  <2>3. c \in Seq(Files) /\ c # <<>> /\ Len(c) = 3 /\ c[Len(c)] = g /\ c[1] = a /\ c[2] = a
    BY <2>1, <2>2
  <2>4. ASSUME Numbered(pages), \A m \in Ids : Content(pages)[m] = kept[m]
        PROVE  Kept(pages, c, kept, call)
    <3>1. Sound(pages, kept, call)
      BY <2>4, AtRest
    <3>2. Done(c[Len(c)], kept, call)
      BY <1>3, <2>1, <2>3, <2>4
    <3>3. Sound(a, kept, call)
      <4>1. \A m \in Ids : kept[m] \in Nat /\ Content(a)[m] = kept[m]
        BY <2>1, <2>4
      <4>2. Near(Content(a), kept, call)
        BY <1>2, <4>1 DEF Near
      <4> QED  BY <2>1, <2>4, <4>2 DEF Sound
    <3>4. \A i \in 1..Len(c) : i < Len(c) => Sound(c[i], kept, call)
      BY <2>3, <3>3
    <3> QED  BY <2>3, <3>1, <3>2, <3>4 DEF Kept
  <2> QED  BY <1>1, <2>2, <2>3, <2>4
<1> QED  BY <1>4, <1>5

(* A remove keeps the promise from its first write on. *)
LEMMA RemoveKeeps ==
  ASSUME Parameters, pages \in Files, NEW k \in Ids, Search(k) # <<>>, NEW kept \in [Ids -> Nat]
  PROVE  /\ Removals(k) \in Seq(Files) /\ Removals(k) # <<>>
         /\ Numbered(pages) /\ (\A m \in Ids : Content(pages)[m] = kept[m]) =>
              Kept(pages, Removals(k), kept, <<"remove", k>>)
<1>1. PICK call : call = <<"remove", k>>
  OBVIOUS
<1>2. \A m \in Ids : More(call, m) = 0 /\ Less(call, m) = One(m, k)
  BY <1>1 DEF More, Less, One
<1>3. ASSUME NEW g \in Files, Numbered(g),
             \A m \in Ids : Content(pages)[m] = kept[m],
             \A m \in Ids : Content(g)[m] = Content(pages)[m] - One(m, k)
      PROVE  Done(g, kept, call)
  <2>1. \A m \in Ids : Content(g)[m] = kept[m] + More(call, m) - Less(call, m)
    BY <1>2, <1>3 DEF One
  <2> QED  BY <1>3, <2>1 DEF Done
<1>4. CASE Search(k)[1] = LastUsed
  <2>1. PICK g \in Files :
          /\ Removals(k) = <<g>>
          /\ Numbered(pages) => Numbered(g)
          /\ \A m \in Ids : Content(g)[m] = Content(pages)[m] - One(m, k)
    BY <1>4, RemoveInPage
  <2>2. PICK c : c = Removals(k)
    OBVIOUS
  <2>3. c \in Seq(Files) /\ c # <<>> /\ Len(c) = 1 /\ c[Len(c)] = g
    BY <2>1, <2>2
  <2>4. ASSUME Numbered(pages), \A m \in Ids : Content(pages)[m] = kept[m]
        PROVE  Kept(pages, c, kept, call)
    <3>1. Sound(pages, kept, call)
      BY <2>4, AtRest
    <3>2. Done(c[Len(c)], kept, call)
      BY <1>3, <2>1, <2>3, <2>4
    <3> QED  BY <2>3, <3>1, <3>2 DEF Kept
  <2> QED  BY <1>1, <2>2, <2>3, <2>4
<1>5. CASE Search(k)[1] # LastUsed
  <2>1. PICK f \in Files, g \in Files :
          /\ Removals(k) = <<f, g>>
          /\ Numbered(pages) => Numbered(f) /\ Numbered(g)
          /\ \E r \in Ids :
               \A m \in Ids : Content(f)[m] = Content(pages)[m] - One(m, k) + One(m, r)
          /\ \A m \in Ids : Content(g)[m] = Content(pages)[m] - One(m, k)
    BY <1>5, RemoveFromEarlier
  <2>2. PICK r \in Ids : \A m \in Ids : Content(f)[m] = Content(pages)[m] - One(m, k) + One(m, r)
    BY <2>1
  <2>3. PICK c : c = Removals(k)
    OBVIOUS
  <2>4. c \in Seq(Files) /\ c # <<>> /\ Len(c) = 2 /\ c[Len(c)] = g /\ c[1] = f
    BY <2>1, <2>3
  <2>5. ASSUME Numbered(pages), \A m \in Ids : Content(pages)[m] = kept[m]
        PROVE  Kept(pages, c, kept, call)
    <3>1. Sound(pages, kept, call)
      BY <2>5, AtRest
    <3>2. Done(c[Len(c)], kept, call)
      BY <1>3, <2>1, <2>4, <2>5
    <3>3. Sound(f, kept, call)
      <4>1. \A m \in Ids : /\ kept[m] \in Nat /\ One(m, k) \in {0, 1}
                           /\ Content(f)[m] = kept[m] - Less(call, m) + One(m, r)
        BY <1>2, <2>2, <2>5 DEF One
      <4>2. \A m \in Ids : One(m, r) \in {0, 1} /\ Less(call, m) \in {0, 1}
        BY DEF One, Less
      <4>3. \A m \in Ids : /\ kept[m] - Less(call, m) <= Content(f)[m]
                           /\ Content(f)[m] <= kept[m] - Less(call, m) + 1
        BY <4>1, <4>2
      <4>4. ASSUME NEW m \in Ids, Content(f)[m] > kept[m] - Less(call, m) PROVE m = r
        BY <4>1, <4>2, <4>4 DEF One
      <4>5. Near(Content(f), kept, call)
        BY <4>3, <4>4 DEF Near
      <4>6. AlmostNumbered(f)
        BY <2>1, <2>5 DEF AlmostNumbered, Numbered
      <4> QED  BY <4>5, <4>6 DEF Sound
    <3>4. \A i \in 1..Len(c) : i < Len(c) => Sound(c[i], kept, call)
      BY <2>4, <3>3
    <3> QED  BY <2>4, <3>1, <3>2, <3>4 DEF Kept
  <2> QED  BY <1>1, <2>3, <2>4, <2>5
<1> QED  BY <1>4, <1>5

-----------------------------------------------------------------------------
(* The steps.                                                              *)

(* The empty file. *)
LEMMA InitHolds ==
  ASSUME Parameters, Init
  PROVE  HInv
<1>1. pages = [p \in 0..0 |-> Node(0, <<>>)] /\ DOMAIN pages = 0..0
  <2>1. {0} = 0..0
    OBVIOUS
  <2> QED  BY <2>1 DEF Init
<1>2. Node(0, <<>>) \in PageNode /\ FitsAt(Node(0, <<>>), 0) /\ Node(0, <<>>).id = 0
      /\ DOMAIN Node(0, <<>>).records = {}
  BY DEF Node, PageNode, FitsAt, Parameters
<1>3. \A p \in 0..0 : pages[p] = Node(0, <<>>) /\ p = 0
  BY <1>1
<1>4. pages \in Files
  <2>1. pages \in [0..0 -> PageNode] /\ \A p \in 0..0 : FitsAt(pages[p], p)
    BY <1>1, <1>2, <1>3
  <2> QED  BY <2>1, FileShape
<1>5. Numbered(pages)
  BY <1>1, <1>2, <1>3 DEF Numbered
<1>6. \A m \in Ids : Content(pages)[m] = 0
  <2>1. Places(pages) = {}
    BY <1>1, <1>2, <1>3 DEF Places
  <2>2. \A m \in Ids : PlacesOf(pages, m) = {}
    BY <2>1 DEF PlacesOf
  <2>3. Cardinality({}) = 0
    BY FS_EmptySet
  <2> QED  BY <2>2, <2>3 DEF Content
<1>7. coming = <<>> /\ job = NoJob /\ torn = FALSE /\ stops = 0
      /\ stored = [k \in Ids |-> 0] /\ stored \in [Ids -> Nat]
  BY DEF Init
<1>8. Shape
  <2>1. coming \in Seq(Files) /\ stops \in 0..MaxStops
    BY <1>7 DEF Parameters
  <2> QED  BY <1>4, <1>7, <2>1 DEF Shape
<1>9. Promise
  <2>1. \A m \in Ids : Content(pages)[m] = stored[m]
    BY <1>6, <1>7
  <2>2. Sound(pages, stored, job) /\ Done(pages, stored, job)
    BY <1>4, <1>5, <1>7, <2>1, AtRest, Between
  <2> QED  BY <1>7, <2>2 DEF Promise, Kept
<1> QED  BY <1>8, <1>9 DEF HInv

(* Between calls the file is what they left. *)
LEMMA RestingFile ==
  ASSUME HInv, Idle, ~torn
  PROVE  Numbered(pages) /\ \A m \in Ids : Content(pages)[m] = stored[m]
<1>1. job = NoJob /\ pages \in Files /\ stored \in [Ids -> Nat]
  BY DEF HInv, Shape, Idle
<1>2. Done(pages, stored, NoJob)
  BY <1>1 DEF HInv, Promise, Kept, Idle
<1> QED  BY <1>1, <1>2, Between

LEMMA InsertStarts ==
  ASSUME Parameters, HInv, NEW k \in Ids, StartInsert(k)
  PROVE  HInv'
<1>1. /\ Idle /\ coming' = Insertions(k) /\ job' = <<"insert", k>>
      /\ pages' = pages /\ stored' = stored /\ torn' = torn /\ stops' = stops
  BY DEF StartInsert
<1>2. pages \in Files /\ stored \in [Ids -> Nat] /\ torn \in BOOLEAN /\ stops \in 0..MaxStops
  BY DEF HInv, Shape
<1>3. coming' \in Seq(Files) /\ coming' # <<>>
  BY <1>1, <1>2, InsertKeeps
<1>4. job' \in {"insert", "remove"} \X Ids /\ job' # NoJob
  BY <1>1 DEF NoJob
<1>5. Shape'
  BY <1>1, <1>2, <1>3, <1>4 DEF Shape
<1>6. ASSUME ~torn' PROVE Kept(pages', coming', stored', job')
  <2>1. Numbered(pages) /\ \A m \in Ids : Content(pages)[m] = stored[m]
    BY <1>1, <1>6, RestingFile
  <2>2. Kept(pages, Insertions(k), stored, <<"insert", k>>)
    BY <1>2, <2>1, InsertKeeps
  <2> QED  BY <1>1, <2>2
<1> QED  BY <1>5, <1>6 DEF HInv, Promise

LEMMA RemoveStarts ==
  ASSUME Parameters, HInv, NEW k \in Ids, StartRemove(k)
  PROVE  HInv'
<1>1. /\ Idle /\ coming' = Removals(k) /\ job' = <<"remove", k>> /\ Search(k) # <<>>
      /\ pages' = pages /\ stored' = stored /\ torn' = torn /\ stops' = stops
  BY DEF StartRemove
<1>2. pages \in Files /\ stored \in [Ids -> Nat] /\ torn \in BOOLEAN /\ stops \in 0..MaxStops
  BY DEF HInv, Shape
<1>3. coming' \in Seq(Files) /\ coming' # <<>>
  BY <1>1, <1>2, RemoveKeeps
<1>4. job' \in {"insert", "remove"} \X Ids /\ job' # NoJob
  BY <1>1 DEF NoJob
<1>5. Shape'
  BY <1>1, <1>2, <1>3, <1>4 DEF Shape
<1>6. ASSUME ~torn' PROVE Kept(pages', coming', stored', job')
  <2>1. Numbered(pages) /\ \A m \in Ids : Content(pages)[m] = stored[m]
    BY <1>1, <1>6, RestingFile
  <2>2. Kept(pages, Removals(k), stored, <<"remove", k>>)
    BY <1>1, <1>2, <2>1, RemoveKeeps
  <2> QED  BY <1>1, <2>2
<1> QED  BY <1>5, <1>6 DEF HInv, Promise

(* A sequence that is not empty has a first element. *)
LEMMA NotEmpty ==
  ASSUME NEW S, NEW s \in Seq(S), s # <<>>
  PROVE  Len(s) \in Nat \ {0}
OBVIOUS

(* The writes after the first. *)
LEMMA TailWrites ==
  ASSUME NEW c \in Seq(Files), c # <<>>
  PROVE  /\ Head(c) \in Files /\ Head(c) = c[1] /\ Tail(c) \in Seq(Files)
         /\ Len(c) \in Nat \ {0} /\ Len(Tail(c)) = Len(c) - 1
         /\ \A i \in 1..Len(Tail(c)) : Tail(c)[i] = c[i + 1]
         /\ Tail(c) = <<>> <=> Len(c) = 1
<1>1. Len(c) \in Nat \ {0} /\ Head(c) = c[1] /\ c[1] \in Files
  OBVIOUS
<1>2. PICK t : t = Tail(c)
  OBVIOUS
<1>3. t \in Seq(Files) /\ Len(t) = Len(c) - 1
  BY <1>2
<1>4. \A i \in 1..Len(t) : t[i] = c[i + 1]
  BY <1>2
<1>5. t = <<>> <=> Len(t) = 0
  <2>1. Len(<<>>) = 0
    OBVIOUS
  <2>2. t # <<>> => Len(t) # 0
    BY <1>3, NotEmpty
  <2> QED  BY <2>1, <2>2
<1>6. Len(t) = 0 <=> Len(c) = 1
  BY <1>1, <1>3
<1> QED  BY <1>1, <1>2, <1>3, <1>4, <1>5, <1>6

LEMMA PageWritten ==
  ASSUME Parameters, HInv, WritePage
  PROVE  HInv'
<1>1. /\ pages \in Files /\ coming \in Seq(Files) /\ coming # <<>> /\ stored \in [Ids -> Nat]
      /\ job \in {"insert", "remove"} \X Ids
      /\ torn \in BOOLEAN /\ stops \in 0..MaxStops
  BY DEF HInv, Shape, WritePage
<1>2. pages' = Head(coming) /\ coming' = Tail(coming) /\ torn' = torn /\ stops' = stops
  BY DEF WritePage
<1>3. PICK c \in Seq(Files) : c = coming
  BY <1>1
<1>4. /\ pages' \in Files /\ pages' = c[1] /\ coming' \in Seq(Files)
      /\ Len(c) \in Nat \ {0} /\ Len(coming') = Len(c) - 1
      /\ \A i \in 1..Len(coming') : coming'[i] = c[i + 1]
      /\ coming' = <<>> <=> Len(c) = 1
  BY <1>1, <1>2, <1>3, TailWrites
<1>5. CASE coming' # <<>>
  <2>1. job' = job /\ stored' = stored
    BY <1>5 DEF WritePage
  <2>2. job # NoJob
    BY <1>1 DEF HInv, Shape
  <2>3. Shape'
    BY <1>1, <1>2, <1>4, <1>5, <2>1, <2>2 DEF Shape
  <2>4. ASSUME ~torn' PROVE Kept(pages', coming', stored', job')
    <3>1. Kept(pages, c, stored, job)
      BY <1>2, <1>3, <2>4 DEF HInv, Promise
    <3>2. 1 < Len(c) /\ 1 \in 1..Len(c)
      BY <1>4, <1>5
    <3>3. Sound(pages', stored', job')
      BY <1>4, <2>1, <3>1, <3>2 DEF Kept
    <3>4. coming'[Len(coming')] = c[Len(c)]
      BY <1>4, <3>2
    <3>5. Done(coming'[Len(coming')], stored', job')
      BY <1>1, <1>3, <2>1, <3>1, <3>4 DEF Kept
    <3>6. ASSUME NEW i \in 1..Len(coming'), i < Len(coming')
          PROVE  Sound(coming'[i], stored', job')
      <4>1. i + 1 \in 1..Len(c) /\ i + 1 < Len(c) /\ coming'[i] = c[i + 1]
        BY <1>4, <3>6
      <4> QED  BY <2>1, <3>1, <4>1 DEF Kept
    <3> QED  BY <1>5, <3>3, <3>5, <3>6 DEF Kept
  <2> QED  BY <2>3, <2>4 DEF HInv, Promise
<1>6. CASE coming' = <<>>
  <2>1. job' = NoJob
    BY <1>6 DEF WritePage
  <2>2. CASE torn
    <3>1. stored' = stored
      BY <1>6, <2>2 DEF WritePage
    <3>2. Shape'
      BY <1>1, <1>2, <1>4, <1>6, <2>1, <3>1 DEF Shape
    <3> QED  BY <1>2, <2>2, <3>2 DEF HInv, Promise
  <2>3. CASE ~torn
    <3>1. PICK d : d = IF job[1] = "insert" THEN 1 ELSE -1
      OBVIOUS
    <3>2. stored' = [stored EXCEPT ![job[2]] = stored[job[2]] + d]
      BY <1>6, <2>3, <3>1 DEF WritePage
    <3>3. PICK verb \in {"insert", "remove"}, k \in Ids : job = <<verb, k>>
      BY <1>1
    <3>4. \A m \in Ids : stored'[m] = stored[m] + More(job, m) - Less(job, m)
      <4>1. job[1] = verb /\ job[2] = k
        BY <3>3
      <4>2. ASSUME NEW m \in Ids
            PROVE  stored'[m] = stored[m] + More(job, m) - Less(job, m)
        <5>1. stored'[m] = IF m = k THEN stored[m] + d ELSE stored[m]
          BY <1>1, <3>2, <4>1
        <5>2. stored[m] \in Nat
          BY <1>1
        <5>3. CASE verb = "insert"
          <6>1. More(job, m) = (IF m = k THEN 1 ELSE 0) /\ Less(job, m) = 0 /\ d = 1
            BY <3>1, <3>3, <4>1, <5>3 DEF More, Less
          <6> QED  BY <5>1, <5>2, <6>1
        <5>4. CASE verb = "remove"
          <6>1. More(job, m) = 0 /\ Less(job, m) = (IF m = k THEN 1 ELSE 0) /\ d = -1
            BY <3>1, <3>3, <4>1, <5>4 DEF More, Less
          <6> QED  BY <5>1, <5>2, <6>1
        <5> QED  BY <5>3, <5>4
      <4> QED  BY <4>2
    <3>5. Done(pages', stored, job)
      <4>1. Kept(pages, c, stored, job)
        BY <1>3, <2>3 DEF HInv, Promise
      <4> QED  BY <1>1, <1>3, <1>4, <1>6, <4>1 DEF Kept
    <3>6. Numbered(pages') /\ \A m \in Ids : Content(pages')[m] = stored'[m]
      BY <3>4, <3>5 DEF Done
    <3>7. stored' \in [Ids -> Nat]
      <4>1. \A m \in Ids : stored'[m] \in Nat
        BY <1>4, <3>6, ContentType
      <4>2. DOMAIN stored' = Ids /\ stored' = [m \in Ids |-> stored'[m]]
        BY <1>1, <3>2
      <4> QED  BY <4>1, <4>2
    <3>8. Shape'
      BY <1>1, <1>2, <1>4, <1>6, <2>1, <3>7 DEF Shape
    <3>9. Sound(pages', stored', job') /\ Done(pages', stored', job')
      BY <1>4, <2>1, <3>6, <3>7, AtRest, Between
    <3>10. Kept(pages', coming', stored', job')
      BY <1>6, <3>9 DEF Kept
    <3> QED  BY <3>8, <3>10 DEF HInv, Promise
  <2> QED  BY <1>1, <2>2, <2>3
<1> QED  BY <1>5, <1>6

LEMMA ProcessStops ==
  ASSUME Parameters, HInv, Stop
  PROVE  HInv'
<1>1. /\ pages' = pages /\ coming' = <<>> /\ job' = NoJob /\ stored' = Content(pages)
      /\ torn' = (torn \/ LastPage(pages).id # Count(pages) - 1)
      /\ stops' = stops + 1 /\ stops < MaxStops
  BY DEF Stop
<1>2. pages \in Files /\ torn \in BOOLEAN /\ stops \in 0..MaxStops
  BY DEF HInv, Shape
<1>3. stored' \in [Ids -> Nat]
  BY <1>1, <1>2, ContentType
<1>4. Shape'
  <2>1. stops' \in 0..MaxStops
    BY <1>1, <1>2 DEF Parameters
  <2>2. coming' \in Seq(Files) /\ torn' \in BOOLEAN
    BY <1>1, <1>2
  <2> QED  BY <1>1, <1>2, <1>3, <2>1, <2>2 DEF Shape
<1>5. ASSUME ~torn' PROVE Kept(pages', coming', stored', job')
  <2>1. ~torn /\ LastPage(pages).id = Count(pages) - 1
    BY <1>1, <1>5
  <2>2. AlmostNumbered(pages)
    BY <2>1 DEF HInv, Promise, Kept, Sound
  <2>3. Numbered(pages)
    <3>1. PICK n \in Nat : Count(pages) - 1 = n /\ DOMAIN pages = 0..n
      BY <1>2, FileSize
    <3>2. \A p \in 0..n : p < n \/ p = n
      OBVIOUS
    <3>3. pages[n].id = n
      BY <2>1, <3>1 DEF LastPage
    <3> QED  BY <2>2, <3>1, <3>2, <3>3 DEF AlmostNumbered, Numbered
  <2>4. \A m \in Ids : Content(pages)[m] = stored'[m]
    BY <1>1
  <2>5. Sound(pages, stored', NoJob) /\ Done(pages, stored', NoJob)
    BY <1>2, <1>3, <2>3, <2>4, AtRest, Between
  <2> QED  BY <1>1, <2>5 DEF Kept
<1> QED  BY <1>4, <1>5 DEF HInv, Promise

(* No step breaks it. *)
LEMMA StepKeeps ==
  ASSUME Parameters, HInv, [Next]_vars
  PROVE  HInv'
<1>1. ASSUME NEW k \in Ids, StartInsert(k) PROVE HInv'
  BY <1>1, InsertStarts
<1>2. ASSUME NEW k \in Ids, StartRemove(k) PROVE HInv'
  BY <1>2, RemoveStarts
<1>3. CASE WritePage
  BY <1>3, PageWritten
<1>4. CASE Stop
  BY <1>4, ProcessStops
<1>5. CASE UNCHANGED vars
  BY <1>5 DEF vars, HInv, Shape, Promise
<1> QED  BY <1>1, <1>2, <1>3, <1>4, <1>5 DEF Next

-----------------------------------------------------------------------------
(* What it says of a heap file. *)
LEMMA Says ==
  ASSUME HInv
  PROVE  TypeOK /\ ContentExact /\ NoRecordLost
<1>1. pages \in Files /\ stored \in [Ids -> Nat]
  BY DEF HInv, Shape
<1>2. TypeOK
  <2>1. DOMAIN pages = 0..(Count(pages) - 1)
    BY <1>1, FileSize
  <2>2. \A p \in DOMAIN pages : /\ pages[p].records \in Seq(Ids)
                                /\ Len(pages[p].records) <= Capacity
                                /\ pages[p].records # <<>> => pages[p].id = p
    BY <1>1, FileSize DEF PageNode, FitsAt
  <2> QED  BY <2>1, <2>2 DEF HInv, Shape, TypeOK
<1>3. ContentExact
  <2>1. ASSUME ~torn, Idle PROVE Content(pages) = stored
    <3>1. \A m \in Ids : Content(pages)[m] = stored[m]
      BY <2>1, RestingFile
    <3>2. stored = [m \in Ids |-> stored[m]] /\ Content(pages) = [m \in Ids |-> Content(pages)[m]]
      BY <1>1 DEF Content
    <3> QED  BY <3>1, <3>2
  <2> QED  BY <2>1 DEF ContentExact
<1>4. NoRecordLost
  <2>1. \A k \in Ids : Wanted[k] = stored[k] - Less(job, k)
    BY DEF Wanted, Less
  <2>2. ASSUME ~torn PROVE Near(Content(pages), stored, job)
    BY <2>2 DEF HInv, Promise, Kept, Sound
  <2> QED  BY <2>1, <2>2 DEF Near, NoRecordLost
<1> QED  BY <1>2, <1>3, <1>4

(* In every state of a heap file, HInv. *)
THEOREM HeapInvariant ==
  ASSUME Parameters
  PROVE  Spec => []HInv
<1>1. Init => HInv
  BY InitHolds
<1>2. HInv /\ [Next]_vars => HInv'
  BY StepKeeps
<1> QED  BY <1>1, <1>2, PTL DEF Spec

(* Pages keep to their block and their numbers. *)
THEOREM HeapTypeOK ==
  ASSUME Parameters
  PROVE  Spec => []TypeOK
<1>1. HInv => TypeOK
  BY Says
<1> QED  BY <1>1, HeapInvariant, PTL

(* Between calls the file has each record as often as the calls left it. *)
THEOREM HeapContent ==
  ASSUME Parameters
  PROVE  Spec => []ContentExact
<1>1. HInv => ContentExact
  BY Says
<1> QED  BY <1>1, HeapInvariant, PTL

(* Wherever the process stops, no record but the one being removed is lost. *)
THEOREM HeapNoneLost ==
  ASSUME Parameters
  PROVE  Spec => []NoRecordLost
<1>1. HInv => NoRecordLost
  BY Says
<1> QED  BY <1>1, HeapInvariant, PTL

=============================================================================
