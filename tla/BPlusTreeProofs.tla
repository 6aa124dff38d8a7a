--------------------------- MODULE BPlusTreeProofs ---------------------------
(***************************************************************************)
(* A B+ tree of any size, with nodes of any capacity: until a call is cut  *)
(* short, search and range search answer exactly what was stored, all      *)
(* leaves are at one depth and linked both ways; and at every page write   *)
(* of an insert every key still leads to a leaf.                           *)
(* In every state, also after a stop anywhere, the pages are nodes that    *)
(* fit and point to pages of the file.                                     *)
(*                                                                         *)
(* A tree is described by the level of each page and by its range, the set *)
(* of integers whose descent passes through it (IsTree).  In the middle of *)
(* a split the new page has no parent yet: it shares the range that the    *)
(* parent means for the page that was split.                               *)
(***************************************************************************)
EXTENDS BPlusTree, FiniteSetTheorems, WellFoundedInduction, TLAPS

Parameters ==
  /\ Keys \subseteq Int /\ NoRid \notin Rids
  /\ LeafCapacity \in Nat \ {0} /\ InternalCapacity \in Nat \ {0} /\ MaxStops \in Nat

NodeRecord == [id : Int, leaf : BOOLEAN, next : Int, prev : Int,
               keys : Seq(Keys), children : Seq(Int), entries : Seq(Entry)]
(* Pages 0 to n - 1, the first of which is no leaf. *)
IsFile(f, n) == n \in Nat /\ f \in [0..(n - 1) -> NodeRecord] /\ (n # 0 => ~f[0].leaf)

-----------------------------------------------------------------------------
(* Sets of numbers, sequences and loops.                                   *)

(* A set of numbers has a least one. *)
LEMMA LeastElement ==
  ASSUME NEW T, T \subseteq Nat, T # {}
  PROVE  \E x \in T : \A y \in T : x <= y
<1>1. PICK x \in T : \A y \in T : <<y, x>> \notin OpToRel(<, Nat)
  BY NatLessThanWellFounded, WFMin
<1>2. \A y \in T : ~(y < x)
  BY <1>1 DEF OpToRel
<1> QED  BY <1>2

(* Min finds it. *)
LEMMA MinOfSet ==
  ASSUME NEW T, T \subseteq Nat, T # {}
  PROVE  Min(T) \in T /\ \A y \in T : Min(T) <= y
<1>1. \E x \in T : \A y \in T : x <= y
  BY LeastElement
<1> QED  BY <1>1 DEF Min

(* A fact of the start that each round hands on holds after every round. *)
LEMMA EveryRound ==
  ASSUME NEW N \in Nat, NEW G, 0 \in G, \A n \in 1..N : n - 1 \in G => n \in G
  PROVE  \A n \in 0..N : n \in G
<1>1. PICK T : T = {n \in 0..N : n \notin G}
  OBVIOUS
<1>2. ASSUME T # {} PROVE FALSE
  <2>1. T \subseteq Nat
    BY <1>1
  <2>2. PICK n \in T : \A y \in T : n <= y
    BY <1>2, <2>1, LeastElement
  <2>3. n \in 0..N /\ n \notin G /\ n # 0
    BY <1>1, <2>2
  <2>4. n \in 1..N /\ n - 1 \in 0..N /\ ~(n <= n - 1)
    BY <2>3
  <2>5. n - 1 \in G
    BY <1>1, <2>2, <2>4
  <2> QED  BY <2>3, <2>4, <2>5
<1> QED  BY <1>1, <1>2

(* A loop of N rounds has a state after each of them. *)
Loops(f, N, S, b, step) ==
  /\ f \in [0..N -> S] /\ f[0] = b
  /\ \A n \in 1..N : f[n] = step[n][f[n - 1]]

LEMMA LoopRuns ==
  ASSUME NEW N \in Nat, NEW S, NEW b \in S, NEW step \in [1..N -> [S -> S]]
  PROVE  \E f : Loops(f, N, S, b, step)
<1>1. PICK G : G = {n \in 0..N : \E f : Loops(f, n, S, b, step)}
  OBVIOUS
<1>2. 0 \in G
  <2>1. PICK f : f = [n \in 0..0 |-> b]
    OBVIOUS
  <2>2. f \in [0..0 -> S] /\ f[0] = b /\ 1..0 = {}
    BY <2>1
  <2>3. Loops(f, 0, S, b, step)
    BY <2>2 DEF Loops
  <2> QED  BY <1>1, <2>3
<1>3. ASSUME NEW n \in 1..N, n - 1 \in G PROVE n \in G
  <2>1. PICK f : Loops(f, n - 1, S, b, step)
    BY <1>1, <1>3
  <2>2. f \in [0..(n - 1) -> S] /\ f[0] = b /\ \A i \in 1..(n - 1) : f[i] = step[i][f[i - 1]]
    BY <2>1 DEF Loops
  <2>3. PICK g : g = [i \in 0..n |-> IF i = n THEN step[n][f[n - 1]] ELSE f[i]]
    OBVIOUS
  <2>4. n - 1 \in 0..(n - 1) /\ n \in 0..n /\ 0 # n
    OBVIOUS
  <2>5. step[n][f[n - 1]] \in S
    BY <2>2, <2>4
  <2>6. \A i \in 0..n : i = n \/ i \in 0..(n - 1)
    OBVIOUS
  <2>7. g \in [0..n -> S]
    BY <2>2, <2>3, <2>5, <2>6
  <2>8. g[n] = step[n][f[n - 1]] /\ \A i \in 0..(n - 1) : g[i] = f[i]
    BY <2>3
  <2>9. ASSUME NEW i \in 1..n PROVE g[i] = step[i][g[i - 1]]
    <3>1. i - 1 \in 0..(n - 1) /\ g[i - 1] = f[i - 1]
      BY <2>8
    <3>2. CASE i = n
      BY <2>8, <3>1, <3>2
    <3>3. CASE i # n
      <4>1. i \in 1..(n - 1) /\ i \in 0..(n - 1)
        BY <3>3
      <4> QED  BY <2>2, <2>8, <3>1, <4>1
    <3> QED  BY <3>2, <3>3
  <2>10. Loops(g, n, S, b, step)
    BY <2>2, <2>4, <2>7, <2>8, <2>9 DEF Loops
  <2> QED  BY <1>1, <2>10
<1>4. \A n \in 0..N : n \in G
  BY <1>2, <1>3, EveryRound
<1> QED  BY <1>1, <1>4

(* The elements of a sequence, and its last one. *)
LEMMA ElementOf ==
  ASSUME NEW S, NEW s \in Seq(S), NEW i \in 1..Len(s)
  PROVE  s[i] \in S
OBVIOUS

LEMMA LastOf ==
  ASSUME NEW s, NEW m, Len(s) = m
  PROVE  Last(s) = s[m]
BY DEF Last

(* One sequence after the other. *)
LEMMA Joined ==
  ASSUME NEW S, NEW b \in Seq(S), NEW c \in Seq(S)
  PROVE  /\ b \o c \in Seq(S) /\ Len(b \o c) = Len(b) + Len(c)
         /\ \A i \in 1..Len(b) : (b \o c)[i] = b[i]
         /\ \A j \in 1..Len(c) : (b \o c)[Len(b) + j] = c[j]
<1>1. b \o c \in Seq(S)
  OBVIOUS
<1>2. Len(b \o c) = Len(b) + Len(c)
  OBVIOUS
<1>3. \A i \in 1..Len(b) : (b \o c)[i] = b[i]
  OBVIOUS
<1>4. ASSUME NEW j \in 1..Len(c) PROVE (b \o c)[Len(b) + j] = c[j]
  <2>1. Len(b) \in Nat /\ Len(c) \in Nat
    OBVIOUS
  <2>2. PICK m : m = Len(b) + j
    OBVIOUS
  <2>3. m \in 1..(Len(b) + Len(c)) /\ m > Len(b) /\ m - Len(b) = j
    BY <2>1, <2>2
  <2>4. (b \o c)[m] = c[m - Len(b)]
    BY <2>3
  <2> QED  BY <2>2, <2>3, <2>4
<1> QED  BY <1>1, <1>2, <1>3, <1>4

(* s with e more at place a, and the others in their order. *)
Inserted(s, t, a, e) ==
  /\ Len(t) = Len(s) + 1
  /\ t[a] = e
  /\ \A i \in 1..(a - 1) : t[i] = s[i]
  /\ \A i \in (a + 1)..Len(t) : t[i] = s[i - 1]

LEMMA InsertAtShape ==
  ASSUME NEW S, NEW s \in Seq(S), NEW e \in S, NEW a \in 1..(Len(s) + 1)
  PROVE  InsertAt(s, a, e) \in Seq(S) /\ Inserted(s, InsertAt(s, a, e), a, e)
<1>1. Len(s) \in Nat /\ a \in Nat
  OBVIOUS
<1> DEFINE b == SubSeq(s, 1, a - 1)
           c == SubSeq(s, a, Len(s))
<1>2. /\ b \in Seq(S) /\ Len(b) = a - 1 /\ \A i \in 1..(a - 1) : b[i] = s[i]
      /\ c \in Seq(S) /\ Len(c) = Len(s) - a + 1 /\ \A i \in 1..(Len(s) - a + 1) : c[i] = s[a + i - 1]
  BY <1>1
<1>3. PICK d : d = b \o <<e>>
  OBVIOUS
<1>4. InsertAt(s, a, e) = d \o c
  BY <1>3 DEF InsertAt
<1> HIDE DEF b, c
<1>5. d \in Seq(S) /\ Len(d) = a /\ d[a] = e /\ \A i \in 1..(a - 1) : d[i] = b[i]
  BY <1>1, <1>2, <1>3
<1>6. PICK t : t = d \o c
  OBVIOUS
<1>7. /\ t \in Seq(S) /\ Len(t) = Len(s) + 1
      /\ \A i \in 1..a : t[i] = d[i]
      /\ \A i \in (a + 1)..(Len(s) + 1) : t[i] = c[i - a]
  <2>1. d \in Seq(S) /\ c \in Seq(S)
    BY <1>2, <1>5
  <2>2. /\ t \in Seq(S) /\ Len(t) = Len(d) + Len(c)
        /\ \A i \in 1..Len(d) : t[i] = d[i]
        /\ \A j \in 1..Len(c) : t[Len(d) + j] = c[j]
    BY <1>6, <2>1, Joined
  <2>3. \A i \in (a + 1)..(Len(s) + 1) : i - a \in 1..Len(c) /\ i = Len(d) + (i - a)
    BY <1>1, <1>2, <1>5
  <2>4. \A i \in (a + 1)..(Len(s) + 1) : t[i] = c[i - a]
    BY <2>2, <2>3
  <2>5. Len(t) = Len(s) + 1
    BY <1>1, <1>2, <1>5, <2>2
  <2> QED  BY <1>5, <2>2, <2>4, <2>5
<1>8. \A i \in (a + 1)..(Len(s) + 1) : i - a \in 1..(Len(s) - a + 1) /\ a + (i - a) - 1 = i - 1
  BY <1>1
<1>9. \A i \in (a + 1)..Len(t) : t[i] = s[i - 1]
  BY <1>2, <1>7, <1>8
<1>10. t[a] = e /\ \A i \in 1..(a - 1) : t[i] = s[i]
  BY <1>1, <1>2, <1>5, <1>7
<1> QED  BY <1>4, <1>6, <1>7, <1>9, <1>10 DEF Inserted

(* A part of a sequence. *)
LEMMA PartShape ==
  ASSUME NEW S, NEW s \in Seq(S), NEW a \in 1..(Len(s) + 1), NEW b \in (a - 1)..Len(s)
  PROVE  /\ SubSeq(s, a, b) \in Seq(S) /\ Len(SubSeq(s, a, b)) = b - a + 1
         /\ \A i \in 1..(b - a + 1) : SubSeq(s, a, b)[i] = s[a + i - 1]
<1>1. Len(s) \in Nat /\ a \in Nat /\ b \in Int
  OBVIOUS
<1>2. \A i \in a..b : i \in 1..Len(s)
  BY <1>1
<1>3. SubSeq(s, a, b) \in Seq(S)
  BY <1>1, <1>2
<1>4. Len(SubSeq(s, a, b)) = b - a + 1
  BY <1>1
<1>5. \A i \in 1..(b - a + 1) : SubSeq(s, a, b)[i] = s[a + i - 1]
  BY <1>1
<1> QED  BY <1>3, <1>4, <1>5

(* s without its place a, and the others in their order. *)
LEMMA RemoveAtShape ==
  ASSUME NEW S, NEW s \in Seq(S), NEW a \in 1..Len(s)
  PROVE  /\ RemoveAt(s, a) \in Seq(S) /\ Len(RemoveAt(s, a)) = Len(s) - 1
         /\ \A i \in 1..(Len(s) - 1) : RemoveAt(s, a)[i] = IF i < a THEN s[i] ELSE s[i + 1]
<1>1. Len(s) \in Nat /\ a \in Nat
  OBVIOUS
<1>2. PICK b : b = SubSeq(s, 1, a - 1)
  OBVIOUS
<1>3. PICK c : c = SubSeq(s, a + 1, Len(s))
  OBVIOUS
<1>4. b \in Seq(S) /\ Len(b) = a - 1 /\ \A i \in 1..(a - 1) : b[i] = s[i]
  <2>1. 1 \in 1..(Len(s) + 1) /\ a - 1 \in (1 - 1)..Len(s)
    BY <1>1
  <2>2. /\ b \in Seq(S) /\ Len(b) = (a - 1) - 1 + 1
        /\ \A i \in 1..((a - 1) - 1 + 1) : b[i] = s[1 + i - 1]
    BY <1>2, <2>1, PartShape
  <2>3. (a - 1) - 1 + 1 = a - 1 /\ \A i \in 1..(a - 1) : 1 + i - 1 = i
    BY <1>1
  <2> QED  BY <2>2, <2>3
<1>5. c \in Seq(S) /\ Len(c) = Len(s) - a /\ \A i \in 1..(Len(s) - a) : c[i] = s[a + i]
  <2>1. a + 1 \in 1..(Len(s) + 1) /\ Len(s) \in ((a + 1) - 1)..Len(s)
    BY <1>1
  <2>2. /\ c \in Seq(S) /\ Len(c) = Len(s) - (a + 1) + 1
        /\ \A i \in 1..(Len(s) - (a + 1) + 1) : c[i] = s[(a + 1) + i - 1]
    BY <1>3, <2>1, PartShape
  <2>3. Len(s) - (a + 1) + 1 = Len(s) - a /\ \A i \in 1..(Len(s) - a) : (a + 1) + i - 1 = a + i
    BY <1>1
  <2> QED  BY <2>2, <2>3
<1>6. PICK t : t = b \o c
  OBVIOUS
<1>7. t = RemoveAt(s, a)
  BY <1>2, <1>3, <1>6 DEF RemoveAt
<1>8. /\ t \in Seq(S) /\ Len(t) = Len(b) + Len(c)
      /\ \A i \in 1..Len(b) : t[i] = b[i]
      /\ \A j \in 1..Len(c) : t[Len(b) + j] = c[j]
  <2>1. b \in Seq(S) /\ c \in Seq(S)
    BY <1>4, <1>5
  <2> QED  BY <1>6, <2>1, Joined
<1>9. ASSUME NEW i \in 1..(Len(s) - 1), i < a PROVE t[i] = s[i]
  <2>1. i \in 1..Len(b) /\ i \in 1..(a - 1)
    BY <1>1, <1>4, <1>9
  <2> QED  BY <1>4, <1>8, <2>1
<1>10. ASSUME NEW i \in 1..(Len(s) - 1), ~(i < a) PROVE t[i] = s[i + 1]
  <2>1. PICK j : j = i - (a - 1)
    OBVIOUS
  <2>2. j \in 1..(Len(s) - a) /\ i = Len(b) + j /\ a + j = i + 1 /\ j \in 1..Len(c)
    BY <1>1, <1>4, <1>5, <1>10, <2>1
  <2>3. t[i] = c[j]
    BY <1>8, <2>2
  <2> QED  BY <1>5, <2>2, <2>3
<1>11. Len(t) = Len(s) - 1
  BY <1>1, <1>4, <1>5, <1>8
<1> QED  BY <1>7, <1>8, <1>9, <1>10, <1>11

-----------------------------------------------------------------------------
(* Files.                                                                  *)

(* The size of a file counts its pages. *)
LEMMA FileSize ==
  ASSUME NEW f, NEW n, IsFile(f, n)
  PROVE  Cardinality(DOMAIN f) = n /\ DOMAIN f = 0..(n - 1) /\ n \in Nat
<1>1. n \in Nat /\ DOMAIN f = 0..(n - 1)
  BY DEF IsFile
<1>2. Cardinality(0..(n - 1)) = n
  BY <1>1, FS_Interval
<1> QED  BY <1>1, <1>2

(* g is f with another node at p. *)
Rewritten(f, g, n, p, node) ==
  /\ IsFile(g, n) /\ g[p] = node
  /\ \A q \in 0..(n - 1) : q # p => g[q] = f[q]

LEMMA WithinShape ==
  ASSUME NEW f, NEW n, IsFile(f, n), NEW p \in 0..(n - 1), NEW node \in NodeRecord,
         p = 0 => ~node.leaf
  PROVE  Rewritten(f, With(f, p, node), n, p, node)
<1>1. n \in Nat /\ f \in [0..(n - 1) -> NodeRecord] /\ (n # 0 => ~f[0].leaf)
  BY DEF IsFile
<1>2. PICK g : g = With(f, p, node)
  OBVIOUS
<1>3. DOMAIN f \cup {p} = 0..(n - 1)
  BY <1>1
<1>4. g = [q \in 0..(n - 1) |-> IF q = p THEN node ELSE f[q]]
  BY <1>2, <1>3 DEF With
<1>5. g \in [0..(n - 1) -> NodeRecord]
  BY <1>1, <1>4
<1>6. g[p] = node /\ \A q \in 0..(n - 1) : q # p => g[q] = f[q]
  BY <1>4
<1>7. ~g[0].leaf
  <2>1. 0 \in 0..(n - 1) /\ n # 0
    BY <1>1
  <2> QED  BY <1>1, <1>6, <2>1
<1> QED  BY <1>1, <1>2, <1>5, <1>6, <1>7 DEF Rewritten, IsFile

(* g is f with one page more. *)
Extended(f, g, n, node) ==
  /\ IsFile(g, n + 1) /\ g[n] = node
  /\ \A q \in 0..(n - 1) : g[q] = f[q]

LEMMA BeyondShape ==
  ASSUME NEW f, NEW n, IsFile(f, n), NEW node \in NodeRecord, n = 0 => ~node.leaf
  PROVE  Extended(f, With(f, n, node), n, node)
<1>1. n \in Nat /\ f \in [0..(n - 1) -> NodeRecord] /\ (n # 0 => ~f[0].leaf)
  BY DEF IsFile
<1>2. PICK g : g = With(f, n, node)
  OBVIOUS
<1>3. DOMAIN f \cup {n} = 0..((n + 1) - 1)
  BY <1>1
<1>4. g = [q \in 0..((n + 1) - 1) |-> IF q = n THEN node ELSE f[q]]
  BY <1>2, <1>3 DEF With
<1>5. \A q \in 0..((n + 1) - 1) : q = n \/ q \in 0..(n - 1)
  BY <1>1
<1>6. g \in [0..((n + 1) - 1) -> NodeRecord]
  BY <1>1, <1>4, <1>5
<1>7. n \in 0..((n + 1) - 1) /\ \A q \in 0..(n - 1) : q # n /\ q \in 0..((n + 1) - 1)
  BY <1>1
<1>8. g[n] = node /\ \A q \in 0..(n - 1) : g[q] = f[q]
  BY <1>4, <1>7
<1>9. ~g[0].leaf
  <2>1. CASE n = 0
    BY <1>8, <2>1
  <2>2. CASE n # 0
    <3>1. 0 \in 0..(n - 1)
      BY <1>1, <2>2
    <3> QED  BY <1>1, <1>8, <2>2, <3>1
  <2> QED  BY <2>1, <2>2
<1> QED  BY <1>1, <1>2, <1>6, <1>8, <1>9 DEF Extended, IsFile

(* The page of zeros and the page of the root id are nodes. *)
LEMMA ZeroIsNode == Zero \in NodeRecord /\ Zero.id = 0 /\ ~Zero.leaf
<1>1. <<>> \in Seq(Keys) /\ <<>> \in Seq(Entry) /\ <<0>> \in Seq(Int) /\ 0 \in Int /\ FALSE \in BOOLEAN
  OBVIOUS
<1> QED  BY <1>1 DEF Zero, Node, NodeRecord

LEMMA MetaIsNode ==
  ASSUME NEW r \in Int
  PROVE  Meta(r) \in NodeRecord /\ Meta(r).id = r /\ ~Meta(r).leaf
BY ZeroIsNode DEF Meta, NodeRecord

-----------------------------------------------------------------------------
(* Files in which every descent ends at a leaf.                            *)

(* A node that has its own number is a leaf of the entries in `ok`, or has
   such nodes one level down for children.                                 *)
IsBelow(c, p, f, n, L) == c \in 1..(n - 1) /\ f[c].id = c /\ L[c] = L[p] - 1
Placed(node, p, f, n, L, ok) ==
  /\ node.leaf => L[p] = 0 /\ \A i \in 1..Len(node.entries) : node.entries[i] \in ok
  /\ ~node.leaf => /\ L[p] # 0 /\ Len(node.children) = Len(node.keys) + 1
                   /\ \A i \in 1..Len(node.children) : IsBelow(node.children[i], p, f, n, L)
HasRoot(f, n, L, r) == r \in 1..(n - 1) /\ f[r].id = r /\ L[r] < n
Sound(f, n, L, ok) ==
  /\ IsFile(f, n) /\ n # 0 /\ L \in [1..(n - 1) -> Nat]
  /\ f[0].id # NoPage => HasRoot(f, n, L, f[0].id)
  /\ \A p \in 1..(n - 1) : f[p].id = p => Placed(f[p], p, f, n, L, ok)

Readable(f, ok) == \E n, L : Sound(f, n, L, ok)

(* A page of zeros at the end belongs to no descent. *)
LEMMA SoundWithZeros ==
  ASSUME NEW f, NEW n, NEW L, NEW ok, Sound(f, n, L, ok), NEW l \in Nat, NEW M,
         M = [p \in 1..n |-> IF p = n THEN l ELSE L[p]]
  PROVE  Sound(With(f, n, Zero), n + 1, M, ok)
<1>1. /\ IsFile(f, n) /\ n \in Nat /\ n # 0 /\ L \in [1..(n - 1) -> Nat]
      /\ f[0].id # NoPage => HasRoot(f, n, L, f[0].id)
      /\ \A p \in 1..(n - 1) : f[p].id = p => Placed(f[p], p, f, n, L, ok)
  BY DEF Sound, IsFile
<1>2. PICK g : g = With(f, n, Zero)
  OBVIOUS
<1>3. IsFile(g, n + 1) /\ g[n] = Zero /\ \A q \in 0..(n - 1) : g[q] = f[q]
  BY <1>1, <1>2, BeyondShape, ZeroIsNode DEF Extended
<1>4. (n + 1) - 1 = n /\ n + 1 # 0 /\ 0 \in 0..(n - 1) /\ 0 # n
      /\ \A p \in 1..n : p = n \/ p \in 1..(n - 1)
  BY <1>1
<1>5. \A p \in 1..(n - 1) : p \in 1..n /\ p # n /\ p \in 0..(n - 1)
  BY <1>1
<1>6. M \in [1..n -> Nat] /\ \A p \in 1..(n - 1) : M[p] = L[p]
  BY <1>1, <1>4, <1>5
<1>7. \A c, p \in 1..(n - 1) : IsBelow(c, p, f, n, L) => IsBelow(c, p, g, n + 1, M)
  BY <1>3, <1>4, <1>5, <1>6 DEF IsBelow
<1>8. ASSUME NEW p \in 1..n, g[p].id = p PROVE Placed(g[p], p, g, n + 1, M, ok)
  <2>1. p \in 1..(n - 1)
    BY <1>3, <1>4, <1>8, ZeroIsNode
  <2>2. g[p] = f[p] /\ M[p] = L[p]
    BY <1>3, <1>5, <1>6, <2>1
  <2>3. Placed(f[p], p, f, n, L, ok)
    BY <1>1, <1>8, <2>1, <2>2
  <2>4. ASSUME ~f[p].leaf, NEW i \in 1..Len(f[p].children)
        PROVE  IsBelow(f[p].children[i], p, g, n + 1, M)
    <3>1. PICK c : c = f[p].children[i]
      OBVIOUS
    <3>2. IsBelow(c, p, f, n, L)
      BY <2>3, <2>4, <3>1 DEF Placed
    <3>3. c \in 1..(n - 1)
      BY <3>2 DEF IsBelow
    <3> QED  BY <1>7, <2>1, <3>1, <3>2, <3>3
  <2> QED  BY <2>2, <2>3, <2>4 DEF Placed
<1>9. ASSUME g[0].id # NoPage PROVE HasRoot(g, n + 1, M, g[0].id)
  <2>1. g[0] = f[0]
    BY <1>3, <1>4
  <2>2. PICK r : r = f[0].id
    OBVIOUS
  <2>3. r \in 1..(n - 1) /\ f[r].id = r /\ L[r] < n /\ L[r] \in Nat
    BY <1>1, <1>9, <2>1, <2>2 DEF HasRoot
  <2>4. r \in 1..((n + 1) - 1) /\ g[r] = f[r] /\ M[r] = L[r] /\ L[r] < n + 1
    BY <1>1, <1>3, <1>4, <1>5, <1>6, <2>3
  <2> QED  BY <2>1, <2>2, <2>3, <2>4 DEF HasRoot
<1> QED  BY <1>2, <1>3, <1>4, <1>6, <1>8, <1>9 DEF Sound

(* A node is written whose children are there. *)
LEMMA SoundWithNode ==
  ASSUME NEW f, NEW n, NEW L, NEW ok, Sound(f, n, L, ok),
         NEW p \in 1..(n - 1), NEW node \in NodeRecord, node.id = p,
         Placed(node, p, f, n, L, ok)
  PROVE  Sound(With(f, p, node), n, L, ok)
<1>1. /\ IsFile(f, n) /\ n \in Nat /\ n # 0 /\ L \in [1..(n - 1) -> Nat]
      /\ f[0].id # NoPage => HasRoot(f, n, L, f[0].id)
      /\ \A q \in 1..(n - 1) : f[q].id = q => Placed(f[q], q, f, n, L, ok)
  BY DEF Sound, IsFile
<1>2. PICK g : g = With(f, p, node)
  OBVIOUS
<1>3. p \in 0..(n - 1) /\ 0 \in 0..(n - 1) /\ 0 # p /\ \A q \in 1..(n - 1) : q \in 0..(n - 1)
  BY <1>1
<1>4. IsFile(g, n) /\ g[p] = node /\ \A q \in 0..(n - 1) : q # p => g[q] = f[q]
  <2>1. p = 0 => ~node.leaf
    BY <1>3
  <2>2. Rewritten(f, g, n, p, node)
    BY <1>1, <1>2, <1>3, <2>1, WithinShape
  <2> QED  BY <2>2 DEF Rewritten
<1>5. \A c \in 1..(n - 1) : f[c].id = c => g[c].id = c
  BY <1>3, <1>4
<1>6. \A c, q : IsBelow(c, q, f, n, L) => IsBelow(c, q, g, n, L)
  BY <1>5 DEF IsBelow
<1>7. \A d, q : Placed(d, q, f, n, L, ok) => Placed(d, q, g, n, L, ok)
  BY <1>6 DEF Placed
<1>8. \A q \in 1..(n - 1) : g[q].id = q => Placed(g[q], q, g, n, L, ok)
  <2>1. Placed(g[p], p, g, n, L, ok)
    BY <1>4, <1>7
  <2>2. ASSUME NEW q \in 1..(n - 1), q # p, g[q].id = q PROVE Placed(g[q], q, g, n, L, ok)
    BY <1>1, <1>3, <1>4, <1>7, <2>2
  <2> QED  BY <2>1, <2>2
<1>9. g[0] = f[0]
  BY <1>3, <1>4
<1>10. g[0].id # NoPage => HasRoot(g, n, L, g[0].id)
  BY <1>1, <1>5, <1>9 DEF HasRoot
<1> QED  BY <1>1, <1>2, <1>4, <1>8, <1>10 DEF Sound

(* Page 0 is given another root, that is there. *)
LEMMA SoundWithRoot ==
  ASSUME NEW f, NEW n, NEW L, NEW ok, Sound(f, n, L, ok), NEW r, HasRoot(f, n, L, r)
  PROVE  Sound(With(f, 0, Meta(r)), n, L, ok)
<1>1. /\ IsFile(f, n) /\ n \in Nat /\ n # 0 /\ L \in [1..(n - 1) -> Nat]
      /\ \A q \in 1..(n - 1) : f[q].id = q => Placed(f[q], q, f, n, L, ok)
  BY DEF Sound, IsFile
<1>2. PICK g : g = With(f, 0, Meta(r))
  OBVIOUS
<1>3. r \in 1..(n - 1) /\ f[r].id = r /\ L[r] < n /\ r \in Int
  BY DEF HasRoot
<1>4. 0 \in 0..(n - 1) /\ \A q \in 1..(n - 1) : q \in 0..(n - 1) /\ q # 0
  BY <1>1
<1>5. Meta(r) \in NodeRecord /\ Meta(r).id = r /\ ~Meta(r).leaf
  BY <1>3, MetaIsNode
<1>6. IsFile(g, n) /\ g[0] = Meta(r) /\ \A q \in 0..(n - 1) : q # 0 => g[q] = f[q]
  <2>1. PICK m : m = Meta(r)
    OBVIOUS
  <2>2. m \in NodeRecord /\ (0 = 0 => ~m.leaf) /\ 0 \in 0..(n - 1)
    BY <1>4, <1>5, <2>1
  <2>3. g = With(f, 0, m) /\ IsFile(f, n)
    BY <1>1, <1>2, <2>1
  <2>4. Rewritten(f, g, n, 0, m)
    BY <2>2, <2>3, WithinShape
  <2> QED  BY <2>1, <2>4 DEF Rewritten
<1>7. \A q \in 1..(n - 1) : g[q] = f[q]
  BY <1>4, <1>6
<1>8. \A c, q : IsBelow(c, q, f, n, L) => IsBelow(c, q, g, n, L)
  BY <1>7 DEF IsBelow
<1>9. \A d, q : Placed(d, q, f, n, L, ok) => Placed(d, q, g, n, L, ok)
  BY <1>8 DEF Placed
<1>10. \A q \in 1..(n - 1) : g[q].id = q => Placed(g[q], q, g, n, L, ok)
  BY <1>1, <1>7, <1>9
<1>11. HasRoot(g, n, L, g[0].id)
  BY <1>3, <1>5, <1>6, <1>7 DEF HasRoot
<1> QED  BY <1>1, <1>2, <1>6, <1>10, <1>11 DEF Sound

-----------------------------------------------------------------------------
(* Writes, one after the other, that leave every descent a leaf.           *)

Write == Int \X NodeRecord
Passes(h, f, ws, g, ok) ==
  /\ DOMAIN h = 0..Len(ws) /\ h[0] = f /\ h[Len(ws)] = g
  /\ \A i \in 1..Len(ws) : h[i] = With(h[i - 1], ws[i][1], ws[i][2])
  /\ \A i \in 0..Len(ws) : Readable(h[i], ok)
Leads(f, ws, g, ok) == ws \in Seq(Write) /\ \E h : Passes(h, f, ws, g, ok)

LEMMA LeadsByNone ==
  ASSUME NEW f, NEW ok, Readable(f, ok)
  PROVE  Leads(f, <<>>, f, ok)
<1>1. PICK h : h = [i \in 0..0 |-> f]
  OBVIOUS
<1>2. <<>> \in Seq(Write) /\ Len(<<>>) = 0 /\ 1..0 = {} /\ DOMAIN h = 0..0 /\ h[0] = f
      /\ \A i \in 0..0 : h[i] = f
  BY <1>1
<1>3. Passes(h, f, <<>>, f, ok)
  BY <1>2 DEF Passes
<1> QED  BY <1>2, <1>3 DEF Leads

LEMMA LeadsByOne ==
  ASSUME NEW f, NEW ok, Readable(f, ok), NEW p \in Int, NEW node \in NodeRecord,
         Readable(With(f, p, node), ok)
  PROVE  Leads(f, <<<<p, node>>>>, With(f, p, node), ok)
<1>1. PICK ws : ws = <<<<p, node>>>>
  OBVIOUS
<1>2. PICK g : g = With(f, p, node)
  OBVIOUS
<1>3. PICK h : h = [i \in 0..1 |-> IF i = 0 THEN f ELSE g]
  OBVIOUS
<1>4. <<p, node>> \in Write
  BY DEF Write
<1>5. ws \in Seq(Write) /\ Len(ws) = 1 /\ ws[1] = <<p, node>>
  BY <1>1, <1>4
<1>6. DOMAIN h = 0..1 /\ h[0] = f /\ h[1] = g
  BY <1>3
<1>7. \A i \in 0..1 : i = 0 \/ i = 1
  OBVIOUS
<1>8. \A i \in 1..1 : i = 1 /\ i - 1 = 0
  OBVIOUS
<1>9. \A i \in 1..Len(ws) : h[i] = With(h[i - 1], ws[i][1], ws[i][2])
  <2>1. h[1] = With(h[0], ws[1][1], ws[1][2])
    BY <1>2, <1>5, <1>6
  <2> QED  BY <1>5, <1>8, <2>1
<1>10. \A i \in 0..Len(ws) : Readable(h[i], ok)
  <2>1. Readable(h[0], ok) /\ Readable(h[1], ok)
    BY <1>2, <1>6
  <2> QED  BY <1>5, <1>7, <2>1
<1>11. Passes(h, f, ws, g, ok)
  BY <1>5, <1>6, <1>9, <1>10 DEF Passes
<1> QED  BY <1>1, <1>2, <1>5, <1>11 DEF Leads

LEMMA LeadsByBoth ==
  ASSUME NEW f, NEW v, NEW g, NEW w, NEW k, NEW ok, Leads(f, v, g, ok), Leads(g, w, k, ok)
  PROVE  Leads(f, v \o w, k, ok)
<1>1. v \in Seq(Write) /\ w \in Seq(Write)
  BY DEF Leads
<1>2. PICK a : Passes(a, f, v, g, ok)
  BY DEF Leads
<1>3. PICK b : Passes(b, g, w, k, ok)
  BY DEF Leads
<1>4. PICK m \in Nat : m = Len(v)
  BY <1>1
<1>5. PICK n \in Nat : n = Len(w)
  BY <1>1
<1>6. /\ a[0] = f /\ a[m] = g /\ \A i \in 1..m : a[i] = With(a[i - 1], v[i][1], v[i][2])
      /\ \A i \in 0..m : Readable(a[i], ok)
  BY <1>2, <1>4 DEF Passes
<1>7. /\ b[0] = g /\ b[n] = k /\ \A i \in 1..n : b[i] = With(b[i - 1], w[i][1], w[i][2])
      /\ \A i \in 0..n : Readable(b[i], ok)
  BY <1>3, <1>5 DEF Passes
<1>8. PICK ws : ws = v \o w
  OBVIOUS
<1>9. /\ ws \in Seq(Write) /\ Len(ws) = m + n
      /\ \A i \in 1..m : ws[i] = v[i]
      /\ \A j \in 1..n : ws[m + j] = w[j]
  BY <1>1, <1>4, <1>5, <1>8, Joined
<1>10. PICK h : h = [i \in 0..(m + n) |-> IF i <= m THEN a[i] ELSE b[i - m]]
  OBVIOUS
<1>11. /\ DOMAIN h = 0..(m + n)
       /\ \A i \in 0..m : h[i] = a[i]
  BY <1>10
<1>12. \A j \in 0..n : h[m + j] = b[j]
  <2>1. ASSUME NEW j \in 1..n PROVE h[m + j] = b[j]
    <3>1. m + j \in 0..(m + n) /\ ~(m + j <= m) /\ (m + j) - m = j
      OBVIOUS
    <3> QED  BY <1>10, <3>1
  <2>2. h[m + 0] = b[0]
    <3>1. m + 0 = m /\ m \in 0..m
      OBVIOUS
    <3> QED  BY <1>6, <1>7, <1>11, <3>1
  <2>3. \A j \in 0..n : j = 0 \/ j \in 1..n
    OBVIOUS
  <2> QED  BY <2>1, <2>2, <2>3
<1>13. ASSUME NEW i \in 1..(m + n) PROVE h[i] = With(h[i - 1], ws[i][1], ws[i][2])
  <2>1. CASE i <= m
    <3>1. i \in 1..m /\ i \in 0..m /\ i - 1 \in 0..m
      BY <2>1
    <3> QED  BY <1>6, <1>9, <1>11, <3>1
  <2>2. CASE ~(i <= m)
    <3>1. PICK j : j = i - m
      OBVIOUS
    <3>2. j \in 1..n /\ j \in 0..n /\ j - 1 \in 0..n /\ i = m + j /\ i - 1 = m + (j - 1)
      BY <2>2, <3>1
    <3>3. h[i] = b[j] /\ h[i - 1] = b[j - 1] /\ ws[i] = w[j]
      BY <1>9, <1>12, <3>2
    <3> QED  BY <1>7, <3>2, <3>3
  <2> QED  BY <2>1, <2>2
<1>14. ASSUME NEW i \in 0..(m + n) PROVE Readable(h[i], ok)
  <2>1. CASE i <= m
    <3>1. i \in 0..m
      BY <2>1
    <3> QED  BY <1>6, <1>11, <3>1
  <2>2. CASE ~(i <= m)
    <3>1. PICK j : j = i - m
      OBVIOUS
    <3>2. j \in 0..n /\ i = m + j
      BY <2>2, <3>1
    <3> QED  BY <1>7, <1>12, <3>2
  <2> QED  BY <2>1, <2>2
<1>15. h[0] = f /\ h[m + n] = k
  <2>1. 0 \in 0..m /\ n \in 0..n
    OBVIOUS
  <2> QED  BY <1>6, <1>7, <1>11, <1>12, <2>1
<1>16. Passes(h, f, ws, k, ok)
  BY <1>9, <1>11, <1>13, <1>14, <1>15 DEF Passes
<1> QED  BY <1>8, <1>9, <1>16 DEF Leads

(* What is left after the first of the writes. *)
LEMMA LeadsOn ==
  ASSUME NEW f, NEW ws, NEW g, NEW ok, Leads(f, ws, g, ok)
  PROVE  /\ Readable(f, ok) /\ ws \in Seq(Write)
         /\ ws = <<>> => f = g
         /\ ws # <<>> => Leads(With(f, Head(ws)[1], Head(ws)[2]), Tail(ws), g, ok)
<1>1. ws \in Seq(Write)
  BY DEF Leads
<1>2. PICK a : Passes(a, f, ws, g, ok)
  BY DEF Leads
<1>3. PICK m \in Nat : m = Len(ws)
  BY <1>1
<1>4. /\ a[0] = f /\ a[m] = g /\ \A i \in 1..m : a[i] = With(a[i - 1], ws[i][1], ws[i][2])
      /\ \A i \in 0..m : Readable(a[i], ok)
  BY <1>2, <1>3 DEF Passes
<1>5. Readable(f, ok)
  <2>1. 0 \in 0..m
    OBVIOUS
  <2> QED  BY <1>4, <2>1
<1>6. ws = <<>> => f = g
  <2>1. ws = <<>> => m = 0
    BY <1>3
  <2> QED  BY <1>4, <2>1
<1>7. ASSUME ws # <<>> PROVE Leads(With(f, Head(ws)[1], Head(ws)[2]), Tail(ws), g, ok)
  <2>1. m # 0 /\ Head(ws) = ws[1]
    BY <1>1, <1>3, <1>7
  <2>2. PICK t : t = Tail(ws)
    OBVIOUS
  <2>3. t \in Seq(Write) /\ Len(t) = m - 1 /\ \A i \in 1..(m - 1) : t[i] = ws[i + 1]
    BY <1>1, <1>3, <1>7, <2>2
  <2>4. PICK h : h = [i \in 0..(m - 1) |-> a[i + 1]]
    OBVIOUS
  <2>5. \A i \in 0..(m - 1) : h[i] = a[i + 1] /\ i + 1 \in 0..m
    BY <2>4
  <2>6. h[0] = With(f, Head(ws)[1], Head(ws)[2]) /\ h[m - 1] = g
    <3>1. 0 \in 0..(m - 1) /\ m - 1 \in 0..(m - 1) /\ 1 \in 1..m /\ 0 + 1 = 1 /\ (m - 1) + 1 = m /\ 1 - 1 = 0
      BY <2>1
    <3>2. a[1] = With(a[0], ws[1][1], ws[1][2])
      BY <1>4, <3>1
    <3> QED  BY <1>4, <2>1, <2>5, <3>1, <3>2
  <2>7. ASSUME NEW i \in 1..(m - 1) PROVE h[i] = With(h[i - 1], t[i][1], t[i][2])
    <3>1. i \in 0..(m - 1) /\ i - 1 \in 0..(m - 1) /\ (i - 1) + 1 = i /\ i + 1 \in 1..m /\ (i + 1) - 1 = i
      OBVIOUS
    <3>2. h[i] = a[i + 1] /\ h[i - 1] = a[i] /\ t[i] = ws[i + 1]
      BY <2>3, <2>5, <3>1
    <3>3. a[i + 1] = With(a[i], ws[i + 1][1], ws[i + 1][2])
      BY <1>4, <3>1
    <3> QED  BY <3>2, <3>3
  <2>8. \A i \in 0..(m - 1) : Readable(h[i], ok)
    BY <1>4, <2>5
  <2>9. DOMAIN h = 0..(m - 1)
    BY <2>4
  <2>10. Passes(h, With(f, Head(ws)[1], Head(ws)[2]), t, g, ok)
    BY <2>3, <2>6, <2>7, <2>8, <2>9 DEF Passes
  <2> QED  BY <2>2, <2>3, <2>10 DEF Leads
<1> QED  BY <1>1, <1>5, <1>6, <1>7

-----------------------------------------------------------------------------
(* A tree.                                                                 *)

InOrder(keys) == \A i, j \in 1..Len(keys) : i < j => keys[i] < keys[j]
(* The integers of S whose descent takes the i-th child. *)
Share(keys, S, i) ==
  {k \in S : (i > 1 => keys[i - 1] <= k) /\ (i <= Len(keys) => k < keys[i])}
(* The range that the parent of c means for it: `new` was split from `d`. *)
Meant(R, d, new, c) == IF c = d THEN R[c] \cup R[new] ELSE R[c]

IsInner(node, p, n, L, R, d, new) ==
  /\ L[p] # 0 /\ InOrder(node.keys) /\ Len(node.children) = Len(node.keys) + 1
  /\ \A i \in 1..Len(node.children) :
       LET c == node.children[i]
       IN  c \in 1..(n - 1) /\ L[c] = L[p] - 1 /\ Meant(R, d, new, c) = Share(node.keys, R[p], i)

(* The entries of a leaf are those stored of its range, by key. *)
Ascending(entries) == \A i, j \in 1..Len(entries) : i < j => entries[i][1] < entries[j][1]
Holds(entries, st, S) ==
  /\ Ascending(entries)
  /\ \A i \in 1..Len(entries) :
       LET k == entries[i][1]
       IN  k \in S /\ k \in DOMAIN st /\ entries[i] = <<k, st[k]>>
  /\ \A k \in DOMAIN st : k \in S => \E i \in 1..Len(entries) : entries[i][1] = k

Convex(A) == \A a, b \in A : \A x \in Int : a < x /\ x < b => x \in A
(* The next leaf has the integers right after those of this one. *)
Adjacent(A, B) ==
  /\ \A a \in A, b \in B : a < b
  /\ \A a \in A, b \in B : \A x \in Int : a < x /\ x < b => x \in A \cup B
Endless(A) == \A a \in A : \A x \in Int : a < x => x \in A
IsLinked(f, n, R, p) ==
  /\ \/ f[p].next = NoPage /\ Endless(R[p])
     \/ /\ f[p].next \in 1..(n - 1) /\ f[f[p].next].leaf
        /\ Adjacent(R[p], R[f[p].next]) /\ f[f[p].next].prev = p
  /\ \/ f[p].prev = NoPage
     \/ f[p].prev \in 1..(n - 1) /\ f[f[p].prev].leaf /\ f[f[p].prev].next = p

IsLeaf(f, n, L, R, st, p) == L[p] = 0 /\ Holds(f[p].entries, st, R[p]) /\ IsLinked(f, n, R, p)

(* No page is above level l. *)
NoneHigher(L, n, l) == \A p \in 1..(n - 1) : L[p] <= l
IsTop(r, n, L, R, d, new) ==
  r \in 1..(n - 1) /\ L[r] < n - 1 /\ NoneHigher(L, n, L[r]) /\ Meant(R, d, new, r) = Int

(* The tree of the entries st; d and new are NoPage when no split is under way. *)
IsTree(f, n, L, R, st, d, new) ==
  /\ IsFile(f, n) /\ L \in [1..(n - 1) -> Nat] /\ R \in [1..(n - 1) -> SUBSET Int]
  /\ IsTop(f[0].id, n, L, R, d, new)
  /\ \A p \in 1..(n - 1) : f[p].id = p /\ R[p] # {} /\ Convex(R[p])
  /\ \A p, q \in 1..(n - 1) : p # q /\ L[p] = L[q] => R[p] \cap R[q] = {}
  /\ \A p \in 1..(n - 1) : ~f[p].leaf => IsInner(f[p], p, n, L, R, d, new)
  /\ \A p \in 1..(n - 1) : f[p].leaf => IsLeaf(f, n, L, R, st, p)

(* The entries a process may find. *)
EntriesAllowed(st, e) == {<<k, st[k]>> : k \in DOMAIN st} \cup {e}

(* Every descent of a tree ends at a leaf. *)
LEMMA TreeIsSound ==
  ASSUME NEW f, NEW n, NEW L, NEW R, NEW st, NEW d, NEW new, IsTree(f, n, L, R, st, d, new),
         NEW ok, \A k \in DOMAIN st : <<k, st[k]>> \in ok
  PROVE  Sound(f, n, L, ok)
<1>1. /\ IsFile(f, n) /\ L \in [1..(n - 1) -> Nat]
      /\ f[0].id \in 1..(n - 1) /\ L[f[0].id] < n - 1
      /\ \A p \in 1..(n - 1) : f[p].id = p
      /\ \A p \in 1..(n - 1) : ~f[p].leaf => IsInner(f[p], p, n, L, R, d, new)
      /\ \A p \in 1..(n - 1) : f[p].leaf => IsLeaf(f, n, L, R, st, p)
  BY DEF IsTree, IsTop
<1>2. n \in Nat /\ n # 0
  BY <1>1 DEF IsFile
<1>3. HasRoot(f, n, L, f[0].id)
  <2>1. PICK r : r = f[0].id
    OBVIOUS
  <2>2. r \in 1..(n - 1) /\ f[r].id = r /\ L[r] \in Nat /\ L[r] < n - 1
    BY <1>1, <2>1
  <2> QED  BY <1>2, <2>1, <2>2 DEF HasRoot
<1>4. ASSUME NEW p \in 1..(n - 1) PROVE Placed(f[p], p, f, n, L, ok)
  <2>1. ASSUME f[p].leaf, NEW i \in 1..Len(f[p].entries) PROVE f[p].entries[i] \in ok
    <3>1. Holds(f[p].entries, st, R[p])
      BY <1>1, <2>1 DEF IsLeaf
    <3>2. PICK k : k = f[p].entries[i][1]
      OBVIOUS
    <3>3. k \in DOMAIN st /\ f[p].entries[i] = <<k, st[k]>>
      BY <2>1, <3>1, <3>2 DEF Holds
    <3> QED  BY <3>3
  <2>2. f[p].leaf => L[p] = 0
    BY <1>1 DEF IsLeaf
  <2>3. ASSUME ~f[p].leaf, NEW i \in 1..Len(f[p].children)
        PROVE  IsBelow(f[p].children[i], p, f, n, L)
    <3>1. PICK c : c = f[p].children[i]
      OBVIOUS
    <3>2. c \in 1..(n - 1) /\ L[c] = L[p] - 1
      BY <1>1, <2>3, <3>1 DEF IsInner
    <3> QED  BY <1>1, <3>1, <3>2 DEF IsBelow
  <2>4. ~f[p].leaf => L[p] # 0 /\ Len(f[p].children) = Len(f[p].keys) + 1
    BY <1>1 DEF IsInner
  <2> QED  BY <2>1, <2>2, <2>3, <2>4 DEF Placed
<1> QED  BY <1>1, <1>2, <1>3, <1>4 DEF Sound

-----------------------------------------------------------------------------
(* The descent.                                                            *)

(* The child taken is the first whose separator is greater. *)
LEMMA ChildTaken ==
  ASSUME Parameters, NEW node \in NodeRecord, Len(node.children) = Len(node.keys) + 1, NEW k \in Int
  PROVE  /\ ChildIndex(node, k) \in 1..Len(node.children)
         /\ \A i \in 1..Len(node.keys) : i < ChildIndex(node, k) => node.keys[i] <= k
         /\ ChildIndex(node, k) <= Len(node.keys) => k < node.keys[ChildIndex(node, k)]
<1>1. PICK above : above = {i \in DOMAIN node.keys : k < node.keys[i]}
  OBVIOUS
<1>2. PICK c : c = ChildIndex(node, k)
  OBVIOUS
<1>3. c = IF above = {} THEN Len(node.children) ELSE Min(above)
  BY <1>1, <1>2 DEF ChildIndex
<1>4. node.keys \in Seq(Keys)
  BY DEF NodeRecord
<1>5. /\ Len(node.keys) \in Nat /\ DOMAIN node.keys = 1..Len(node.keys)
      /\ \A i \in 1..Len(node.keys) : node.keys[i] \in Int
  <2>1. Len(node.keys) \in Nat /\ DOMAIN node.keys = 1..Len(node.keys)
    BY <1>4
  <2>2. \A i \in 1..Len(node.keys) : node.keys[i] \in Keys
    BY <1>4, ElementOf
  <2> QED  BY <2>1, <2>2 DEF Parameters
<1>6. above \subseteq 1..Len(node.keys) /\ above \subseteq Nat
  BY <1>1, <1>5
<1>7. CASE above = {}
  <2>1. \A i \in 1..Len(node.keys) : node.keys[i] <= k
    BY <1>1, <1>5, <1>7
  <2>2. c = Len(node.keys) + 1
    BY <1>3, <1>7
  <2> QED  BY <1>2, <1>5, <2>1, <2>2
<1>8. CASE above # {}
  <2>1. c \in above /\ \A y \in above : c <= y
    BY <1>3, <1>6, <1>8, MinOfSet
  <2>2. c \in 1..Len(node.keys) /\ k < node.keys[c]
    BY <1>1, <1>6, <2>1
  <2>3. ASSUME NEW i \in 1..Len(node.keys), i < c PROVE node.keys[i] <= k
    <3>1. i \notin above
      BY <2>1, <2>2, <2>3
    <3> QED  BY <1>1, <1>5, <3>1
  <2> QED  BY <1>2, <1>5, <2>2, <2>3
<1> QED  BY <1>7, <1>8

(* An integer of the range is in the share of the child taken. *)
LEMMA InShareTaken ==
  ASSUME Parameters, NEW node \in NodeRecord, Len(node.children) = Len(node.keys) + 1,
         NEW k \in Int, NEW S, k \in S
  PROVE  k \in Share(node.keys, S, ChildIndex(node, k))
<1>1. PICK c : c = ChildIndex(node, k)
  OBVIOUS
<1>2. /\ c \in 1..Len(node.children)
      /\ \A i \in 1..Len(node.keys) : i < c => node.keys[i] <= k
      /\ c <= Len(node.keys) => k < node.keys[c]
  BY <1>1, ChildTaken
<1>3. node.keys \in Seq(Keys) /\ Len(node.keys) \in Nat
  BY DEF NodeRecord
<1>4. c > 1 => c - 1 \in 1..Len(node.keys) /\ c - 1 < c
  BY <1>2, <1>3
<1> QED  BY <1>1, <1>2, <1>4 DEF Share

(* The first m + 1 pages of the way down to k. *)
Route(ids, k, n, L, m) ==
  /\ ids \in Seq(1..(n - 1)) /\ Len(ids) = m + 1 /\ ids[1] = Root
  /\ \A i \in 1..(m + 1) : pages[ids[i]].id = ids[i] /\ L[ids[i]] = L[Root] + 1 - i
  /\ \A i \in 1..m : /\ ~pages[ids[i]].leaf
                     /\ ids[i + 1] = pages[ids[i]].children[ChildIndex(pages[ids[i]], k)]

LEMMA StepDown ==
  ASSUME Parameters, NEW n, NEW L, NEW ok, Sound(pages, n, L, ok), Root # NoPage,
         NEW k \in Int, NEW m \in Nat, m < L[Root], NEW ids, Route(ids, k, n, L, m)
  PROVE  Route(Down(ids, k), k, n, L, m + 1)
<1>1. /\ IsFile(pages, n) /\ n \in Nat /\ L \in [1..(n - 1) -> Nat] /\ HasRoot(pages, n, L, Root)
      /\ \A q \in 1..(n - 1) : pages[q].id = q => Placed(pages[q], q, pages, n, L, ok)
  BY DEF Sound, IsFile, Root
<1>2. /\ ids \in Seq(1..(n - 1)) /\ Len(ids) = m + 1 /\ ids[1] = Root
      /\ \A i \in 1..(m + 1) : pages[ids[i]].id = ids[i] /\ L[ids[i]] = L[Root] + 1 - i
      /\ \A i \in 1..m : /\ ~pages[ids[i]].leaf
                         /\ ids[i + 1] = pages[ids[i]].children[ChildIndex(pages[ids[i]], k)]
  BY DEF Route
<1>3. PICK p : p = ids[m + 1]
  OBVIOUS
<1>4. m + 1 \in 1..(m + 1) /\ p \in 1..(n - 1) /\ Last(ids) = p
  <2>1. m + 1 \in 1..(m + 1)
    OBVIOUS
  <2>2. p \in 1..(n - 1)
    BY <1>2, <1>3, <2>1, ElementOf
  <2> QED  BY <1>2, <1>3, <2>1, <2>2, LastOf
<1>5. pages[p].id = p /\ L[p] = L[Root] - m /\ L[Root] \in Nat
  <2>1. Root \in 1..(n - 1)
    BY <1>1 DEF HasRoot
  <2>2. L[Root] \in Nat
    BY <1>1, <2>1
  <2>3. L[p] = L[Root] + 1 - (m + 1)
    BY <1>2, <1>3, <1>4
  <2> QED  BY <1>2, <1>3, <1>4, <2>2, <2>3
<1>6. PICK node : node = pages[p]
  OBVIOUS
<1>7. p \in 0..(n - 1) /\ node \in NodeRecord
  BY <1>1, <1>4, <1>6 DEF IsFile
<1>8. Placed(node, p, pages, n, L, ok)
  BY <1>1, <1>4, <1>5, <1>6
<1>9. ~node.leaf /\ Len(node.children) = Len(node.keys) + 1
  BY <1>5, <1>8 DEF Placed
<1>10. PICK c : c = node.children[ChildIndex(node, k)]
  OBVIOUS
<1>11. IsBelow(c, p, pages, n, L)
  BY <1>7, <1>8, <1>9, <1>10, ChildTaken DEF Placed
<1>12. c \in 1..(n - 1) /\ pages[c].id = c /\ L[c] = L[Root] + 1 - (m + 2)
  BY <1>5, <1>11 DEF IsBelow
<1>13. PICK t : t = Append(ids, c)
  OBVIOUS
<1>14. Down(ids, k) = t
  BY <1>4, <1>6, <1>9, <1>10, <1>13 DEF Down
<1>15. /\ t \in Seq(1..(n - 1)) /\ Len(t) = m + 2 /\ t[m + 2] = c
       /\ \A i \in 1..(m + 1) : t[i] = ids[i]
  BY <1>2, <1>12, <1>13
<1>16. \A i \in 1..((m + 1) + 1) : i = m + 2 \/ i \in 1..(m + 1)
  OBVIOUS
<1>17. \A i \in 1..((m + 1) + 1) : pages[t[i]].id = t[i] /\ L[t[i]] = L[Root] + 1 - i
  BY <1>2, <1>12, <1>15, <1>16
<1>18. ASSUME NEW i \in 1..(m + 1)
       PROVE  ~pages[t[i]].leaf /\ t[i + 1] = pages[t[i]].children[ChildIndex(pages[t[i]], k)]
  <2>1. CASE i = m + 1
    <3>1. i + 1 = m + 2 /\ t[i] = p
      BY <1>3, <1>15, <2>1
    <3> QED  BY <1>6, <1>9, <1>10, <1>15, <3>1
  <2>2. CASE i # m + 1
    <3>1. i \in 1..m /\ i + 1 \in 1..(m + 1)
      BY <2>2
    <3> QED  BY <1>2, <1>15, <3>1
  <2> QED  BY <2>1, <2>2
<1>19. 1 \in 1..(m + 1) /\ (m + 1) + 1 = m + 2
  OBVIOUS
<1>20. t[1] = Root
  BY <1>2, <1>15, <1>19
<1> QED  BY <1>14, <1>15, <1>17, <1>18, <1>19, <1>20 DEF Route

(* The way down ends at a leaf, after as many pages as the tree has levels. *)
LEMMA PathShape ==
  ASSUME Parameters, NEW n, NEW L, NEW ok, Sound(pages, n, L, ok), Root # NoPage, NEW k \in Int
  PROVE  /\ Route(Path(k), k, n, L, L[Root])
         /\ L[Root] \in Nat /\ L[Root] < n /\ Root \in 1..(n - 1)
         /\ Last(Path(k)) \in 1..(n - 1) /\ LeafOf(k).leaf /\ LeafOf(k).id = Last(Path(k))
         /\ Last(Path(k)) = Path(k)[L[Root] + 1]
<1>1. /\ IsFile(pages, n) /\ n \in Nat /\ n # 0 /\ L \in [1..(n - 1) -> Nat] /\ HasRoot(pages, n, L, Root)
      /\ \A q \in 1..(n - 1) : pages[q].id = q => Placed(pages[q], q, pages, n, L, ok)
  BY DEF Sound, IsFile, Root
<1>2. /\ Root \in 1..(n - 1) /\ pages[Root].id = Root /\ L[Root] \in Nat /\ L[Root] < n
  BY <1>1 DEF HasRoot
<1>3. PICK H \in Nat : H = L[Root]
  BY <1>2
<1>4. NextPage = n
  BY <1>1, FileSize DEF NextPage
<1>5. PICK S : S = {ids \in Seq(1..(n - 1)) : \E m \in 0..H : Route(ids, k, n, L, m)}
  OBVIOUS
<1>6. PICK b : b = <<Root>>
  OBVIOUS
<1>7. Route(b, k, n, L, 0)
  <2>1. b \in Seq(1..(n - 1)) /\ Len(b) = 1 /\ b[1] = Root
    BY <1>2, <1>6
  <2>2. \A i \in 1..(0 + 1) : i = 1
    OBVIOUS
  <2>3. L[Root] = L[Root] + 1 - 1
    BY <1>2
  <2>4. \A i \in 1..(0 + 1) : pages[b[i]].id = b[i] /\ L[b[i]] = L[Root] + 1 - i
    BY <1>2, <2>1, <2>2, <2>3
  <2>5. 1..0 = {} /\ 0 + 1 = 1
    OBVIOUS
  <2> QED  BY <2>1, <2>4, <2>5 DEF Route
<1>8. ASSUME NEW m \in 0..H, NEW ids, Route(ids, k, n, L, m)
      PROVE  Route(Down(ids, k), k, n, L, IF m < H THEN m + 1 ELSE H)
  <2>1. CASE m < H
    BY <1>3, <1>8, <2>1, <1>2, StepDown
  <2>2. CASE ~(m < H)
    <3>1. m = H
      BY <2>2
    <3>2. /\ ids \in Seq(1..(n - 1)) /\ Len(ids) = H + 1
          /\ \A i \in 1..(H + 1) : pages[ids[i]].id = ids[i] /\ L[ids[i]] = L[Root] + 1 - i
      BY <1>8, <3>1 DEF Route
    <3>3. PICK p : p = ids[H + 1]
      OBVIOUS
    <3>4. H + 1 \in 1..(H + 1) /\ p \in 1..(n - 1) /\ Last(ids) = p
      <4>1. H + 1 \in 1..(H + 1)
        OBVIOUS
      <4>2. p \in 1..(n - 1)
        BY <3>2, <3>3, <4>1, ElementOf
      <4> QED  BY <3>2, <3>3, <4>1, <4>2, LastOf
    <3>5. pages[p].id = p /\ L[p] = 0
      <4>1. pages[p].id = p /\ L[p] = L[Root] + 1 - (H + 1)
        BY <3>2, <3>3, <3>4
      <4> QED  BY <1>3, <4>1
    <3>6. pages[p].leaf
      BY <1>1, <3>4, <3>5 DEF Placed
    <3>7. Down(ids, k) = ids
      BY <3>4, <3>6 DEF Down
    <3> QED  BY <1>8, <2>2, <3>1, <3>7
  <2> QED  BY <2>1, <2>2
<1>9. ASSUME NEW ids \in S PROVE Down(ids, k) \in S
  <2>1. PICK m \in 0..H : Route(ids, k, n, L, m)
    BY <1>5, <1>9
  <2>2. PICK j : j = IF m < H THEN m + 1 ELSE H
    OBVIOUS
  <2>3. j \in 0..H /\ Route(Down(ids, k), k, n, L, j)
    BY <1>8, <2>1, <2>2
  <2>4. Down(ids, k) \in Seq(1..(n - 1))
    BY <2>3 DEF Route
  <2> QED  BY <1>5, <2>3, <2>4
<1>10. PICK step : step = [i \in 1..n |-> [ids \in S |-> Down(ids, k)]]
  OBVIOUS
<1>11. step \in [1..n -> [S -> S]]
  BY <1>9, <1>10
<1>12. b \in S
  <2>1. 0 \in 0..H /\ b \in Seq(1..(n - 1))
    BY <1>7 DEF Route
  <2> QED  BY <1>5, <1>7, <2>1
<1>13. PICK a : Loops(a, n, S, b, step)
  BY <1>1, <1>11, <1>12, LoopRuns
<1>14. a \in [0..n -> S] /\ a[0] = b /\ \A i \in 1..n : a[i] = step[i][a[i - 1]]
  BY <1>13 DEF Loops
<1>15. \A i \in 1..n : a[i] = Down(a[i - 1], k)
  <2>1. ASSUME NEW i \in 1..n PROVE a[i] = Down(a[i - 1], k)
    <3>1. i - 1 \in 0..n
      BY <1>1
    <3>2. a[i - 1] \in S
      BY <1>14, <3>1
    <3> QED  BY <1>10, <1>14, <3>2
  <2> QED  BY <2>1
<1>16. a = [i \in 0..n |-> IF i = 0 THEN <<Root>> ELSE Down(a[i - 1], k)]
  <2>1. \A i \in 0..n : i = 0 \/ (i # 0 /\ i \in 1..n)
    BY <1>1
  <2>2. \A i \in 0..n : a[i] = IF i = 0 THEN <<Root>> ELSE Down(a[i - 1], k)
    BY <1>6, <1>14, <1>15, <2>1
  <2> QED  BY <1>14, <2>2
<1> DEFINE after == CHOOSE g : g = [i \in 0..n |-> IF i = 0 THEN <<Root>> ELSE Down(g[i - 1], k)]
<1>17. Path(k) = after[n]
  BY <1>4 DEF Path
<1>18. after = [i \in 0..n |-> IF i = 0 THEN <<Root>> ELSE Down(after[i - 1], k)]
  BY <1>16
<1> HIDE DEF after
<1>19. PICK g : g = after
  OBVIOUS
<1>20. g[0] = b /\ \A i \in 1..n : g[i] = Down(g[i - 1], k)
  <2>1. 0 \in 0..n /\ \A i \in 1..n : i \in 0..n /\ i # 0
    BY <1>1
  <2> QED  BY <1>6, <1>18, <1>19, <2>1
<1>21. PICK G : G = {i \in 0..n : Route(g[i], k, n, L, IF i < H THEN i ELSE H)}
  OBVIOUS
<1>22. 0 \in G
  <2>1. 0 \in 0..n /\ (IF 0 < H THEN 0 ELSE H) = 0
    BY <1>1
  <2> QED  BY <1>7, <1>20, <1>21, <2>1
<1>23. ASSUME NEW i \in 1..n, i - 1 \in G PROVE i \in G
  <2>1. PICK m : m = IF i - 1 < H THEN i - 1 ELSE H
    OBVIOUS
  <2>2. m \in 0..H /\ Route(g[i - 1], k, n, L, m)
    BY <1>21, <1>23, <2>1
  <2>3. Route(g[i], k, n, L, IF m < H THEN m + 1 ELSE H)
    BY <1>8, <1>20, <2>2
  <2>4. (IF m < H THEN m + 1 ELSE H) = (IF i < H THEN i ELSE H)
    BY <2>1
  <2>5. i \in 0..n
    BY <1>1
  <2> QED  BY <1>21, <2>3, <2>4, <2>5
<1>24. \A i \in 0..n : i \in G
  BY <1>1, <1>22, <1>23, EveryRound
<1>25. Route(Path(k), k, n, L, H)
  <2>1. n \in 0..n /\ (IF n < H THEN n ELSE H) = H
    BY <1>1, <1>2, <1>3
  <2> QED  BY <1>17, <1>19, <1>21, <1>24, <2>1
<1>26. /\ Path(k) \in Seq(1..(n - 1)) /\ Len(Path(k)) = H + 1
       /\ \A i \in 1..(H + 1) : pages[Path(k)[i]].id = Path(k)[i] /\ L[Path(k)[i]] = L[Root] + 1 - i
  BY <1>25 DEF Route
<1>27. PICK p : p = Path(k)[H + 1]
  OBVIOUS
<1>28. H + 1 \in 1..(H + 1) /\ p \in 1..(n - 1) /\ Last(Path(k)) = p
  <2>1. H + 1 \in 1..(H + 1)
    OBVIOUS
  <2>2. p \in 1..(n - 1)
    BY <1>26, <1>27, <2>1, ElementOf
  <2> QED  BY <1>26, <1>27, <2>1, <2>2, LastOf
<1>29. pages[p].id = p /\ L[p] = 0
  <2>1. pages[p].id = p /\ L[p] = L[Root] + 1 - (H + 1)
    BY <1>26, <1>27, <1>28
  <2> QED  BY <1>3, <2>1
<1>30. pages[p].leaf
  BY <1>1, <1>28, <1>29 DEF Placed
<1> QED  BY <1>2, <1>3, <1>25, <1>27, <1>28, <1>29, <1>30 DEF LeafOf

(* What a descent leads to may be found. *)
LEMMA ReadableDescends ==
  ASSUME Parameters, NEW ok, Readable(pages, ok), NEW k \in Int
  PROVE  /\ Descends(k)
         /\ Search(k) = NoRid \/ <<k, Search(k)>> \in ok
<1>1. PICK n, L : Sound(pages, n, L, ok)
  BY DEF Readable
<1>2. CASE Root = NoPage
  BY <1>2 DEF Descends, Search
<1>3. CASE Root # NoPage
  <2>1. /\ Last(Path(k)) \in 1..(n - 1) /\ LeafOf(k).leaf /\ LeafOf(k).id = Last(Path(k))
    BY <1>1, <1>3, PathShape
  <2>2. PICK p \in 1..(n - 1) : p = Last(Path(k))
    BY <2>1
  <2>3. /\ IsFile(pages, n) /\ n \in Nat
        /\ \A q \in 1..(n - 1) : pages[q].id = q => Placed(pages[q], q, pages, n, L, ok)
    BY <1>1 DEF Sound, IsFile
  <2>4. PICK leaf : leaf = LeafOf(k)
    OBVIOUS
  <2>5. leaf = pages[p] /\ leaf.leaf /\ leaf.id = p
    BY <2>1, <2>2, <2>4 DEF LeafOf
  <2>6. leaf \in NodeRecord
    BY <2>3, <2>5 DEF IsFile
  <2>7. \A i \in 1..Len(leaf.entries) : leaf.entries[i] \in ok
    BY <2>3, <2>5 DEF Placed
  <2>8. PICK es : es = leaf.entries
    OBVIOUS
  <2>9. es \in Seq(Entry)
    BY <2>6, <2>8 DEF NodeRecord
  <2>10. PICK T : T = {i \in DOMAIN es : es[i][1] = k}
    OBVIOUS
  <2>11. DOMAIN es = 1..Len(es) /\ T \subseteq 1..Len(es) /\ T \subseteq Nat
    BY <2>9, <2>10
  <2>12. Search(k) = IF RidsIn(es, k) = {} THEN NoRid ELSE es[Min(T)][2]
    BY <1>3, <2>4, <2>8, <2>10 DEF Search
  <2>13. Descends(k)
    BY <2>1 DEF Descends
  <2>14. CASE T = {}
    <3>1. RidsIn(es, k) = {}
      BY <2>10, <2>14 DEF RidsIn
    <3> QED  BY <2>12, <2>13, <3>1
  <2>15. CASE T # {}
    <3>1. RidsIn(es, k) # {}
      BY <2>10, <2>15 DEF RidsIn
    <3>2. Min(T) \in T
      BY <2>11, <2>15, MinOfSet
    <3>3. PICK i \in 1..Len(es) : i = Min(T) /\ es[i][1] = k
      BY <2>10, <2>11, <3>2
    <3>4. es[i] \in Entry /\ es[i] \in ok
      BY <2>7, <2>8, <2>9, <3>3, ElementOf
    <3>5. es[i] = <<es[i][1], es[i][2]>>
      BY <3>4 DEF Entry
    <3> QED  BY <2>12, <2>13, <3>1, <3>3, <3>4, <3>5
  <2> QED  BY <2>14, <2>15
<1> QED  BY <1>2, <1>3

-----------------------------------------------------------------------------
(* Ranges along the way down.                                              *)

(* The shares of two children have no integer in common. *)
LEMMA SharesApart ==
  ASSUME Parameters, NEW keys \in Seq(Keys), InOrder(keys), NEW S \in SUBSET Int,
         NEW i \in 1..(Len(keys) + 1), NEW j \in 1..(Len(keys) + 1), i < j
  PROVE  \A k \in Share(keys, S, i) : k \notin Share(keys, S, j)
<1>1. Len(keys) \in Nat /\ i \in 1..Len(keys) /\ j - 1 \in 1..Len(keys)
  OBVIOUS
<1>2. \A a \in 1..Len(keys) : keys[a] \in Int
  BY ElementOf DEF Parameters
<1>3. keys[i] <= keys[j - 1]
  <2>1. CASE i = j - 1
    BY <1>1, <1>2, <2>1
  <2>2. CASE i # j - 1
    <3>1. i < j - 1
      BY <1>1, <2>2
    <3> QED  BY <1>1, <1>2, <3>1 DEF InOrder
  <2> QED  BY <2>1, <2>2
<1>4. ASSUME NEW k \in Share(keys, S, i), k \in Share(keys, S, j) PROVE FALSE
  <2>1. k \in Int /\ k < keys[i]
    BY <1>1 DEF Share
  <2>2. keys[j - 1] <= k
    BY <1>1, <1>4 DEF Share
  <2>3. keys[i] \in Int /\ keys[j - 1] \in Int
    BY <1>1, <1>2
  <2> QED  BY <1>3, <2>1, <2>2, <2>3
<1> QED  BY <1>4

LEMMA OneShareOnly ==
  ASSUME Parameters, NEW keys \in Seq(Keys), InOrder(keys), NEW S \in SUBSET Int,
         NEW i \in 1..(Len(keys) + 1), NEW j \in 1..(Len(keys) + 1),
         NEW k, k \in Share(keys, S, i), k \in Share(keys, S, j)
  PROVE  i = j
<1>1. CASE i < j
  BY <1>1, SharesApart
<1>2. CASE j < i
  BY <1>2, SharesApart
<1>3. i \in Nat /\ j \in Nat
  OBVIOUS
<1> QED  BY <1>1, <1>2, <1>3

(* What is known of each page of a tree. *)
LEMMA TreeShape ==
  ASSUME NEW f, NEW n, NEW L, NEW R, NEW st, NEW d, NEW new, IsTree(f, n, L, R, st, d, new)
  PROVE  /\ IsFile(f, n) /\ n \in Nat /\ n # 0
         /\ L \in [1..(n - 1) -> Nat] /\ R \in [1..(n - 1) -> SUBSET Int]
         /\ f[0].id \in 1..(n - 1) /\ L[f[0].id] < n - 1 /\ Meant(R, d, new, f[0].id) = Int
         /\ f[0].id # NoPage
         /\ \A p \in 1..(n - 1) : p \in 0..(n - 1) /\ f[p] \in NodeRecord /\ f[p].id = p /\ R[p] # {} /\ Convex(R[p])
         /\ \A p, q \in 1..(n - 1) : p # q /\ L[p] = L[q] => R[p] \cap R[q] = {}
         /\ \A p \in 1..(n - 1) : ~f[p].leaf => IsInner(f[p], p, n, L, R, d, new)
         /\ \A p \in 1..(n - 1) : f[p].leaf => IsLeaf(f, n, L, R, st, p)
<1>1. /\ IsFile(f, n) /\ L \in [1..(n - 1) -> Nat] /\ R \in [1..(n - 1) -> SUBSET Int]
      /\ f[0].id \in 1..(n - 1) /\ L[f[0].id] < n - 1 /\ Meant(R, d, new, f[0].id) = Int
      /\ \A p \in 1..(n - 1) : f[p].id = p /\ R[p] # {} /\ Convex(R[p])
      /\ \A p, q \in 1..(n - 1) : p # q /\ L[p] = L[q] => R[p] \cap R[q] = {}
      /\ \A p \in 1..(n - 1) : ~f[p].leaf => IsInner(f[p], p, n, L, R, d, new)
      /\ \A p \in 1..(n - 1) : f[p].leaf => IsLeaf(f, n, L, R, st, p)
  BY DEF IsTree, IsTop
<1>2. n \in Nat /\ n # 0 /\ f \in [0..(n - 1) -> NodeRecord]
  BY <1>1 DEF IsFile
<1>3. f[0].id # NoPage
  BY <1>1 DEF NoPage
<1>4. \A p \in 1..(n - 1) : p \in 0..(n - 1)
  BY <1>2
<1>5. \A p \in 1..(n - 1) : f[p] \in NodeRecord
  BY <1>2, <1>4
<1> QED  BY <1>1, <1>2, <1>3, <1>4, <1>5

LEMMA TreeTop ==
  ASSUME NEW f, NEW n, NEW L, NEW R, NEW st, NEW d, NEW new, IsTree(f, n, L, R, st, d, new)
  PROVE  NoneHigher(L, n, L[f[0].id])
BY DEF IsTree, IsTop

(* Outside a split, the share of a child is its range. *)
LEMMA InnerShape ==
  ASSUME NEW f, NEW n, NEW L, NEW R, NEW st, IsTree(f, n, L, R, st, NoPage, NoPage),
         NEW p \in 1..(n - 1), ~f[p].leaf
  PROVE  /\ L[p] # 0 /\ InOrder(f[p].keys) /\ Len(f[p].children) = Len(f[p].keys) + 1
         /\ \A i \in 1..Len(f[p].children) :
              /\ f[p].children[i] \in 1..(n - 1) /\ L[f[p].children[i]] = L[p] - 1
              /\ R[f[p].children[i]] = Share(f[p].keys, R[p], i)
<1>1. IsInner(f[p], p, n, L, R, NoPage, NoPage)
  BY DEF IsTree, IsTop
<1>2. ASSUME NEW i \in 1..Len(f[p].children)
      PROVE  /\ f[p].children[i] \in 1..(n - 1) /\ L[f[p].children[i]] = L[p] - 1
             /\ R[f[p].children[i]] = Share(f[p].keys, R[p], i)
  <2>1. PICK c : c = f[p].children[i]
    OBVIOUS
  <2>2. c \in 1..(n - 1) /\ L[c] = L[p] - 1 /\ Meant(R, NoPage, NoPage, c) = Share(f[p].keys, R[p], i)
    BY <1>1, <2>1 DEF IsInner
  <2>3. c # NoPage
    BY <2>2 DEF NoPage
  <2> QED  BY <2>1, <2>2, <2>3 DEF Meant
<1> QED  BY <1>1, <1>2 DEF IsInner

(* The way down to k passes through pages with k in their range. *)
LEMMA RouteRanges ==
  ASSUME Parameters, NEW n, NEW L, NEW R, NEW st, IsTree(pages, n, L, R, st, NoPage, NoPage),
         NEW k \in Int, NEW ids, NEW m \in Nat, Route(ids, k, n, L, m)
  PROVE  \A i \in 1..(m + 1) : ids[i] \in 1..(n - 1) /\ k \in R[ids[i]]
<1>1. /\ IsFile(pages, n) /\ n \in Nat /\ Root \in 1..(n - 1)
      /\ Meant(R, NoPage, NoPage, Root) = Int /\ Root # NoPage
      /\ \A p \in 1..(n - 1) : pages[p] \in NodeRecord
  BY TreeShape DEF Root
<1>2. /\ ids \in Seq(1..(n - 1)) /\ Len(ids) = m + 1 /\ ids[1] = Root
      /\ \A i \in 1..m : /\ ~pages[ids[i]].leaf
                         /\ ids[i + 1] = pages[ids[i]].children[ChildIndex(pages[ids[i]], k)]
  BY DEF Route
<1>3. \A i \in 1..(m + 1) : ids[i] \in 1..(n - 1)
  BY <1>2, ElementOf
<1>4. PICK G : G = {i \in 0..m : k \in R[ids[i + 1]]}
  OBVIOUS
<1>5. 0 \in G
  <2>1. R[Root] = Int
    BY <1>1 DEF Meant
  <2>2. 0 \in 0..m /\ 0 + 1 = 1
    OBVIOUS
  <2> QED  BY <1>2, <1>4, <2>1, <2>2
<1>6. ASSUME NEW i \in 1..m, i - 1 \in G PROVE i \in G
  <2>1. PICK p : p = ids[i]
    OBVIOUS
  <2>2. i \in 1..(m + 1) /\ (i - 1) + 1 = i /\ i \in 0..m
    OBVIOUS
  <2>3. p \in 1..(n - 1) /\ k \in R[p] /\ ~pages[p].leaf /\ pages[p] \in NodeRecord
    BY <1>1, <1>2, <1>3, <1>4, <1>6, <2>1, <2>2
  <2>4. /\ Len(pages[p].children) = Len(pages[p].keys) + 1
        /\ \A j \in 1..Len(pages[p].children) :
             R[pages[p].children[j]] = Share(pages[p].keys, R[p], j)
    BY <2>3, InnerShape
  <2>5. PICK c : c = ChildIndex(pages[p], k)
    OBVIOUS
  <2>6. c \in 1..Len(pages[p].children) /\ k \in Share(pages[p].keys, R[p], c)
    BY <2>3, <2>4, <2>5, ChildTaken, InShareTaken
  <2>7. ids[i + 1] = pages[p].children[c]
    BY <1>2, <2>1, <2>5
  <2> QED  BY <1>4, <2>2, <2>4, <2>6, <2>7
<1>7. \A i \in 0..m : i \in G
  BY <1>5, <1>6, EveryRound
<1>8. ASSUME NEW i \in 1..(m + 1) PROVE k \in R[ids[i]]
  <2>1. i - 1 \in 0..m /\ (i - 1) + 1 = i
    OBVIOUS
  <2>2. i - 1 \in G
    BY <1>7, <2>1
  <2> QED  BY <1>4, <2>1, <2>2
<1> QED  BY <1>3, <1>8

(* The leaf a key leads to, and what it says of the key. *)
LEMMA LeafReached ==
  ASSUME Parameters, NEW n, NEW L, NEW R, NEW st, IsTree(pages, n, L, R, st, NoPage, NoPage),
         NEW k \in Int
  PROVE  \E p \in 1..(n - 1) :
           /\ Route(Path(k), k, n, L, L[Root]) /\ L[Root] \in Nat /\ p = Path(k)[L[Root] + 1]
           /\ Root # NoPage
           /\ p = Last(Path(k)) /\ LeafOf(k) = pages[p] /\ pages[p].leaf /\ k \in R[p]
<1>1. PICK ok : ok = {<<x, st[x]>> : x \in DOMAIN st}
  OBVIOUS
<1>2. Sound(pages, n, L, ok) /\ Root # NoPage
  <2>1. \A x \in DOMAIN st : <<x, st[x]>> \in ok
    BY <1>1
  <2>2. Sound(pages, n, L, ok)
    BY <2>1, TreeIsSound
  <2> QED  BY <2>2, TreeShape DEF Root
<1>3. /\ Route(Path(k), k, n, L, L[Root]) /\ L[Root] \in Nat
      /\ Last(Path(k)) \in 1..(n - 1) /\ LeafOf(k).leaf /\ Last(Path(k)) = Path(k)[L[Root] + 1]
  BY <1>2, PathShape
<1>4. PICK p \in 1..(n - 1) : p = Last(Path(k))
  BY <1>3
<1>5. LeafOf(k) = pages[p]
  BY <1>4 DEF LeafOf
<1>6. PICK m \in Nat : m = L[Root]
  BY <1>3
<1>7. k \in R[p]
  <2>1. \A i \in 1..(m + 1) : k \in R[Path(k)[i]]
    BY <1>3, <1>6, RouteRanges
  <2>2. m + 1 \in 1..(m + 1)
    OBVIOUS
  <2> QED  BY <1>3, <1>4, <1>6, <2>1, <2>2
<1> QED  BY <1>2, <1>3, <1>4, <1>5, <1>7

(* Search finds in it the key that is stored, and no other. *)
LEMMA TreeAnswers ==
  ASSUME Parameters, NEW n, NEW L, NEW R, NEW st, IsTree(pages, n, L, R, st, NoPage, NoPage),
         NEW k \in Int
  PROVE  /\ Descends(k)
         /\ k \in DOMAIN st => Search(k) = st[k]
         /\ k \notin DOMAIN st => Search(k) = NoRid
<1>1. PICK p \in 1..(n - 1) :
        Root # NoPage /\ LeafOf(k) = pages[p] /\ pages[p].leaf /\ k \in R[p]
  BY LeafReached
<1>2. pages[p] \in NodeRecord /\ IsLeaf(pages, n, L, R, st, p)
  BY <1>1, TreeShape
<1>3. PICK es : es = pages[p].entries
  OBVIOUS
<1>4. es \in Seq(Entry) /\ Holds(es, st, R[p])
  BY <1>2, <1>3 DEF NodeRecord, IsLeaf
<1>5. PICK T : T = {i \in DOMAIN es : es[i][1] = k}
  OBVIOUS
<1>6. DOMAIN es = 1..Len(es) /\ T \subseteq 1..Len(es) /\ T \subseteq Nat
  BY <1>4, <1>5
<1>7. Search(k) = IF RidsIn(es, k) = {} THEN NoRid ELSE es[Min(T)][2]
  BY <1>1, <1>3, <1>5 DEF Search
<1>8. (RidsIn(es, k) = {}) <=> (T = {})
  BY <1>5 DEF RidsIn
<1>9. ASSUME k \in DOMAIN st PROVE Search(k) = st[k]
  <2>1. PICK i \in 1..Len(es) : es[i][1] = k
    BY <1>1, <1>4, <1>9 DEF Holds
  <2>2. T # {}
    BY <1>5, <1>6, <2>1
  <2>3. Min(T) \in T
    BY <1>6, <2>2, MinOfSet
  <2>4. PICK j \in 1..Len(es) : j = Min(T) /\ es[j][1] = k
    BY <1>5, <1>6, <2>3
  <2>5. es[j] = <<k, st[k]>>
    BY <1>4, <2>4 DEF Holds
  <2> QED  BY <1>7, <1>8, <2>2, <2>4, <2>5
<1>10. ASSUME k \notin DOMAIN st PROVE Search(k) = NoRid
  <2>1. ASSUME NEW i \in T PROVE FALSE
    <3>1. i \in 1..Len(es) /\ es[i][1] = k
      BY <1>5, <1>6
    <3> QED  BY <1>4, <1>10, <3>1 DEF Holds
  <2> QED  BY <1>7, <1>8, <2>1
<1> QED  BY <1>1, <1>9, <1>10 DEF Descends

-----------------------------------------------------------------------------
(* Entries of a leaf.                                                      *)

(* A part of 1..n that goes on to the left is the first part, and its size tells where it ends. *)
LEMMA FirstPart ==
  ASSUME NEW n \in Nat, NEW D \in SUBSET (1..n),
         \A i, j \in 1..n : i < j /\ j \in D => i \in D
  PROVE  D = 1..Cardinality(D)
<1>1. PICK T : T = {j \in 1..(n + 1) : j \notin D}
  OBVIOUS
<1>2. T \subseteq Nat /\ n + 1 \in T
  BY <1>1
<1>3. PICK x \in T : \A y \in T : x <= y
  BY <1>2, LeastElement
<1>4. x \in 1..(n + 1) /\ x \notin D
  BY <1>1, <1>3
<1>5. ASSUME NEW y \in 1..(x - 1) PROVE y \in D
  <2>1. y \in 1..(n + 1) /\ y < x
    BY <1>4
  <2> QED  BY <1>1, <1>3, <2>1
<1>6. ASSUME NEW y \in D PROVE y \in 1..(x - 1)
  <2>1. y \in 1..n /\ y # x
    BY <1>4
  <2>2. CASE x < y
    <3>1. x \in 1..n
      BY <1>4, <2>1, <2>2
    <3> QED  BY <1>4, <2>1, <2>2, <3>1
  <2> QED  BY <1>4, <2>1, <2>2
<1>7. D = 1..(x - 1)
  BY <1>5, <1>6
<1>8. Cardinality(1..(x - 1)) = x - 1
  BY <1>4, FS_Interval
<1> QED  BY <1>7, <1>8

(* The keys of the entries of a leaf. *)
LEMMA KeyOf ==
  ASSUME Parameters, NEW es \in Seq(Entry)
  PROVE  /\ Len(es) \in Nat /\ DOMAIN es = 1..Len(es)
         /\ \A i \in 1..Len(es) : es[i] \in Entry /\ es[i][1] \in Keys /\ es[i][1] \in Int
<1>1. Len(es) \in Nat /\ DOMAIN es = 1..Len(es)
  OBVIOUS
<1>2. \A i \in 1..Len(es) : es[i] \in Entry
  BY ElementOf
<1>3. \A i \in 1..Len(es) : es[i][1] \in Keys
  BY <1>2 DEF Entry
<1>4. \A i \in 1..Len(es) : es[i][1] \in Int
  BY <1>3 DEF Parameters
<1> QED  BY <1>1, <1>2, <1>3, <1>4

(* As many entries as there are before k have a smaller key. *)
LEMMA BeforeShape ==
  ASSUME Parameters, NEW es \in Seq(Entry), Ascending(es), NEW k \in Int
  PROVE  /\ Before(es, k) \in 0..Len(es)
         /\ \A i \in 1..Len(es) : i <= Before(es, k) => es[i][1] < k
         /\ \A i \in 1..Len(es) : i > Before(es, k) => k <= es[i][1]
<1>1. PICK n : n = Len(es)
  OBVIOUS
<1>2. n \in Nat /\ DOMAIN es = 1..n /\ \A i \in 1..n : es[i][1] \in Int
  BY <1>1, KeyOf
<1>3. PICK D : D = {i \in DOMAIN es : es[i][1] < k}
  OBVIOUS
<1>4. D \in SUBSET (1..n)
  BY <1>2, <1>3
<1>5. ASSUME NEW i \in 1..n, NEW j \in 1..n, i < j, j \in D PROVE i \in D
  <2>1. es[i][1] < es[j][1] /\ es[j][1] < k
    BY <1>1, <1>3, <1>5 DEF Ascending
  <2>2. es[i][1] < k
    BY <1>2, <2>1
  <2> QED  BY <1>2, <1>3, <2>2
<1>6. D = 1..Cardinality(D)
  BY <1>2, <1>4, <1>5, FirstPart
<1>7. PICK c : c = Cardinality(D)
  OBVIOUS
<1>8. Before(es, k) = c
  BY <1>3, <1>7 DEF Before
<1>9. c \in Nat
  <2>1. IsFiniteSet(1..n)
    BY <1>2, FS_Interval
  <2>2. IsFiniteSet(D)
    BY <1>4, <2>1, FS_Subset
  <2> QED  BY <1>7, <2>2, FS_CardinalityType
<1>10. c <= n
  <2>1. ASSUME c > n PROVE FALSE
    <3>1. c \in 1..c
      BY <1>2, <1>9, <2>1
    <3>2. c \in 1..n
      BY <1>4, <1>6, <1>7, <3>1
    <3> QED  BY <1>2, <2>1, <3>2
  <2> QED  BY <1>2, <1>9, <2>1
<1>11. ASSUME NEW i \in 1..n, i <= c PROVE es[i][1] < k
  <2>1. i \in 1..c
    BY <1>9, <1>11
  <2>2. i \in D
    BY <1>6, <1>7, <2>1
  <2> QED  BY <1>3, <2>2
<1>12. ASSUME NEW i \in 1..n, i > c PROVE k <= es[i][1]
  <2>1. i \notin 1..c
    BY <1>9, <1>12
  <2>2. i \notin D
    BY <1>6, <1>7, <2>1
  <2>3. ~(es[i][1] < k)
    BY <1>2, <1>3, <2>2
  <2> QED  BY <1>2, <2>3
<1>13. c \in 0..n
  BY <1>2, <1>9, <1>10
<1> QED  BY <1>1, <1>8, <1>11, <1>12, <1>13

(* A key that is not of the leaf is none of its business. *)
LEMMA HoldsElsewhere ==
  ASSUME NEW es, NEW st, NEW S, Holds(es, st, S), NEW k, k \notin S, NEW r
  PROVE  Holds(es, With(st, k, r), S)
<1>1. PICK st2 : st2 = With(st, k, r)
  OBVIOUS
<1>2. DOMAIN st2 = DOMAIN st \cup {k} /\ \A x \in DOMAIN st : x # k => st2[x] = st[x]
  BY <1>1 DEF With
<1>3. ASSUME NEW i \in 1..Len(es)
      PROVE  es[i][1] \in S /\ es[i][1] \in DOMAIN st2 /\ es[i] = <<es[i][1], st2[es[i][1]]>>
  <2>1. PICK x : x = es[i][1]
    OBVIOUS
  <2>2. x \in S /\ x \in DOMAIN st /\ es[i] = <<x, st[x]>>
    BY <2>1 DEF Holds
  <2>3. x \in DOMAIN st2 /\ st2[x] = st[x]
    BY <1>2, <2>2
  <2> QED  BY <2>1, <2>2, <2>3
<1>4. \A x \in DOMAIN st2 : x \in S => \E i \in 1..Len(es) : es[i][1] = x
  BY <1>2 DEF Holds
<1> QED  BY <1>1, <1>3, <1>4 DEF Holds

(* An entry takes its place in its leaf. *)
LEMMA EntryAdded ==
  ASSUME Parameters, NEW es \in Seq(Entry), NEW st, NEW S, Holds(es, st, S),
         NEW k \in Keys, NEW r \in Rids, k \notin DOMAIN st, k \in S
  PROVE  /\ InsertAt(es, Before(es, k) + 1, <<k, r>>) \in Seq(Entry)
         /\ Len(InsertAt(es, Before(es, k) + 1, <<k, r>>)) = Len(es) + 1
         /\ Holds(InsertAt(es, Before(es, k) + 1, <<k, r>>), With(st, k, r), S)
<1>1. PICK n : n = Len(es)
  OBVIOUS
<1>2. /\ n \in Nat /\ DOMAIN es = 1..n
      /\ \A i \in 1..n : es[i] \in Entry /\ es[i][1] \in Keys /\ es[i][1] \in Int
  BY <1>1, KeyOf
<1>3. k \in Int
  BY DEF Parameters
<1>4. Ascending(es)
  BY DEF Holds
<1>5. PICK c : c = Before(es, k)
  OBVIOUS
<1>6. c \in 0..n
  BY <1>1, <1>3, <1>4, <1>5, BeforeShape
<1>7. /\ \A i \in 1..n : i <= c => es[i][1] < k
      /\ \A i \in 1..n : i > c => k <= es[i][1]
  BY <1>1, <1>3, <1>4, <1>5, BeforeShape
<1>8. PICK t : t = InsertAt(es, c + 1, <<k, r>>)
  OBVIOUS
<1>9. <<k, r>> \in Entry
  BY DEF Entry
<1>10. c + 1 \in 1..(Len(es) + 1)
  BY <1>1, <1>2, <1>6
<1>11. t \in Seq(Entry) /\ Inserted(es, t, c + 1, <<k, r>>)
  BY <1>8, <1>9, <1>10, InsertAtShape
<1>12. /\ Len(t) = n + 1 /\ t[c + 1] = <<k, r>>
       /\ \A i \in 1..c : t[i] = es[i]
       /\ \A i \in (c + 2)..(n + 1) : t[i] = es[i - 1]
  <2>1. (c + 1) - 1 = c /\ (c + 1) + 1 = c + 2
    BY <1>2, <1>6
  <2> QED  BY <1>1, <1>11, <2>1 DEF Inserted
<1>13. PICK st2 : st2 = With(st, k, r)
  OBVIOUS
<1>14. DOMAIN st2 = DOMAIN st \cup {k} /\ st2[k] = r /\ \A x \in DOMAIN st : st2[x] = st[x]
  BY <1>13 DEF With
<1>15. \A i \in 1..n : es[i][1] \in S /\ es[i][1] \in DOMAIN st /\ es[i] = <<es[i][1], st[es[i][1]]>>
  BY <1>1 DEF Holds
<1>16. \A i \in 1..n : es[i][1] # k
  BY <1>15
<1>17. \A i \in 1..(n + 1) : i \in 1..c \/ i = c + 1 \/ i \in (c + 2)..(n + 1)
  BY <1>2, <1>6
<1>18. \A i \in 1..c : i \in 1..n /\ t[i] = es[i] /\ t[i][1] < k
  BY <1>2, <1>6, <1>7, <1>12
<1>19. ASSUME NEW i \in (c + 2)..(n + 1)
       PROVE  i - 1 \in 1..n /\ i - 1 > c /\ t[i] = es[i - 1] /\ k < t[i][1]
  <2>1. i - 1 \in 1..n /\ i - 1 > c
    BY <1>2, <1>6
  <2>2. k <= es[i - 1][1] /\ es[i - 1][1] # k /\ es[i - 1][1] \in Int
    BY <1>2, <1>7, <1>16, <2>1
  <2> QED  BY <1>3, <1>12, <2>1, <2>2
<1>20. \A i, j \in 1..n : i < j => es[i][1] < es[j][1]
  BY <1>1, <1>4 DEF Ascending
<1>21. ASSUME NEW i \in 1..(n + 1), NEW j \in 1..(n + 1), i < j PROVE t[i][1] < t[j][1]
  <2>1. CASE i \in 1..c /\ j \in 1..c
    BY <1>18, <1>20, <1>21, <2>1
  <2>2. CASE i \in 1..c /\ j = c + 1
    BY <1>12, <1>18, <2>2
  <2>3. CASE i \in 1..c /\ j \in (c + 2)..(n + 1)
    <3>1. t[i][1] \in Int /\ t[j][1] \in Int
      BY <1>2, <1>18, <1>19, <2>3
    <3> QED  BY <1>3, <1>18, <1>19, <2>3, <3>1
  <2>4. CASE i = c + 1 /\ j \in (c + 2)..(n + 1)
    BY <1>12, <1>19, <2>4
  <2>5. CASE i \in (c + 2)..(n + 1) /\ j \in (c + 2)..(n + 1)
    <3>1. i - 1 < j - 1
      BY <1>21
    <3> QED  BY <1>19, <1>20, <2>5, <3>1
  <2> QED  BY <1>6, <1>17, <1>21, <2>1, <2>2, <2>3, <2>4, <2>5
<1>22. ASSUME NEW i \in 1..(n + 1)
       PROVE  t[i][1] \in S /\ t[i][1] \in DOMAIN st2 /\ t[i] = <<t[i][1], st2[t[i][1]]>>
  <2>1. CASE i \in 1..c
    BY <1>14, <1>15, <1>18, <2>1
  <2>2. CASE i = c + 1
    BY <1>12, <1>14, <2>2
  <2>3. CASE i \in (c + 2)..(n + 1)
    BY <1>14, <1>15, <1>19, <2>3
  <2> QED  BY <1>17, <2>1, <2>2, <2>3
<1>23. ASSUME NEW x \in DOMAIN st2, x \in S PROVE \E i \in 1..(n + 1) : t[i][1] = x
  <2>1. CASE x = k
    <3>1. c + 1 \in 1..(n + 1)
      BY <1>1, <1>10
    <3> QED  BY <1>12, <2>1, <3>1
  <2>2. CASE x # k
    <3>1. x \in DOMAIN st
      BY <1>14, <2>2
    <3>2. PICK i \in 1..n : es[i][1] = x
      BY <1>1, <1>23, <3>1 DEF Holds
    <3>3. CASE i <= c
      <4>1. i \in 1..c /\ i \in 1..(n + 1)
        BY <1>2, <1>6, <3>3
      <4> QED  BY <1>18, <3>2, <4>1
    <3>4. CASE ~(i <= c)
      <4>1. i + 1 \in (c + 2)..(n + 1) /\ i + 1 \in 1..(n + 1) /\ (i + 1) - 1 = i
        BY <1>2, <1>6, <3>4
      <4>2. t[i + 1] = es[i]
        BY <1>12, <4>1
      <4> QED  BY <3>2, <4>1, <4>2
    <3> QED  BY <3>3, <3>4
  <2> QED  BY <2>1, <2>2
<1>24. Holds(t, st2, S)
  BY <1>12, <1>21, <1>22, <1>23 DEF Holds, Ascending
<1> QED  BY <1>1, <1>5, <1>8, <1>11, <1>12, <1>13, <1>24

(* The integers of S on either side of s. *)
LowPart(S, s)  == {x \in S : x < s}
HighPart(S, s) == {x \in S : s <= x}

LEMMA PartsOfAll ==
  ASSUME NEW S, S \subseteq Int, NEW s \in Int
  PROVE  /\ LowPart(S, s) \cup HighPart(S, s) = S
         /\ LowPart(S, s) \cap HighPart(S, s) = {}
         /\ \A x \in LowPart(S, s) : x \in S /\ x < s
         /\ \A x \in HighPart(S, s) : x \in S /\ s <= x
         /\ \A x \in S : x \in LowPart(S, s) \/ x \in HighPart(S, s)
<1>1. \A x \in S : x \in Int
  OBVIOUS
<1>2. \A x : x \in LowPart(S, s) <=> x \in S /\ x < s
  BY DEF LowPart
<1>3. \A x : x \in HighPart(S, s) <=> x \in S /\ s <= x
  BY DEF HighPart
<1>4. \A x \in S : x \in LowPart(S, s) <=> x \notin HighPart(S, s)
  BY <1>1, <1>2, <1>3
<1>5. LowPart(S, s) \cup HighPart(S, s) = S
  BY <1>2, <1>3, <1>4
<1>6. LowPart(S, s) \cap HighPart(S, s) = {}
  BY <1>2, <1>4
<1> QED  BY <1>2, <1>3, <1>4, <1>5, <1>6

LEMMA HalfOf ==
  ASSUME NEW m \in Nat, m >= 2
  PROVE  m \div 2 \in 1..(m - 1) /\ m \div 2 \in Nat
OBVIOUS

(* A leaf too full is cut between two entries. *)
LEMMA EntriesHalved ==
  ASSUME Parameters, NEW es \in Seq(Entry), NEW st, NEW S, S \subseteq Int, Holds(es, st, S),
         NEW h \in 1..(Len(es) - 1), NEW s, s = es[h + 1][1]
  PROVE  /\ SubSeq(es, 1, h) \in Seq(Entry) /\ Len(SubSeq(es, 1, h)) = h
         /\ SubSeq(es, h + 1, Len(es)) \in Seq(Entry)
         /\ Len(SubSeq(es, h + 1, Len(es))) = Len(es) - h
         /\ SubSeq(es, h + 1, Len(es))[1][1] = s
         /\ Holds(SubSeq(es, 1, h), st, LowPart(S, s))
         /\ Holds(SubSeq(es, h + 1, Len(es)), st, HighPart(S, s))
         /\ s \in Keys /\ LowPart(S, s) # {} /\ HighPart(S, s) # {}
<1>1. PICK n : n = Len(es)
  OBVIOUS
<1>2. /\ n \in Nat /\ DOMAIN es = 1..n
      /\ \A i \in 1..n : es[i] \in Entry /\ es[i][1] \in Keys /\ es[i][1] \in Int
  BY <1>1, KeyOf
<1>3. h \in 1..n /\ h + 1 \in 1..n /\ h \in Nat
  BY <1>1, <1>2
<1>4. s \in Keys /\ s \in Int
  BY <1>2, <1>3
<1>5. PICK u : u = SubSeq(es, 1, h)
  OBVIOUS
<1>6. PICK v : v = SubSeq(es, h + 1, Len(es))
  OBVIOUS
<1>7. u \in Seq(Entry) /\ Len(u) = h /\ \A i \in 1..h : u[i] = es[i]
  <2>1. 1 \in 1..(Len(es) + 1) /\ h \in (1 - 1)..Len(es)
    BY <1>1, <1>2, <1>3
  <2>2. /\ u \in Seq(Entry) /\ Len(u) = h - 1 + 1
        /\ \A i \in 1..(h - 1 + 1) : u[i] = es[1 + i - 1]
    BY <1>5, <2>1, PartShape
  <2>3. h - 1 + 1 = h /\ \A i \in 1..h : 1 + i - 1 = i
    BY <1>3
  <2> QED  BY <2>2, <2>3
<1>8. v \in Seq(Entry) /\ Len(v) = n - h /\ \A i \in 1..(n - h) : v[i] = es[h + i]
  <2>1. h + 1 \in 1..(Len(es) + 1) /\ Len(es) \in ((h + 1) - 1)..Len(es)
    BY <1>1, <1>2, <1>3
  <2>2. /\ v \in Seq(Entry) /\ Len(v) = Len(es) - (h + 1) + 1
        /\ \A i \in 1..(Len(es) - (h + 1) + 1) : v[i] = es[(h + 1) + i - 1]
    BY <1>6, <2>1, PartShape
  <2>3. Len(es) - (h + 1) + 1 = n - h /\ \A i \in 1..(n - h) : (h + 1) + i - 1 = h + i
    BY <1>1, <1>2, <1>3
  <2> QED  BY <2>2, <2>3
<1>9. 1 \in 1..(n - h) /\ 1 \in 1..h
  BY <1>2, <1>3
<1>10. v[1][1] = s
  BY <1>8, <1>9
<1>11. \A i, j \in 1..n : i < j => es[i][1] < es[j][1]
  BY <1>1 DEF Holds, Ascending
<1>12. \A i \in 1..n : es[i][1] \in S /\ es[i][1] \in DOMAIN st /\ es[i] = <<es[i][1], st[es[i][1]]>>
  BY <1>1 DEF Holds
<1>13. \A x \in DOMAIN st : x \in S => \E i \in 1..n : es[i][1] = x
  BY <1>1 DEF Holds
<1>14. ASSUME NEW i \in 1..n, i <= h PROVE es[i][1] \in LowPart(S, s)
  <2>1. i < h + 1
    BY <1>3, <1>14
  <2>2. es[i][1] < s
    BY <1>3, <1>11, <2>1
  <2> QED  BY <1>12, <2>2 DEF LowPart
<1>15. ASSUME NEW i \in 1..n, i > h PROVE es[i][1] \in HighPart(S, s)
  <2>1. i = h + 1 \/ h + 1 < i
    BY <1>3, <1>15
  <2>2. s <= es[i][1]
    <3>1. h + 1 < i => s < es[i][1]
      BY <1>3, <1>11
    <3> QED  BY <1>2, <1>4, <2>1, <3>1
  <2> QED  BY <1>12, <2>2 DEF HighPart
<1>16. \A x : x \in LowPart(S, s) => x \in S /\ x \notin HighPart(S, s)
  <2>1. \A x \in S : x \in Int
    OBVIOUS
  <2> QED  BY <1>4, <2>1 DEF LowPart, HighPart
<1>17. \A x : x \in HighPart(S, s) => x \in S
  BY DEF HighPart
<1>18. Holds(u, st, LowPart(S, s))
  <2>1. \A i \in 1..h : i \in 1..n /\ i <= h /\ u[i] = es[i]
    BY <1>2, <1>3, <1>7
  <2>2. \A i, j \in 1..h : i < j => u[i][1] < u[j][1]
    BY <1>11, <2>1
  <2>3. \A i \in 1..h : u[i][1] \in LowPart(S, s) /\ u[i][1] \in DOMAIN st /\ u[i] = <<u[i][1], st[u[i][1]]>>
    BY <1>12, <1>14, <2>1
  <2>4. ASSUME NEW x \in DOMAIN st, x \in LowPart(S, s) PROVE \E i \in 1..h : u[i][1] = x
    <3>1. PICK i \in 1..n : es[i][1] = x
      BY <1>13, <1>16, <2>4
    <3>2. ~(i > h)
      BY <1>15, <1>16, <2>4, <3>1
    <3>3. i \in 1..h
      BY <1>3, <3>2
    <3> QED  BY <2>1, <3>1, <3>3
  <2> QED  BY <1>7, <2>2, <2>3, <2>4 DEF Holds, Ascending
<1>19. Holds(v, st, HighPart(S, s))
  <2>1. \A i \in 1..(n - h) : h + i \in 1..n /\ h + i > h /\ v[i] = es[h + i]
    BY <1>2, <1>3, <1>8
  <2>2. \A i, j \in 1..(n - h) : i < j => v[i][1] < v[j][1]
    <3>1. ASSUME NEW i \in 1..(n - h), NEW j \in 1..(n - h), i < j PROVE v[i][1] < v[j][1]
      <4>1. h + i < h + j
        BY <1>3, <3>1
      <4> QED  BY <1>11, <2>1, <4>1
    <3> QED  BY <3>1
  <2>3. \A i \in 1..(n - h) : v[i][1] \in HighPart(S, s) /\ v[i][1] \in DOMAIN st /\ v[i] = <<v[i][1], st[v[i][1]]>>
    <3>1. ASSUME NEW i \in 1..(n - h)
          PROVE  v[i][1] \in HighPart(S, s) /\ v[i][1] \in DOMAIN st /\ v[i] = <<v[i][1], st[v[i][1]]>>
      <4>1. PICK j \in 1..n : j = h + i /\ j > h /\ v[i] = es[j]
        BY <2>1
      <4> QED  BY <1>12, <1>15, <4>1
    <3> QED  BY <3>1
  <2>4. ASSUME NEW x \in DOMAIN st, x \in HighPart(S, s) PROVE \E i \in 1..(n - h) : v[i][1] = x
    <3>1. PICK i \in 1..n : es[i][1] = x
      BY <1>13, <1>17, <2>4
    <3>2. ~(i <= h)
      BY <1>14, <1>16, <2>4, <3>1
    <3>3. PICK j : j = i - h
      OBVIOUS
    <3>4. j \in 1..(n - h) /\ h + j = i
      BY <1>2, <1>3, <3>2, <3>3
    <3>5. v[j] = es[i]
      BY <1>8, <3>4
    <3> QED  BY <3>1, <3>4, <3>5
  <2> QED  BY <1>8, <2>2, <2>3, <2>4 DEF Holds, Ascending
<1>20. LowPart(S, s) # {} /\ HighPart(S, s) # {}
  <2>1. es[h][1] \in LowPart(S, s)
    BY <1>3, <1>14
  <2>2. es[h + 1][1] \in HighPart(S, s)
    BY <1>3, <1>15
  <2> QED  BY <2>1, <2>2
<1> QED  BY <1>1, <1>4, <1>5, <1>6, <1>7, <1>8, <1>10, <1>18, <1>19, <1>20

-----------------------------------------------------------------------------
(* A leaf is written again with other entries.                             *)

OthersHold(f, n, R, st, p) ==
  \A q \in 1..(n - 1) : q # p /\ f[q].leaf => Holds(f[q].entries, st, R[q])

(* A leaf with the same neighbours keeps its place in the chain. *)
LEMMA LeafRewritten ==
  ASSUME NEW f, NEW n, NEW L, NEW R, NEW st, IsTree(f, n, L, R, st, NoPage, NoPage),
         NEW p \in 1..(n - 1), f[p].leaf,
         NEW node \in NodeRecord, node.leaf, node.id = p,
         node.next = f[p].next, node.prev = f[p].prev,
         NEW st2, Holds(node.entries, st2, R[p]), OthersHold(f, n, R, st2, p)
  PROVE  /\ IsTree(With(f, p, node), n, L, R, st2, NoPage, NoPage)
         /\ With(f, p, node)[0] = f[0]
         /\ \A q \in 1..(n - 1) : q # p => With(f, p, node)[q] = f[q]
<1>1. PICK g : g = With(f, p, node)
  OBVIOUS
<1>2. /\ IsFile(f, n) /\ n \in Nat
      /\ L \in [1..(n - 1) -> Nat] /\ R \in [1..(n - 1) -> SUBSET Int]
      /\ f[0].id \in 1..(n - 1) /\ L[f[0].id] < n - 1 /\ Meant(R, NoPage, NoPage, f[0].id) = Int
      /\ \A q \in 1..(n - 1) : q \in 0..(n - 1) /\ f[q].id = q /\ R[q] # {} /\ Convex(R[q])
      /\ \A a, b \in 1..(n - 1) : a # b /\ L[a] = L[b] => R[a] \cap R[b] = {}
      /\ \A q \in 1..(n - 1) : ~f[q].leaf => IsInner(f[q], q, n, L, R, NoPage, NoPage)
      /\ \A q \in 1..(n - 1) : f[q].leaf => IsLeaf(f, n, L, R, st, q)
  BY TreeShape
<1>3. p \in 0..(n - 1) /\ 0 \in 0..(n - 1) /\ 0 # p
  BY <1>2
<1>4. IsFile(g, n) /\ g[p] = node /\ \A q \in 0..(n - 1) : q # p => g[q] = f[q]
  <2>1. p = 0 => ~node.leaf
    BY <1>3
  <2>2. Rewritten(f, g, n, p, node)
    BY <1>1, <1>2, <1>3, <2>1, WithinShape
  <2> QED  BY <2>2 DEF Rewritten
<1>5. g[0] = f[0]
  BY <1>3, <1>4
<1>6. \A q \in 1..(n - 1) : q # p => g[q] = f[q]
  BY <1>2, <1>4
<1>7. \A q \in 1..(n - 1) : g[q].id = q
  <2>1. g[p].id = p
    BY <1>4
  <2>2. \A q \in 1..(n - 1) : f[q].id = q
    BY <1>2
  <2> QED  BY <1>6, <2>1, <2>2
<1>8. \A q \in 1..(n - 1) : g[q].leaf = f[q].leaf /\ g[q].next = f[q].next /\ g[q].prev = f[q].prev
  <2>1. node.leaf = f[p].leaf
    BY <1>2 DEF NodeRecord, IsFile
  <2> QED  BY <1>4, <1>6, <2>1
<1>9. \A q \in 1..(n - 1) : ~g[q].leaf => IsInner(g[q], q, n, L, R, NoPage, NoPage)
  BY <1>2, <1>4, <1>6, SMTT(30)
<1>10. ASSUME NEW q \in 1..(n - 1), g[q].leaf PROVE IsLeaf(g, n, L, R, st2, q)
  <2>1. f[q].leaf
    BY <1>8, <1>10
  <2>2. L[q] = 0 /\ IsLinked(f, n, R, q)
    BY <1>2, <2>1 DEF IsLeaf
  <2>3. IsLinked(g, n, R, q)
    BY <1>8, <2>2 DEF IsLinked
  <2>4. Holds(g[q].entries, st2, R[q])
    <3>1. CASE q = p
      BY <1>4, <3>1
    <3>2. CASE q # p
      BY <1>6, <2>1, <3>2 DEF OthersHold
    <3> QED  BY <3>1, <3>2
  <2> QED  BY <2>2, <2>3, <2>4 DEF IsLeaf
<1>11. IsTree(g, n, L, R, st2, NoPage, NoPage)
  <2>1. NoneHigher(L, n, L[f[0].id])
    BY TreeTop
  <2> QED  BY <1>2, <1>4, <1>5, <1>7, <1>9, <1>10, <2>1 DEF IsTree, IsTop
<1> QED  BY <1>1, <1>5, <1>6, <1>11

(* A key of one leaf is a key of no other. *)
LEMMA OthersApart ==
  ASSUME NEW f, NEW n, NEW L, NEW R, NEW st, NEW d, NEW new, IsTree(f, n, L, R, st, d, new),
         NEW p \in 1..(n - 1), f[p].leaf, NEW k, k \in R[p], NEW r
  PROVE  OthersHold(f, n, R, With(st, k, r), p)
<1>1. ASSUME NEW q \in 1..(n - 1), q # p, f[q].leaf PROVE Holds(f[q].entries, With(st, k, r), R[q])
  <2>1. IsLeaf(f, n, L, R, st, p) /\ IsLeaf(f, n, L, R, st, q)
    BY <1>1, TreeShape
  <2>2. L[p] = 0 /\ L[q] = 0 /\ Holds(f[q].entries, st, R[q])
    BY <2>1 DEF IsLeaf
  <2>3. R[p] \cap R[q] = {}
    BY <1>1, <2>2, TreeShape
  <2>4. k \notin R[q]
    BY <2>3
  <2> QED  BY <2>2, <2>4, HoldsElsewhere
<1> QED  BY <1>1 DEF OthersHold

-----------------------------------------------------------------------------
(* A leaf is cut in two.                                                   *)

(* g is f with the leaf p cut into `left` and `right`, which is the page n. *)
LeafCut(f, g, n, p, left, right) ==
  /\ IsFile(g, n + 1) /\ g[p] = left /\ g[n] = right
  /\ left.leaf /\ left.id = p /\ left.next = n /\ left.prev = f[p].prev
  /\ right.leaf /\ right.id = n /\ right.next = f[p].next /\ right.prev = p
  /\ f[p].next # NoPage => g[f[p].next] = [f[f[p].next] EXCEPT !.prev = n]
  /\ \A q \in 0..(n - 1) : q # p /\ q # f[p].next => g[q] = f[q]

LEMMA OneMore ==
  ASSUME NEW n \in Nat, n # 0
  PROVE  /\ (n + 1) - 1 = n /\ n \in 1..((n + 1) - 1)
         /\ \A q \in 1..(n - 1) : q \in 1..((n + 1) - 1) /\ q # n
         /\ \A q \in 1..((n + 1) - 1) : q = n \/ q \in 1..(n - 1)
OBVIOUS

(* Neighbours in the chain are different leaves. *)
LEMMA NotBoth ==
  ASSUME NEW A, A \subseteq Int, NEW B, B \subseteq Int, A # {}, B # {}, Adjacent(A, B)
  PROVE  A # B /\ ~Adjacent(B, A)
<1>1. PICK a : a \in A
  OBVIOUS
<1>2. PICK b : b \in B
  OBVIOUS
<1>3. a \in Int /\ b \in Int
  BY <1>1, <1>2
<1>4. a < b
  BY <1>1, <1>2 DEF Adjacent
<1>5. A # B
  <2>1. ASSUME A = B PROVE FALSE
    <3>1. b < b
      BY <1>2, <2>1 DEF Adjacent
    <3> QED  BY <1>3, <3>1
  <2> QED  BY <2>1
<1>6. ASSUME Adjacent(B, A) PROVE FALSE
  <2>1. b < a
    BY <1>1, <1>2, <1>6 DEF Adjacent
  <2> QED  BY <1>3, <1>4, <2>1
<1> QED  BY <1>5, <1>6

LEMMA PartsAdjacent ==
  ASSUME NEW S, S \subseteq Int, Convex(S), NEW s \in Int,
         LowPart(S, s) # {}, HighPart(S, s) # {}
  PROVE  /\ Adjacent(LowPart(S, s), HighPart(S, s))
         /\ Convex(LowPart(S, s)) /\ Convex(HighPart(S, s))
         /\ Endless(S) => Endless(HighPart(S, s))
<1>1. PICK low : low = LowPart(S, s)
  OBVIOUS
<1>2. PICK high : high = HighPart(S, s)
  OBVIOUS
<1>3. /\ \A x : x \in low <=> x \in S /\ x < s
      /\ \A x : x \in high <=> x \in S /\ s <= x
  BY <1>1, <1>2 DEF LowPart, HighPart
<1>4. \A x \in S : x \in Int
  OBVIOUS
<1>5. \A x \in S : x \in low \/ x \in high
  BY <1>3, <1>4
<1>6. Adjacent(low, high)
  <2>1. ASSUME NEW a \in low, NEW b \in high PROVE a < b
    <3>1. a \in Int /\ a < s
      BY <1>3, <1>4
    <3>2. b \in Int /\ s <= b
      BY <1>3, <1>4
    <3> QED  BY <3>1, <3>2
  <2>2. \A a \in low, b \in high : \A x \in Int : a < x /\ x < b => x \in low \cup high
    BY <1>3, <1>5 DEF Convex
  <2> QED  BY <2>1, <2>2 DEF Adjacent
<1>7. Convex(low)
  <2>1. ASSUME NEW a \in low, NEW b \in low, NEW x \in Int, a < x, x < b PROVE x \in low
    <3>1. x \in S
      BY <1>3, <2>1 DEF Convex
    <3>2. b \in Int /\ b < s
      BY <1>3, <1>4
    <3>3. x < s
      BY <2>1, <3>2
    <3> QED  BY <1>3, <3>1, <3>3
  <2> QED  BY <2>1 DEF Convex
<1>8. Convex(high)
  <2>1. ASSUME NEW a \in high, NEW b \in high, NEW x \in Int, a < x, x < b PROVE x \in high
    <3>1. x \in S
      BY <1>3, <2>1 DEF Convex
    <3>2. a \in Int /\ s <= a
      BY <1>3, <1>4
    <3>3. s <= x
      BY <2>1, <3>2
    <3> QED  BY <1>3, <3>1, <3>3
  <2> QED  BY <2>1 DEF Convex
<1>9. ASSUME Endless(S) PROVE Endless(high)
  <2>1. ASSUME NEW a \in high, NEW x \in Int, a < x PROVE x \in high
    <3>1. a \in S /\ a \in Int /\ s <= a
      BY <1>3, <1>4
    <3>2. x \in S /\ s <= x
      BY <1>9, <2>1, <3>1 DEF Endless
    <3> QED  BY <1>3, <3>2
  <2> QED  BY <2>1 DEF Endless
<1> QED  BY <1>1, <1>2, <1>6, <1>7, <1>8, <1>9

LEMMA HighPartAdjacent ==
  ASSUME NEW S, S \subseteq Int, NEW s \in Int, NEW B, Adjacent(S, B)
  PROVE  Adjacent(HighPart(S, s), B)
<1>1. PICK high : high = HighPart(S, s)
  OBVIOUS
<1>2. \A x : x \in high <=> x \in S /\ s <= x
  BY <1>1 DEF HighPart
<1>3. \A a \in high, b \in B : a < b
  BY <1>2 DEF Adjacent
<1>4. ASSUME NEW a \in high, NEW b \in B, NEW x \in Int, a < x, x < b PROVE x \in high \cup B
  <2>1. a \in S /\ a \in Int /\ s <= a
    BY <1>2
  <2>2. x \in S \cup B
    BY <1>4, <2>1 DEF Adjacent
  <2>3. s <= x
    BY <1>4, <2>1
  <2> QED  BY <1>2, <2>2, <2>3
<1> QED  BY <1>1, <1>3, <1>4 DEF Adjacent

LEMMA LowPartAdjacent ==
  ASSUME NEW S, S \subseteq Int, NEW s \in Int, NEW A, Adjacent(A, S)
  PROVE  Adjacent(A, LowPart(S, s))
<1>1. PICK low : low = LowPart(S, s)
  OBVIOUS
<1>2. \A x : x \in low <=> x \in S /\ x < s
  BY <1>1 DEF LowPart
<1>3. \A a \in A, b \in low : a < b
  BY <1>2 DEF Adjacent
<1>4. ASSUME NEW a \in A, NEW b \in low, NEW x \in Int, a < x, x < b PROVE x \in A \cup low
  <2>1. b \in S /\ b \in Int /\ b < s
    BY <1>2
  <2>2. x \in A \cup S
    BY <1>4, <2>1 DEF Adjacent
  <2>3. x < s
    BY <1>4, <2>1
  <2> QED  BY <1>2, <2>2, <2>3
<1> QED  BY <1>1, <1>3, <1>4 DEF Adjacent

(* M and Q are the levels and the ranges once p was cut at s, its higher part to the page n. *)
CutAt(L, R, M, Q, n, p, s) ==
  /\ M \in [1..((n + 1) - 1) -> Nat] /\ Q \in [1..((n + 1) - 1) -> SUBSET Int]
  /\ M[n] = L[p] /\ \A q \in 1..(n - 1) : M[q] = L[q]
  /\ Q[n] = HighPart(R[p], s) /\ Q[p] = LowPart(R[p], s) /\ Q[p] \cup Q[n] = R[p]
  /\ \A q \in 1..(n - 1) : q # p => Q[q] = R[q]
  /\ \A q \in 1..((n + 1) - 1) : Q[q] # {} /\ Convex(Q[q])
  /\ \A a, b \in 1..((n + 1) - 1) : a # b /\ M[a] = M[b] => Q[a] \cap Q[b] = {}

LEMMA RangesCut ==
  ASSUME NEW f, NEW n, NEW L, NEW R, NEW st, NEW d, NEW new, IsTree(f, n, L, R, st, d, new),
         NEW p \in 1..(n - 1), NEW s \in Int, LowPart(R[p], s) # {}, HighPart(R[p], s) # {}
  PROVE  \E M, Q : CutAt(L, R, M, Q, n, p, s)
<1>1. /\ n \in Nat /\ n # 0
      /\ L \in [1..(n - 1) -> Nat] /\ R \in [1..(n - 1) -> SUBSET Int]
      /\ \A q \in 1..(n - 1) : R[q] # {} /\ Convex(R[q])
      /\ \A a, b \in 1..(n - 1) : a # b /\ L[a] = L[b] => R[a] \cap R[b] = {}
  BY TreeShape
<1>2. PICK low : low = LowPart(R[p], s)
  OBVIOUS
<1>3. PICK high : high = HighPart(R[p], s)
  OBVIOUS
<1>4. R[p] \subseteq Int /\ Convex(R[p]) /\ L[p] \in Nat
  BY <1>1
<1>5. low \cup high = R[p] /\ low \cap high = {}
  BY <1>2, <1>3, <1>4, PartsOfAll
<1>6. low \in SUBSET Int /\ high \in SUBSET Int
  BY <1>4, <1>5
<1>7. /\ (n + 1) - 1 = n /\ n \in 1..((n + 1) - 1)
      /\ \A q \in 1..(n - 1) : q \in 1..((n + 1) - 1) /\ q # n
      /\ \A q \in 1..((n + 1) - 1) : q = n \/ q \in 1..(n - 1)
  BY <1>1, OneMore
<1>8. PICK M : M = [q \in 1..((n + 1) - 1) |-> IF q = n THEN L[p] ELSE L[q]]
  OBVIOUS
<1>9. PICK Q : Q = [q \in 1..((n + 1) - 1) |-> IF q = n THEN high ELSE IF q = p THEN low ELSE R[q]]
  OBVIOUS
<1>10. M \in [1..((n + 1) - 1) -> Nat] /\ M[n] = L[p] /\ \A q \in 1..(n - 1) : M[q] = L[q]
  BY <1>1, <1>4, <1>7, <1>8
<1>11. \A q \in 1..((n + 1) - 1) : (IF q = n THEN high ELSE IF q = p THEN low ELSE R[q]) \in SUBSET Int
  BY <1>1, <1>6, <1>7
<1>12. Q \in [1..((n + 1) - 1) -> SUBSET Int]
  BY <1>9, <1>11
<1>13. Q[n] = high /\ Q[p] = low /\ \A q \in 1..(n - 1) : q # p => Q[q] = R[q]
  BY <1>7, <1>9
<1>14. low # {} /\ Convex(low) /\ high # {} /\ Convex(high)
  BY <1>2, <1>3, <1>4, PartsAdjacent
<1>15. \A q \in 1..((n + 1) - 1) : Q[q] # {} /\ Convex(Q[q])
  BY <1>1, <1>7, <1>13, <1>14
<1>16. \A q \in 1..(n - 1) : Q[q] \subseteq R[q]
  BY <1>5, <1>13
<1>17. Q[n] \subseteq R[p] /\ Q[n] \cap Q[p] = {} /\ Q[p] \cup Q[n] = R[p]
  BY <1>5, <1>13
<1>18. ASSUME NEW a \in 1..((n + 1) - 1), NEW b \in 1..((n + 1) - 1), a # b, M[a] = M[b]
       PROVE  Q[a] \cap Q[b] = {}
  <2>1. CASE a # n /\ b # n
    <3>1. a \in 1..(n - 1) /\ b \in 1..(n - 1) /\ L[a] = L[b]
      BY <1>7, <1>10, <1>18, <2>1
    <3>2. R[a] \cap R[b] = {}
      BY <1>1, <1>18, <3>1
    <3> QED  BY <1>16, <3>1, <3>2
  <2>2. ASSUME NEW c \in 1..(n - 1), L[c] = L[p] PROVE Q[c] \cap Q[n] = {}
    <3>1. CASE c = p
      BY <1>17, <3>1
    <3>2. CASE c # p
      <4>1. R[c] \cap R[p] = {}
        BY <1>1, <2>2, <3>2
      <4> QED  BY <1>16, <1>17, <4>1
    <3> QED  BY <3>1, <3>2
  <2>3. CASE a = n
    <3>1. b \in 1..(n - 1) /\ L[b] = L[p]
      BY <1>7, <1>10, <1>18, <2>3
    <3> QED  BY <2>2, <2>3, <3>1
  <2>4. CASE b = n
    <3>1. a \in 1..(n - 1) /\ L[a] = L[p]
      BY <1>7, <1>10, <1>18, <2>4
    <3> QED  BY <2>2, <2>4, <3>1
  <2> QED  BY <2>1, <2>3, <2>4
<1>19. Q[n] = HighPart(R[p], s) /\ Q[p] = LowPart(R[p], s)
  BY <1>2, <1>3, <1>13
<1>20. CutAt(L, R, M, Q, n, p, s)
  BY <1>10, <1>12, <1>13, <1>15, <1>17, <1>18, <1>19 DEF CutAt
<1> QED  BY <1>20

(* The parents are as they were: one of them does not know of the new page yet. *)
LEMMA InnerKept ==
  ASSUME NEW n \in Nat, n # 0, NEW L, NEW R, NEW M, NEW Q, NEW p \in 1..(n - 1),
         NEW s, CutAt(L, R, M, Q, n, p, s), NEW q \in 1..(n - 1), q # p,
         NEW node, IsInner(node, q, n, L, R, NoPage, NoPage)
  PROVE  IsInner(node, q, n + 1, M, Q, p, n)
<1>1. ASSUME NEW i \in 1..Len(node.children), NEW c, c = node.children[i]
      PROVE  c \in 1..((n + 1) - 1) /\ M[c] = M[q] - 1 /\ Meant(Q, p, n, c) = Share(node.keys, Q[q], i)
  <2>1. c \in 1..(n - 1) /\ L[c] = L[q] - 1 /\ Meant(R, NoPage, NoPage, c) = Share(node.keys, R[q], i)
    BY <1>1 DEF IsInner
  <2>2. c # NoPage
    BY <2>1 DEF NoPage
  <2>3. R[c] = Share(node.keys, R[q], i)
    BY <2>1, <2>2 DEF Meant
  <2>4. Q[q] = R[q] /\ M[c] = L[c] /\ M[q] = L[q]
    BY <2>1 DEF CutAt
  <2>5. Meant(Q, p, n, c) = R[c]
    BY <2>1 DEF Meant, CutAt
  <2>6. c \in 1..((n + 1) - 1)
    BY <2>1
  <2> QED  BY <2>1, <2>3, <2>4, <2>5, <2>6
<1>2. L[q] # 0 /\ InOrder(node.keys) /\ Len(node.children) = Len(node.keys) + 1 /\ M[q] = L[q]
  BY DEF IsInner, CutAt
<1> QED  BY <1>1, <1>2 DEF IsInner

(* The root is as it was, with its range in two parts if it is the page cut. *)
LEMMA RootKept ==
  ASSUME NEW n \in Nat, n # 0, NEW L, NEW R, NEW M, NEW Q, NEW p \in 1..(n - 1),
         NEW s, CutAt(L, R, M, Q, n, p, s), NEW r \in 1..(n - 1), L[r] \in Nat, L[r] < n - 1, R[r] = Int,
         NoneHigher(L, n, L[r])
  PROVE  IsTop(r, n + 1, M, Q, p, n)
<1>1. r \in 1..((n + 1) - 1)
  OBVIOUS
<1>2. M[r] = L[r]
  BY DEF CutAt
<1>3. M[r] < (n + 1) - 1
  BY <1>2
<1>4. Meant(Q, p, n, r) = Int
  BY DEF Meant, CutAt
<1>5. NoneHigher(M, n + 1, M[r])
  <2>1. ASSUME NEW x \in 1..((n + 1) - 1) PROVE M[x] <= L[r]
    <3>1. x = n \/ x \in 1..(n - 1)
      BY OneMore
    <3>2. \A q \in 1..(n - 1) : L[q] <= L[r] /\ M[q] = L[q]
      BY DEF CutAt, NoneHigher
    <3>3. M[n] = L[p]
      BY DEF CutAt
    <3> QED  BY <3>1, <3>2, <3>3
  <2> QED  BY <1>2, <2>1 DEF NoneHigher
<1> QED  BY <1>1, <1>3, <1>4, <1>5 DEF IsTop

(* Both halves take their places in the chain. *)
LEMMA LeafCutTree ==
  ASSUME NEW f, NEW n, NEW L, NEW R, NEW st, IsTree(f, n, L, R, st, NoPage, NoPage),
         NEW p \in 1..(n - 1), f[p].leaf,
         NEW g, NEW left, NEW right, LeafCut(f, g, n, p, left, right),
         NEW s \in Int, LowPart(R[p], s) # {}, HighPart(R[p], s) # {},
         NEW st2, Holds(left.entries, st2, LowPart(R[p], s)),
         Holds(right.entries, st2, HighPart(R[p], s)), OthersHold(f, n, R, st2, p),
         NEW M, NEW Q, CutAt(L, R, M, Q, n, p, s)
  PROVE  IsTree(g, n + 1, M, Q, st2, p, n)
<1>1. /\ IsFile(f, n) /\ n \in Nat /\ n # 0
      /\ L \in [1..(n - 1) -> Nat] /\ R \in [1..(n - 1) -> SUBSET Int]
      /\ f[0].id \in 1..(n - 1) /\ L[f[0].id] < n - 1 /\ Meant(R, NoPage, NoPage, f[0].id) = Int
      /\ f[0].id # NoPage
      /\ \A q \in 1..(n - 1) : q \in 0..(n - 1) /\ f[q] \in NodeRecord /\ f[q].id = q /\ R[q] # {} /\ Convex(R[q])
  BY TreeShape
<1>2. /\ \A q \in 1..(n - 1) : ~f[q].leaf => IsInner(f[q], q, n, L, R, NoPage, NoPage)
      /\ \A q \in 1..(n - 1) : f[q].leaf => IsLeaf(f, n, L, R, st, q)
  BY TreeShape
<1>3. /\ M \in [1..((n + 1) - 1) -> Nat] /\ Q \in [1..((n + 1) - 1) -> SUBSET Int]
      /\ M[n] = L[p] /\ \A q \in 1..(n - 1) : M[q] = L[q]
      /\ Q[n] = HighPart(R[p], s) /\ Q[p] = LowPart(R[p], s) /\ Q[p] \cup Q[n] = R[p]
      /\ \A q \in 1..(n - 1) : q # p => Q[q] = R[q]
      /\ \A q \in 1..((n + 1) - 1) : Q[q] # {} /\ Convex(Q[q])
      /\ \A a, b \in 1..((n + 1) - 1) : a # b /\ M[a] = M[b] => Q[a] \cap Q[b] = {}
  BY DEF CutAt
<1>4. /\ n \in 1..((n + 1) - 1)
      /\ \A q \in 1..(n - 1) : q \in 1..((n + 1) - 1) /\ q # n
      /\ \A q \in 1..((n + 1) - 1) : q = n \/ q \in 1..(n - 1)
  BY <1>1, OneMore
<1>5. PICK nx : nx = f[p].next
  OBVIOUS
<1>6. /\ IsFile(g, n + 1) /\ g[p] = left /\ g[n] = right
      /\ left.leaf /\ left.id = p /\ left.next = n /\ left.prev = f[p].prev
      /\ right.leaf /\ right.id = n /\ right.next = nx /\ right.prev = p
      /\ nx # NoPage => g[nx] = [f[nx] EXCEPT !.prev = n]
      /\ \A q \in 0..(n - 1) : q # p /\ q # nx => g[q] = f[q]
  BY <1>5 DEF LeafCut
<1>7. \A q \in 1..(n - 1) : R[q] \subseteq Int
  BY <1>1
<1>8. L[p] = 0 /\ IsLinked(f, n, R, p)
  BY <1>2 DEF IsLeaf
<1>9. \/ nx = NoPage /\ Endless(R[p])
      \/ nx \in 1..(n - 1) /\ f[nx].leaf /\ Adjacent(R[p], R[nx]) /\ f[nx].prev = p
  BY <1>5, <1>8 DEF IsLinked
<1>10. \A a, b \in 1..(n - 1) : Adjacent(R[a], R[b]) => a # b /\ ~Adjacent(R[b], R[a])
  BY <1>1, <1>7, NotBoth
<1>11. nx # p /\ nx # 0
  BY <1>1, <1>9, <1>10, SMTT(30) DEF NoPage
<1>12. \A q \in 1..(n - 1) : q # NoPage
  BY DEF NoPage
<1>13. ASSUME NEW q \in 1..(n - 1), q # p
       PROVE  /\ g[q].leaf = f[q].leaf /\ g[q].next = f[q].next /\ g[q].id = q
              /\ g[q].entries = f[q].entries
              /\ g[q].prev = IF q = nx THEN n ELSE f[q].prev
              /\ ~f[q].leaf => g[q] = f[q]
  <2>1. q \in 0..(n - 1) /\ f[q] \in NodeRecord /\ f[q].id = q
    BY <1>1
  <2>2. CASE q = nx
    <3>1. g[q] = [f[q] EXCEPT !.prev = n] /\ f[q].leaf
      BY <1>6, <1>9, <1>12, <2>2
    <3> QED  BY <2>1, <2>2, <3>1, ZenonT(40) DEF NodeRecord
  <2>3. CASE q # nx
    <3>1. g[q] = f[q]
      BY <1>6, <1>13, <2>1, <2>3
    <3> QED  BY <2>1, <2>3, <3>1
  <2> QED  BY <2>2, <2>3
<1>14. g[0] = f[0]
  <2>1. 0 \in 0..(n - 1) /\ 0 # p
    BY <1>1
  <2> QED  BY <1>6, <1>11, <2>1
<1>15. PICK r : r = f[0].id
  OBVIOUS
<1>16. g[0].id = r /\ IsTop(r, n + 1, M, Q, p, n)
  <2>1. r \in 1..(n - 1) /\ L[r] < n - 1 /\ L[r] \in Nat
    BY <1>1, <1>15
  <2>2. R[r] = Int
    BY <1>1, <1>15 DEF Meant
  <2>3. NoneHigher(L, n, L[r])
    BY <1>15, TreeTop
  <2>4. IsTop(r, n + 1, M, Q, p, n)
    BY <1>1, <2>1, <2>2, <2>3, RootKept
  <2> QED  BY <1>14, <1>15, <2>4
<1>17. ASSUME NEW q \in 1..((n + 1) - 1), ~g[q].leaf PROVE IsInner(g[q], q, n + 1, M, Q, p, n)
  <2>1. q \in 1..(n - 1) /\ q # p
    BY <1>3, <1>4, <1>6, <1>17
  <2>2. ~f[q].leaf /\ g[q] = f[q]
    BY <1>13, <1>17, <2>1
  <2>3. IsInner(f[q], q, n, L, R, NoPage, NoPage)
    BY <1>2, <2>1, <2>2
  <2> QED  BY <1>1, <2>1, <2>2, <2>3, InnerKept
<1>18. /\ Adjacent(Q[p], Q[n])
       /\ Endless(R[p]) => Endless(Q[n])
       /\ \A q \in 1..(n - 1) : Adjacent(R[p], R[q]) => Adjacent(Q[n], R[q])
       /\ \A q \in 1..(n - 1) : Adjacent(R[q], R[p]) => Adjacent(R[q], Q[p])
  <2>1. PICK S : S = R[p]
    OBVIOUS
  <2>2. S \subseteq Int /\ Convex(S) /\ Q[p] = LowPart(S, s) /\ Q[n] = HighPart(S, s)
    BY <1>1, <1>3, <1>7, <2>1
  <2>3. LowPart(S, s) # {} /\ HighPart(S, s) # {}
    BY <2>1
  <2>4. Adjacent(LowPart(S, s), HighPart(S, s)) /\ (Endless(S) => Endless(HighPart(S, s)))
    BY <2>2, <2>3, PartsAdjacent
  <2>5. \A q \in 1..(n - 1) : Adjacent(S, R[q]) => Adjacent(HighPart(S, s), R[q])
    BY <2>2, HighPartAdjacent
  <2>6. \A q \in 1..(n - 1) : Adjacent(R[q], S) => Adjacent(R[q], LowPart(S, s))
    BY <2>2, LowPartAdjacent
  <2> QED  BY <2>1, <2>2, <2>4, <2>5, <2>6
<1>19. \A q \in 1..((n + 1) - 1) : g[q].id = q
  BY <1>3, <1>4, <1>6, <1>13
<1>20. ASSUME NEW q \in 1..((n + 1) - 1), g[q].leaf PROVE IsLeaf(g, n + 1, M, Q, st2, q)
  <2>1. CASE q = p
    <3>1. M[p] = 0 /\ Holds(g[p].entries, st2, Q[p])
      BY <1>3, <1>4, <1>6, <1>8
    <3>2. n \in 1..((n + 1) - 1) /\ g[n].leaf /\ g[p].next = n /\ g[n].prev = p
      BY <1>3, <1>4, <1>6
    <3>3. PICK pv : pv = f[p].prev
      OBVIOUS
    <3>4. pv = NoPage \/ (pv \in 1..(n - 1) /\ f[pv].leaf /\ f[pv].next = p)
      BY <1>8, <3>3 DEF IsLinked
    <3>5. pv = NoPage \/ (pv \in 1..((n + 1) - 1) /\ g[pv].leaf /\ g[pv].next = p)
      <4>1. pv # p
        BY <1>5, <1>11, <1>12, <3>4
      <4> QED  BY <1>3, <1>4, <1>13, <3>4, <4>1
    <3>6. IsLinked(g, n + 1, Q, p)
      BY <1>6, <1>18, <3>2, <3>3, <3>5 DEF IsLinked
    <3> QED  BY <2>1, <3>1, <3>6 DEF IsLeaf
  <2>2. CASE q = n
    <3>1. M[n] = 0 /\ Holds(g[n].entries, st2, Q[n])
      BY <1>3, <1>4, <1>6, <1>8
    <3>2. p \in 1..((n + 1) - 1) /\ g[p].leaf /\ g[p].next = n /\ g[n].prev = p /\ g[n].next = nx
      BY <1>3, <1>4, <1>6
    <3>3. \/ nx = NoPage /\ Endless(Q[n])
          \/ nx \in 1..((n + 1) - 1) /\ g[nx].leaf /\ Adjacent(Q[n], Q[nx]) /\ g[nx].prev = n
      BY <1>3, <1>4, <1>9, <1>11, <1>13, <1>18
    <3>4. IsLinked(g, n + 1, Q, n)
      BY <3>2, <3>3 DEF IsLinked
    <3> QED  BY <2>2, <3>1, <3>4 DEF IsLeaf
  <2>3. CASE q # p /\ q # n
    <3>1. q \in 1..(n - 1) /\ f[q].leaf
      BY <1>3, <1>4, <1>13, <1>20, <2>3
    <3>2. L[q] = 0 /\ IsLinked(f, n, R, q)
      BY <1>2, <3>1 DEF IsLeaf
    <3>3. M[q] = 0 /\ Q[q] = R[q]
      BY <1>3, <1>4, <2>3, <3>1, <3>2
    <3>4. Holds(g[q].entries, st2, Q[q])
      BY <1>13, <2>3, <3>1, <3>3 DEF OthersHold
    <3>5. PICK y : y = f[q].next
      OBVIOUS
    <3>6. \/ y = NoPage /\ Endless(R[q])
          \/ y \in 1..(n - 1) /\ f[y].leaf /\ Adjacent(R[q], R[y]) /\ f[y].prev = q
      BY <3>2, <3>5 DEF IsLinked
    <3>7. y = NoPage \/ (y # nx /\ y # q)
      BY <1>9, <1>10, <1>12, <2>3, <3>1, <3>6
    <3>8. \/ y = NoPage /\ Endless(Q[q])
          \/ y \in 1..((n + 1) - 1) /\ g[y].leaf /\ Adjacent(Q[q], Q[y]) /\ g[y].prev = q
      <4>1. CASE y = NoPage
        BY <1>12, <3>3, <3>6, <4>1
      <4>2. CASE y = p
        <5>1. Adjacent(Q[q], Q[p]) /\ f[p].prev = q
          BY <1>12, <1>18, <3>1, <3>3, <3>6, <4>2
        <5> QED  BY <1>3, <1>4, <1>6, <4>2, <5>1
      <4>3. CASE y # NoPage /\ y # p
        BY <1>3, <1>4, <1>13, <3>3, <3>6, <3>7, <4>3
      <4> QED  BY <4>1, <4>2, <4>3
    <3>9. PICK z : z = g[q].prev
      OBVIOUS
    <3>10. z = NoPage \/ (z \in 1..((n + 1) - 1) /\ g[z].leaf /\ g[z].next = q)
      <4>1. CASE q = nx
        <5>1. z = n
          BY <1>13, <2>3, <3>1, <3>9, <4>1
        <5> QED  BY <1>3, <1>4, <1>6, <4>1, <5>1
      <4>2. CASE q # nx
        <5>1. z = f[q].prev
          BY <1>13, <2>3, <3>1, <3>9, <4>2
        <5>2. z = NoPage \/ (z \in 1..(n - 1) /\ f[z].leaf /\ f[z].next = q)
          BY <3>2, <5>1 DEF IsLinked
        <5>3. z # p \/ z = NoPage
          BY <1>5, <4>2, <5>2
        <5> QED  BY <1>3, <1>4, <1>13, <5>2, <5>3
      <4> QED  BY <4>1, <4>2
    <3>11. g[q].next = y
      BY <1>13, <2>3, <3>1, <3>5
    <3>12. IsLinked(g, n + 1, Q, q)
      BY <3>8, <3>9, <3>10, <3>11 DEF IsLinked
    <3> QED  BY <3>3, <3>4, <3>12 DEF IsLeaf
  <2> QED  BY <2>1, <2>2, <2>3
<1>21. n + 1 \in Nat
  BY <1>1
<1>22. IsFile(g, n + 1)
  BY <1>6
<1> QED  BY <1>3, <1>4, <1>16, <1>17, <1>19, <1>20, <1>22 DEF IsTree

-----------------------------------------------------------------------------
(* The writes of an insert into a leaf.                                    *)

LEMMA LeadsBySame ==
  ASSUME NEW f, NEW v, NEW g, NEW ok, Leads(f, v, g, ok),
         NEW ws \in Seq(Write), Len(ws) = Len(v), \A i \in 1..Len(v) : ws[i] = v[i]
  PROVE  Leads(f, ws, g, ok)
<1>1. PICK h : Passes(h, f, v, g, ok)
  BY DEF Leads
<1>2. Passes(h, f, ws, g, ok)
  BY <1>1 DEF Passes
<1> QED  BY <1>2 DEF Leads

LEMMA LeadsByTwo ==
  ASSUME NEW f, NEW a, NEW g, NEW b, NEW h, NEW ok, Leads(f, <<a>>, g, ok), Leads(g, <<b>>, h, ok)
  PROVE  Leads(f, <<a, b>>, h, ok)
<1>1. Leads(f, <<a>> \o <<b>>, h, ok)
  BY LeadsByBoth
<1>2. PICK s : s = <<a>>
  OBVIOUS
<1>3. PICK t : t = <<b>>
  OBVIOUS
<1>4. s \in Seq(Write) /\ t \in Seq(Write) /\ Len(s) = 1 /\ Len(t) = 1 /\ s[1] = a /\ t[1] = b
  BY <1>2, <1>3 DEF Leads
<1>5. a \in Write /\ b \in Write
  <2>1. 1 \in 1..Len(s) /\ 1 \in 1..Len(t)
    BY <1>4
  <2>2. s[1] \in Write /\ t[1] \in Write
    BY <1>4, <2>1, ElementOf
  <2> QED  BY <1>4, <2>2
<1>6. PICK v : v = s \o t
  OBVIOUS
<1>7. Len(v) = 2 /\ v[1] = a /\ v[2] = b
  <2>1. /\ Len(v) = Len(s) + Len(t)
        /\ \A i \in 1..Len(s) : v[i] = s[i]
        /\ \A j \in 1..Len(t) : v[Len(s) + j] = t[j]
    BY <1>4, <1>6, Joined
  <2>2. 1 \in 1..1 /\ 1 + 1 = 2
    OBVIOUS
  <2>3. v[1] = a
    BY <1>4, <2>1, <2>2
  <2>4. v[2] = b
    BY <1>4, <2>1, <2>2
  <2> QED  BY <1>4, <2>1, <2>2, <2>3, <2>4
<1>8. PICK ws : ws = <<a, b>>
  OBVIOUS
<1>9. ws \in Seq(Write) /\ Len(ws) = 2 /\ ws[1] = a /\ ws[2] = b
  BY <1>5, <1>8
<1>10. \A i \in 1..2 : ws[i] = v[i]
  <2>1. \A i \in 1..2 : i = 1 \/ i = 2
    OBVIOUS
  <2> QED  BY <1>7, <1>9, <2>1
<1>11. Leads(f, v, h, ok)
  BY <1>1, <1>2, <1>3, <1>6
<1>12. Leads(f, ws, h, ok)
  BY <1>7, <1>9, <1>10, <1>11, LeadsBySame
<1> QED  BY <1>8, <1>12

LEMMA LeadsByThree ==
  ASSUME NEW f, NEW a, NEW g, NEW b, NEW h, NEW c, NEW i, NEW ok,
         Leads(f, <<a>>, g, ok), Leads(g, <<b>>, h, ok), Leads(h, <<c>>, i, ok)
  PROVE  Leads(f, <<a, b, c>>, i, ok)
<1>1. Leads(f, <<a, b>>, h, ok)
  BY LeadsByTwo
<1>2. PICK s : s = <<a, b>>
  OBVIOUS
<1>3. PICK t : t = <<c>>
  OBVIOUS
<1>4. s \in Seq(Write) /\ t \in Seq(Write)
  BY <1>1, <1>2, <1>3 DEF Leads
<1>5. Len(s) = 2 /\ Len(t) = 1 /\ s[1] = a /\ s[2] = b /\ t[1] = c
  BY <1>2, <1>3
<1>6. a \in Write /\ b \in Write /\ c \in Write
  <2>1. 1 \in 1..Len(s) /\ 2 \in 1..Len(s) /\ 1 \in 1..Len(t)
    BY <1>5
  <2>2. s[1] \in Write /\ s[2] \in Write /\ t[1] \in Write
    BY <1>4, <2>1, ElementOf
  <2> QED  BY <1>5, <2>2
<1>7. PICK v : v = s \o t
  OBVIOUS
<1>8. Len(v) = 3 /\ v[1] = a /\ v[2] = b /\ v[3] = c
  <2>1. /\ Len(v) = Len(s) + Len(t)
        /\ \A j \in 1..Len(s) : v[j] = s[j]
        /\ \A j \in 1..Len(t) : v[Len(s) + j] = t[j]
    BY <1>4, <1>7, Joined
  <2>2. 1 \in 1..1 /\ 1 \in 1..2 /\ 2 \in 1..2 /\ 2 + 1 = 3
    OBVIOUS
  <2>3. v[1] = a /\ v[2] = b
    BY <1>5, <2>1, <2>2
  <2>4. v[3] = c
    BY <1>5, <2>1, <2>2
  <2> QED  BY <1>5, <2>1, <2>2, <2>3, <2>4
<1>9. PICK ws : ws = <<a, b, c>>
  OBVIOUS
<1>10. ws \in Seq(Write) /\ Len(ws) = 3 /\ ws[1] = a /\ ws[2] = b /\ ws[3] = c
  BY <1>6, <1>9
<1>11. \A j \in 1..3 : ws[j] = v[j]
  <2>1. \A j \in 1..3 : j = 1 \/ j = 2 \/ j = 3
    OBVIOUS
  <2> QED  BY <1>8, <1>10, <2>1
<1>12. Leads(f, v, i, ok)
  <2>1. Leads(f, s, h, ok) /\ Leads(h, t, i, ok)
    BY <1>1, <1>2, <1>3
  <2> QED  BY <1>7, <2>1, LeadsByBoth
<1>13. Leads(f, ws, i, ok)
  BY <1>8, <1>10, <1>11, <1>12, LeadsBySame
<1> QED  BY <1>9, <1>13

(* The entries st are among those a process may find. *)
Allowed(st, ok) == \A k \in DOMAIN st : <<k, st[k]>> \in ok

LEMMA TreeIsReadable ==
  ASSUME NEW f, NEW n, NEW L, NEW R, NEW st, NEW d, NEW new, IsTree(f, n, L, R, st, d, new),
         NEW ok, Allowed(st, ok)
  PROVE  Sound(f, n, L, ok) /\ Readable(f, ok)
<1>1. \A k \in DOMAIN st : <<k, st[k]>> \in ok
  BY DEF Allowed
<1>2. Sound(f, n, L, ok)
  BY <1>1, TreeIsSound
<1> QED  BY <1>2 DEF Readable

(* Entries that hold some of st may be found. *)
LEMMA HeldAreAllowed ==
  ASSUME NEW es, NEW st, NEW S, Holds(es, st, S), NEW ok, Allowed(st, ok)
  PROVE  \A i \in 1..Len(es) : es[i] \in ok
<1>1. ASSUME NEW i \in 1..Len(es) PROVE es[i] \in ok
  <2>1. PICK k : k = es[i][1]
    OBVIOUS
  <2>2. k \in DOMAIN st /\ es[i] = <<k, st[k]>>
    BY <2>1 DEF Holds
  <2> QED  BY <2>2 DEF Allowed
<1> QED  BY <1>1

(* What the insert of one level hands to the level above: its writes lead to a
   tree, or to one that the page q and the new page were cut apart in.     *)
CutOf(R, q, new, s) ==
  /\ R[q] = LowPart(R[q] \cup R[new], s)
  /\ R[new] = HighPart(R[q] \cup R[new], s)
LeadsToTree(below, g, M, R, q, st) ==
  \/ below.split = FALSE /\ IsTree(g, below.next, M, R, st, NoPage, NoPage)
  \/ /\ below.split = TRUE /\ IsTree(g, below.next, M, R, st, q, below.new)
     /\ below.key \in Keys /\ below.new \in 1..(below.next - 1) /\ below.new # q /\ M[below.new] = M[q]
     /\ CutOf(R, q, below.new, below.key)
(* The levels above m were not touched. *)
UntouchedAbove(g, M, n, L, m) ==
  /\ g[0] = pages[0]
  /\ \A x \in 1..(n - 1) : M[x] = L[x] /\ (L[x] > m => g[x] = pages[x])
Handed(below, q, m, n, L, st, ok) ==
  \E g, M, R :
    /\ Leads(pages, below.writes, g, ok) /\ n <= below.next
    /\ UntouchedAbove(g, M, n, L, m) /\ LeadsToTree(below, g, M, R, q, st)

(* The entry fits in its leaf. *)
LEMMA LeafWritten ==
  ASSUME NEW n, NEW L, NEW R, NEW st, IsTree(pages, n, L, R, st, NoPage, NoPage),
         NEW p \in 1..(n - 1), pages[p].leaf,
         NEW node \in NodeRecord, node.leaf, node.id = p,
         node.next = pages[p].next, node.prev = pages[p].prev,
         NEW st2, Holds(node.entries, st2, R[p]), OthersHold(pages, n, R, st2, p),
         NEW ok, Allowed(st, ok), Allowed(st2, ok)
  PROVE  Handed(NotSplit(<<Written(node)>>, n), p, 0, n, L, st2, ok)
<1>1. PICK g : g = With(pages, p, node)
  OBVIOUS
<1>2. IsTree(g, n, L, R, st2, NoPage, NoPage) /\ g[0] = pages[0] /\ \A q \in 1..(n - 1) : q # p => g[q] = pages[q]
  BY <1>1, LeafRewritten
<1>3. Readable(pages, ok) /\ Readable(g, ok)
  BY <1>2, TreeIsReadable
<1>4. p \in Int
  OBVIOUS
<1>5. Leads(pages, <<<<p, node>>>>, g, ok)
  BY <1>1, <1>3, <1>4, LeadsByOne
<1>6. PICK below : below = NotSplit(<<Written(node)>>, n)
  OBVIOUS
<1>7. below.writes = <<<<p, node>>>> /\ below.next = n /\ below.split = FALSE
  BY <1>6 DEF NotSplit, Written
<1>8. n \in Nat /\ L[p] = 0
  BY TreeShape DEF IsLeaf
<1>9. UntouchedAbove(g, L, n, L, 0)
  <2>1. \A x \in 1..(n - 1) : L[x] > 0 => x # p
    BY <1>8
  <2> QED  BY <1>2, <2>1 DEF UntouchedAbove
<1>10. LeadsToTree(below, g, L, R, p, st2)
  BY <1>2, <1>7 DEF LeadsToTree
<1>11. n <= n
  BY <1>8
<1>12. Leads(pages, below.writes, g, ok) /\ n <= below.next
  BY <1>5, <1>7, <1>11
<1>13. Handed(below, p, 0, n, L, st2, ok)
  BY <1>9, <1>10, <1>12 DEF Handed
<1> QED  BY <1>6, <1>13

(* A page of zeros, then leaves: every descent keeps ending at a leaf. *)
LEMMA LeafIsPlaced ==
  ASSUME NEW node, node.leaf, NEW p, NEW f, NEW n, NEW L, L[p] = 0,
         NEW ok, \A i \in 1..Len(node.entries) : node.entries[i] \in ok
  PROVE  Placed(node, p, f, n, L, ok)
BY DEF Placed

(* What a write leaves as it was. *)
LEMMA WrittenWithin ==
  ASSUME NEW f, NEW n, NEW L, NEW ok, Sound(f, n, L, ok),
         NEW p \in 1..(n - 1), NEW node \in NodeRecord, node.id = p, Placed(node, p, f, n, L, ok)
  PROVE  /\ Sound(With(f, p, node), n, L, ok) /\ Leads(f, <<<<p, node>>>>, With(f, p, node), ok)
         /\ With(f, p, node)[p] = node
         /\ \A q \in 0..(n - 1) : q # p => With(f, p, node)[q] = f[q]
<1>1. PICK g : g = With(f, p, node)
  OBVIOUS
<1>2. Sound(g, n, L, ok)
  BY <1>1, SoundWithNode
<1>3. Readable(f, ok) /\ Readable(g, ok)
  BY <1>2 DEF Readable
<1>4. p \in Int /\ IsFile(f, n)
  BY DEF Sound
<1>5. Leads(f, <<<<p, node>>>>, g, ok)
  BY <1>1, <1>3, <1>4, LeadsByOne
<1>6. p \in 0..(n - 1)
  BY <1>4 DEF IsFile
<1>7. g[p] = node /\ \A q \in 0..(n - 1) : q # p => g[q] = f[q]
  BY <1>1, <1>4, <1>6, WithinShape DEF Rewritten
<1> QED  BY <1>1, <1>2, <1>5, <1>7

SameBelow(g, f, n) == \A q \in 0..(n - 1) : g[q] = f[q]
MoreLevels(M, L, n) == M \in [1..((n + 1) - 1) -> Nat] /\ \A q \in 1..(n - 1) : M[q] = L[q]

LEMMA ZerosWritten ==
  ASSUME NEW f, NEW n, NEW L, NEW ok, Sound(f, n, L, ok), NEW M, MoreLevels(M, L, n)
  PROVE  /\ Sound(With(f, n, Zero), n + 1, M, ok) /\ Leads(f, <<Allocated(n)>>, With(f, n, Zero), ok)
         /\ SameBelow(With(f, n, Zero), f, n)
<1>1. PICK g : g = With(f, n, Zero)
  OBVIOUS
<1>2. IsFile(f, n) /\ n \in Nat /\ n # 0 /\ L \in [1..(n - 1) -> Nat] /\ (n + 1) - 1 = n
  BY DEF Sound, IsFile
<1>3. PICK l \in Nat : l = M[n]
  BY <1>2 DEF MoreLevels
<1>4. M = [q \in 1..n |-> IF q = n THEN l ELSE L[q]]
  BY <1>2, <1>3 DEF MoreLevels
<1>5. Sound(g, n + 1, M, ok)
  BY <1>1, <1>4, SoundWithZeros
<1>6. Readable(f, ok) /\ Readable(g, ok)
  BY <1>5 DEF Readable
<1>7. n \in Int /\ Zero \in NodeRecord /\ ~Zero.leaf
  BY <1>2, ZeroIsNode
<1>8. Leads(f, <<<<n, Zero>>>>, g, ok)
  BY <1>1, <1>6, <1>7, LeadsByOne
<1>9. Extended(f, g, n, Zero)
  BY <1>1, <1>2, <1>7, BeyondShape
<1>10. SameBelow(g, f, n)
  BY <1>9 DEF Extended, SameBelow
<1> QED  BY <1>1, <1>5, <1>8, <1>10 DEF Allocated

(* The next leaf, if there is one, is given a new neighbour. *)
NeighbourTold(g, nx, p, n) ==
  /\ nx # NoPage => nx # p /\ g[nx] = [pages[nx] EXCEPT !.prev = n]
  /\ \A q \in 0..(n - 1) : q # nx => g[q] = pages[q]
LEMMA NeighbourWritten ==
  ASSUME NEW n, NEW L, NEW R, NEW st, IsTree(pages, n, L, R, st, NoPage, NoPage),
         NEW p \in 1..(n - 1), pages[p].leaf, NEW ok, Allowed(st, ok),
         NEW f, NEW M, Sound(f, n + 1, M, ok), MoreLevels(M, L, n), SameBelow(f, pages, n)
  PROVE  \E g : /\ Sound(g, n + 1, M, ok) /\ Leads(f, NeighbourWrite(pages[p], n), g, ok)
                /\ NeighbourTold(g, pages[p].next, p, n)
<1>1. PICK nx : nx = pages[p].next
  OBVIOUS
<1>2. /\ n \in Nat /\ n # 0
      /\ L \in [1..(n - 1) -> Nat] /\ R \in [1..(n - 1) -> SUBSET Int]
      /\ \A q \in 1..(n - 1) : q \in 0..(n - 1) /\ pages[q] \in NodeRecord /\ pages[q].id = q
      /\ \A q \in 1..(n - 1) : R[q] # {}
      /\ \A q \in 1..(n - 1) : pages[q].leaf => IsLeaf(pages, n, L, R, st, q)
  BY TreeShape
<1>3. IsLinked(pages, n, R, p)
  BY <1>2 DEF IsLeaf
<1>4. nx = NoPage \/ (nx \in 1..(n - 1) /\ pages[nx].leaf /\ Adjacent(R[p], R[nx]))
  BY <1>1, <1>3 DEF IsLinked
<1>5. CASE nx = NoPage
  <2>1. NeighbourWrite(pages[p], n) = <<>>
    BY <1>1, <1>5 DEF NeighbourWrite
  <2>2. Readable(f, ok)
    BY DEF Readable
  <2>3. Leads(f, <<>>, f, ok)
    BY <2>2, LeadsByNone
  <2>4. NeighbourTold(f, nx, p, n)
    BY <1>5 DEF NeighbourTold, SameBelow
  <2> QED  BY <1>1, <2>1, <2>3, <2>4
<1>6. CASE nx # NoPage
  <2>1. nx \in 1..(n - 1) /\ pages[nx].leaf /\ Adjacent(R[p], R[nx])
    BY <1>4, <1>6
  <2>2. nx # p
    <3>1. PICK A : A = R[p]
      OBVIOUS
    <3>2. PICK B : B = R[nx]
      OBVIOUS
    <3>3. A \subseteq Int /\ B \subseteq Int /\ A # {} /\ B # {} /\ Adjacent(A, B)
      BY <1>2, <2>1, <3>1, <3>2
    <3>4. A # B
      BY <3>3, NotBoth
    <3> QED  BY <3>1, <3>2, <3>4
  <2>3. PICK node : node = [pages[nx] EXCEPT !.prev = n]
    OBVIOUS
  <2>4. pages[nx] \in NodeRecord /\ pages[nx].id = nx /\ n \in Int
    BY <1>2, <2>1
  <2>5. /\ node \in NodeRecord /\ node.id = nx /\ node.leaf
        /\ node.entries = pages[nx].entries
    BY <2>1, <2>3, <2>4 DEF NodeRecord
  <2>6. L[nx] = 0 /\ Holds(pages[nx].entries, st, R[nx])
    BY <1>2, <2>1 DEF IsLeaf
  <2>7. \A i \in 1..Len(node.entries) : node.entries[i] \in ok
    BY <2>5, <2>6, HeldAreAllowed
  <2>8. M[nx] = 0 /\ nx \in 1..((n + 1) - 1)
    BY <1>2, <2>1, <2>6 DEF MoreLevels
  <2>9. Placed(node, nx, f, n + 1, M, ok)
    BY <2>5, <2>7, <2>8, LeafIsPlaced
  <2>10. PICK g : g = With(f, nx, node)
    OBVIOUS
  <2>11. /\ Sound(g, n + 1, M, ok) /\ Leads(f, <<<<nx, node>>>>, g, ok)
         /\ g[nx] = node /\ \A q \in 0..((n + 1) - 1) : q # nx => g[q] = f[q]
    BY <2>5, <2>8, <2>9, <2>10, WrittenWithin
  <2>12. NeighbourWrite(pages[p], n) = <<<<nx, node>>>>
    <3>1. Written(node) = <<nx, node>>
      BY <2>5 DEF Written
    <3> QED  BY <1>1, <1>6, <2>3, <3>1 DEF NeighbourWrite
  <2>13. \A q \in 0..(n - 1) : q # nx => g[q] = pages[q]
    <3>1. \A q \in 0..(n - 1) : q \in 0..((n + 1) - 1)
      BY <1>2
    <3> QED  BY <2>11, <3>1 DEF SameBelow
  <2>14. NeighbourTold(g, nx, p, n)
    BY <2>2, <2>3, <2>11, <2>13 DEF NeighbourTold
  <2> QED  BY <1>1, <2>11, <2>12, <2>14
<1> QED  BY <1>5, <1>6

(* The entry is one too many, and the leaf is cut in two. *)
LEMMA LeafSplit ==
  ASSUME Parameters, NEW n, NEW L, NEW R, NEW st, IsTree(pages, n, L, R, st, NoPage, NoPage),
         NEW p \in 1..(n - 1), pages[p].leaf,
         NEW left \in NodeRecord, left.leaf, left.id = p, left.next = n, left.prev = pages[p].prev,
         NEW right \in NodeRecord, right.leaf, right.id = n, right.next = pages[p].next, right.prev = p,
         NEW s \in Keys, LowPart(R[p], s) # {}, HighPart(R[p], s) # {},
         NEW st2, Holds(left.entries, st2, LowPart(R[p], s)),
         Holds(right.entries, st2, HighPart(R[p], s)), OthersHold(pages, n, R, st2, p),
         NEW ok, Allowed(st, ok), Allowed(st2, ok)
  PROVE  Handed(Split(<<Allocated(n)>> \o NeighbourWrite(pages[p], n) \o <<Written(left), Written(right)>>,
                      n + 1, s, n), p, 0, n, L, st2, ok)
<1>1. /\ n \in Nat /\ n # 0 /\ IsFile(pages, n)
      /\ L \in [1..(n - 1) -> Nat] /\ R \in [1..(n - 1) -> SUBSET Int]
      /\ IsLeaf(pages, n, L, R, st, p)
      /\ pages[0].id \in 1..(n - 1)
  BY TreeShape
<1>2. s \in Int /\ L[p] = 0 /\ n \in Int
  BY <1>1 DEF Parameters, IsLeaf
<1>3. PICK M, Q : CutAt(L, R, M, Q, n, p, s)
  BY <1>2, RangesCut
<1>4. /\ M \in [1..((n + 1) - 1) -> Nat]
      /\ M[n] = 0 /\ \A q \in 1..(n - 1) : M[q] = L[q]
      /\ Q[n] = HighPart(R[p], s) /\ Q[p] = LowPart(R[p], s) /\ Q[p] \cup Q[n] = R[p]
  BY <1>2, <1>3 DEF CutAt
<1>5. /\ n \in 1..((n + 1) - 1) /\ p \in 1..((n + 1) - 1) /\ p # n
      /\ \A q \in 0..(n - 1) : q \in 0..((n + 1) - 1) /\ q # n
      /\ p \in 0..(n - 1) /\ p \in Int
  BY <1>1
<1>6. PICK f1 : f1 = With(pages, n, Zero)
  OBVIOUS
<1>7. /\ Sound(f1, n + 1, M, ok) /\ Leads(pages, <<Allocated(n)>>, f1, ok)
      /\ SameBelow(f1, pages, n) /\ MoreLevels(M, L, n)
  <2>1. Sound(pages, n, L, ok)
    BY TreeIsReadable
  <2>2. MoreLevels(M, L, n)
    BY <1>4 DEF MoreLevels
  <2> QED  BY <1>6, <2>1, <2>2, ZerosWritten
<1>8. PICK f2 :
        /\ Sound(f2, n + 1, M, ok) /\ Leads(f1, NeighbourWrite(pages[p], n), f2, ok)
        /\ NeighbourTold(f2, pages[p].next, p, n)
  BY <1>7, NeighbourWritten
<1>9. PICK f3 : f3 = With(f2, p, left)
  OBVIOUS
<1>10. /\ Sound(f3, n + 1, M, ok) /\ Leads(f2, <<<<p, left>>>>, f3, ok)
       /\ f3[p] = left /\ \A q \in 0..((n + 1) - 1) : q # p => f3[q] = f2[q]
  <2>1. \A i \in 1..Len(left.entries) : left.entries[i] \in ok
    BY HeldAreAllowed
  <2>2. M[p] = 0
    BY <1>2, <1>4
  <2>3. Placed(left, p, f2, n + 1, M, ok)
    BY <2>1, <2>2, LeafIsPlaced
  <2> QED  BY <1>5, <1>8, <1>9, <2>3, WrittenWithin
<1>11. PICK g : g = With(f3, n, right)
  OBVIOUS
<1>12. /\ Sound(g, n + 1, M, ok) /\ Leads(f3, <<<<n, right>>>>, g, ok)
       /\ g[n] = right /\ \A q \in 0..((n + 1) - 1) : q # n => g[q] = f3[q]
  <2>1. \A i \in 1..Len(right.entries) : right.entries[i] \in ok
    BY HeldAreAllowed
  <2>2. Placed(right, n, f3, n + 1, M, ok)
    BY <1>4, <2>1, LeafIsPlaced
  <2> QED  BY <1>5, <1>10, <1>11, <2>2, WrittenWithin
<1>13. PICK ws : ws = <<Allocated(n)>> \o NeighbourWrite(pages[p], n) \o <<Written(left), Written(right)>>
  OBVIOUS
<1>14. Leads(pages, ws, g, ok)
  <2>1. Leads(pages, <<Allocated(n)>> \o NeighbourWrite(pages[p], n), f2, ok)
    BY <1>7, <1>8, LeadsByBoth
  <2>2. Written(left) = <<p, left>> /\ Written(right) = <<n, right>>
    BY DEF Written
  <2>3. Leads(f2, <<Written(left), Written(right)>>, g, ok)
    BY <1>10, <1>12, <2>2, LeadsByTwo
  <2> QED  BY <1>13, <2>1, <2>3, LeadsByBoth
<1>15. LeafCut(pages, g, n, p, left, right)
  <2>1. IsFile(g, n + 1)
    BY <1>12 DEF Sound
  <2>2. g[p] = left
    BY <1>5, <1>10, <1>12
  <2>3. \A q \in 0..(n - 1) : q # p => g[q] = f2[q]
    BY <1>5, <1>10, <1>12
  <2>4. PICK nx : nx = pages[p].next
    OBVIOUS
  <2>5. nx # NoPage => nx \in 0..(n - 1)
    <3>1. IsLinked(pages, n, R, p)
      BY <1>1 DEF IsLeaf
    <3>2. nx = NoPage \/ nx \in 1..(n - 1)
      BY <2>4, <3>1 DEF IsLinked
    <3> QED  BY <1>1, <3>2
  <2>6. nx # NoPage => g[nx] = [pages[nx] EXCEPT !.prev = n]
    BY <1>8, <2>3, <2>4, <2>5 DEF NeighbourTold
  <2>7. \A q \in 0..(n - 1) : q # p /\ q # nx => g[q] = pages[q]
    BY <1>8, <2>3, <2>4 DEF NeighbourTold
  <2> QED  BY <1>12, <2>1, <2>2, <2>4, <2>6, <2>7 DEF LeafCut
<1>16. IsTree(g, n + 1, M, Q, st2, p, n)
  BY <1>2, <1>3, <1>15, LeafCutTree
<1>17. PICK below : below = Split(ws, n + 1, s, n)
  OBVIOUS
<1>18. below.writes = ws /\ below.next = n + 1 /\ below.split = TRUE /\ below.key = s /\ below.new = n
  BY <1>17 DEF Split
<1>19. CutOf(Q, p, n, s)
  BY <1>4 DEF CutOf
<1>20. LeadsToTree(below, g, M, Q, p, st2)
  <2>1. M[n] = M[p]
    BY <1>2, <1>4
  <2> QED  BY <1>5, <1>16, <1>18, <1>19, <2>1 DEF LeadsToTree
<1>21. UntouchedAbove(g, M, n, L, 0)
  <2>1. ASSUME NEW x \in 1..(n - 1), L[x] > 0 PROVE g[x] = pages[x]
    <3>1. x # p /\ x \in 0..(n - 1)
      BY <1>1, <1>2, <2>1
    <3>2. x # pages[p].next
      <4>1. IsLinked(pages, n, R, p)
        BY <1>1 DEF IsLeaf
      <4>2. pages[x].leaf => L[x] = 0
        BY TreeShape DEF IsLeaf
      <4>3. ~pages[x].leaf
        BY <2>1, <4>2
      <4> QED  BY <4>1, <4>3 DEF IsLinked, NoPage
    <3> QED  BY <1>15, <3>1, <3>2 DEF LeafCut
  <2>2. g[0] = pages[0]
    <3>1. 0 \in 0..(n - 1) /\ 0 # p
      BY <1>1
    <3>2. 0 # pages[p].next
      <4>1. IsLinked(pages, n, R, p)
        BY <1>1 DEF IsLeaf
      <4> QED  BY <4>1 DEF IsLinked, NoPage
    <3> QED  BY <1>15, <3>1, <3>2 DEF LeafCut
  <2> QED  BY <1>4, <2>1, <2>2 DEF UntouchedAbove
<1>22. n <= below.next
  BY <1>1, <1>18
<1>23. Handed(below, p, 0, n, L, st2, ok)
  BY <1>14, <1>18, <1>20, <1>21, <1>22 DEF Handed
<1> QED  BY <1>13, <1>17, <1>23

(* An insert into a leaf, whether it fits or not. *)
LEMMA LeafHands ==
  ASSUME Parameters, NEW n, NEW L, NEW R, NEW st, IsTree(pages, n, L, R, st, NoPage, NoPage),
         NEW p \in 1..(n - 1), pages[p].leaf,
         NEW k \in Keys, NEW r \in Rids, k \notin DOMAIN st, k \in R[p],
         NEW ok, Allowed(st, ok), Allowed(With(st, k, r), ok)
  PROVE  Handed(InsertInLeaf(pages[p], <<k, r>>), p, 0, n, L, With(st, k, r), ok)
<1>1. PICK leaf : leaf = pages[p]
  OBVIOUS
<1>2. PICK st2 : st2 = With(st, k, r)
  OBVIOUS
<1>3. /\ IsFile(pages, n) /\ n \in Nat /\ R[p] \in SUBSET Int
      /\ leaf \in NodeRecord /\ leaf.id = p /\ IsLeaf(pages, n, L, R, st, p)
  BY <1>1, TreeShape
<1>4. NextPage = n
  BY <1>3, FileSize DEF NextPage
<1>5. PICK es : es = leaf.entries
  OBVIOUS
<1>6. es \in Seq(Entry) /\ Holds(es, st, R[p])
  BY <1>1, <1>3, <1>5 DEF NodeRecord, IsLeaf
<1>7. PICK t : t = InsertAt(es, Before(es, k) + 1, <<k, r>>)
  OBVIOUS
<1>8. t \in Seq(Entry) /\ Len(t) = Len(es) + 1 /\ Holds(t, st2, R[p])
  BY <1>2, <1>6, <1>7, EntryAdded
<1>9. PICK full : full = [leaf EXCEPT !.entries = t]
  OBVIOUS
<1>10. /\ full \in NodeRecord /\ full.leaf = leaf.leaf /\ full.id = p /\ full.entries = t
       /\ full.next = leaf.next /\ full.prev = leaf.prev
  BY <1>3, <1>8, <1>9 DEF NodeRecord
<1>11. WithEntry(leaf, <<k, r>>) = full
  BY <1>5, <1>7, <1>9 DEF WithEntry
<1>12. OthersHold(pages, n, R, st2, p)
  BY <1>2, OthersApart
<1>13. PICK half : half = Len(t) \div 2
  OBVIOUS
<1>14. PICK u : u = SubSeq(t, 1, half)
  OBVIOUS
<1>15. PICK v : v = SubSeq(t, half + 1, Len(t))
  OBVIOUS
<1>16. PICK left : left = [leaf EXCEPT !.entries = u, !.next = n]
  OBVIOUS
<1>17. PICK right : right = RightHalf(leaf, n, v)
  OBVIOUS
<1>18. right.entries = v
  BY <1>17 DEF RightHalf, Leaf, Node
<1>19. PICK ws : ws = <<Allocated(n)>> \o NeighbourWrite(leaf, n) \o <<Written(left), Written(right)>>
  OBVIOUS
<1>20. PICK below : below = InsertInLeaf(leaf, <<k, r>>)
  OBVIOUS
<1>21. below = IF Len(t) <= LeafCapacity THEN NotSplit(<<Written(full)>>, n)
               ELSE Split(ws, n + 1, v[1][1], n)
  BY <1>4, <1>10, <1>11, <1>13, <1>14, <1>15, <1>16, <1>17, <1>18, <1>19, <1>20 DEF InsertInLeaf, LeafFits
<1>22. CASE Len(t) <= LeafCapacity
  <2>1. Handed(NotSplit(<<Written(full)>>, n), p, 0, n, L, st2, ok)
    BY <1>1, <1>2, <1>8, <1>10, <1>12, LeafWritten
  <2> QED  BY <1>1, <1>2, <1>20, <1>21, <1>22, <2>1
<1>23. CASE ~(Len(t) <= LeafCapacity)
  <2>1. Len(t) \in Nat /\ Len(t) >= 2 /\ LeafCapacity \in Nat \ {0}
    <3>1. LeafCapacity \in Nat \ {0}
      BY DEF Parameters
    <3>2. Len(t) \in Nat
      BY <1>8
    <3> QED  BY <1>23, <3>1, <3>2
  <2>2. half \in 1..(Len(t) - 1)
    BY <1>13, <2>1, HalfOf
  <2>3. PICK s : s = t[half + 1][1]
    OBVIOUS
  <2>4. /\ u \in Seq(Entry) /\ Holds(u, st2, LowPart(R[p], s))
        /\ v \in Seq(Entry) /\ Holds(v, st2, HighPart(R[p], s))
        /\ v[1][1] = s /\ s \in Keys
        /\ LowPart(R[p], s) # {} /\ HighPart(R[p], s) # {}
    <3>1. PICK S : S = R[p]
      OBVIOUS
    <3>2. S \subseteq Int /\ Holds(t, st2, S)
      BY <1>3, <1>8, <3>1
    <3>3. /\ SubSeq(t, 1, half) \in Seq(Entry) /\ Holds(SubSeq(t, 1, half), st2, LowPart(S, s))
          /\ SubSeq(t, half + 1, Len(t)) \in Seq(Entry)
          /\ Holds(SubSeq(t, half + 1, Len(t)), st2, HighPart(S, s))
          /\ SubSeq(t, half + 1, Len(t))[1][1] = s /\ s \in Keys
          /\ LowPart(S, s) # {} /\ HighPart(S, s) # {}
      BY <1>8, <2>2, <2>3, <3>2, EntriesHalved
    <3> QED  BY <1>14, <1>15, <3>1, <3>3
  <2>5. /\ left \in NodeRecord /\ left.leaf = leaf.leaf /\ left.id = p /\ left.next = n
        /\ left.prev = leaf.prev /\ left.entries = u
    <3>1. n \in Int
      BY <1>3
    <3> QED  BY <1>3, <1>16, <2>4, <3>1 DEF NodeRecord
  <2>6. /\ right \in NodeRecord /\ right.leaf /\ right.id = n /\ right.next = leaf.next /\ right.prev = p
    <3>1. right = Node(n, TRUE, leaf.next, p, <<>>, <<>>, v)
      BY <1>3, <1>17 DEF RightHalf, Leaf
    <3>2. n \in Int /\ leaf.next \in Int /\ p \in Int
      BY <1>3 DEF NodeRecord
    <3>3. <<>> \in Seq(Keys) /\ <<>> \in Seq(Int) /\ TRUE \in BOOLEAN
      OBVIOUS
    <3> QED  BY <2>4, <3>1, <3>2, <3>3 DEF Node, NodeRecord
  <2>7. Handed(Split(ws, n + 1, s, n), p, 0, n, L, st2, ok)
    <3>1. ws = <<Allocated(n)>> \o NeighbourWrite(pages[p], n) \o <<Written(left), Written(right)>>
      BY <1>1, <1>19
    <3>2. Holds(left.entries, st2, LowPart(R[p], s)) /\ Holds(right.entries, st2, HighPart(R[p], s))
      BY <1>18, <2>4, <2>5
    <3>3. Allowed(st2, ok)
      BY <1>2
    <3>4. left.leaf /\ left.prev = pages[p].prev /\ right.next = pages[p].next
      BY <1>1, <2>5, <2>6
    <3> QED  BY <1>12, <2>4, <2>5, <2>6, <3>1, <3>2, <3>3, <3>4, LeafSplit
  <2>8. below = Split(ws, n + 1, s, n)
    BY <1>21, <1>23, <2>4
  <2> QED  BY <1>1, <1>2, <1>20, <2>7, <2>8
<1> QED  BY <1>22, <1>23

-----------------------------------------------------------------------------
(* A separator and a page more in a node.                                  *)

(* The i-th share is bounded by the separators on either side. *)
LEMMA ShareBetween ==
  ASSUME NEW keys, NEW S, NEW i, NEW k
  PROVE  k \in Share(keys, S, i) <=>
           k \in S /\ (i > 1 => keys[i - 1] <= k) /\ (i <= Len(keys) => k < keys[i])
BY DEF Share

LEMMA KeysInserted ==
  ASSUME Parameters, NEW keys \in Seq(Keys), InOrder(keys), NEW S \in SUBSET Int,
         NEW a \in 1..(Len(keys) + 1), NEW s \in Keys, NEW t \in Seq(Keys), Inserted(keys, t, a, s),
         LowPart(Share(keys, S, a), s) # {}, HighPart(Share(keys, S, a), s) # {}
  PROVE  /\ InOrder(t) /\ Len(t) = Len(keys) + 1
         /\ \A i \in 1..(a - 1) : Share(t, S, i) = Share(keys, S, i)
         /\ Share(t, S, a) = LowPart(Share(keys, S, a), s)
         /\ Share(t, S, a + 1) = HighPart(Share(keys, S, a), s)
         /\ \A i \in (a + 2)..(Len(keys) + 2) : Share(t, S, i) = Share(keys, S, i - 1)
<1>1. PICK m : m = Len(keys)
  OBVIOUS
<1>2. m \in Nat /\ a \in Nat /\ a \in 1..(m + 1) /\ s \in Int
  BY <1>1 DEF Parameters
<1>3. /\ Len(t) = m + 1 /\ t[a] = s
      /\ \A i \in 1..(a - 1) : t[i] = keys[i]
      /\ \A i \in (a + 1)..(m + 1) : t[i] = keys[i - 1]
  BY <1>1 DEF Inserted
<1>4. \A i \in 1..m : keys[i] \in Int
  <2>1. \A i \in 1..m : keys[i] \in Keys
    BY <1>1, ElementOf
  <2> QED  BY <2>1 DEF Parameters
<1>5. \A i \in 1..(m + 1) : t[i] \in Int
  <2>1. \A i \in 1..(m + 1) : t[i] \in Keys
    BY <1>3, ElementOf
  <2> QED  BY <2>1 DEF Parameters
<1>6. PICK W : W = Share(keys, S, a)
  OBVIOUS
<1>7. W \subseteq Int
  BY <1>6 DEF Share
<1>8. a > 1 => a - 1 \in 1..m /\ keys[a - 1] < s
  <2>1. ASSUME a > 1 PROVE keys[a - 1] < s
    <3>1. PICK x : x \in LowPart(W, s)
      BY <1>6
    <3>2. x \in W /\ x < s /\ x \in Int
      BY <1>7, <3>1 DEF LowPart
    <3>3. keys[a - 1] <= x
      BY <1>6, <2>1, <3>2 DEF Share
    <3>4. a - 1 \in 1..m
      BY <1>2, <2>1
    <3>5. keys[a - 1] \in Int
      BY <1>4, <3>4
    <3> QED  BY <1>2, <3>2, <3>3, <3>5
  <2> QED  BY <1>2, <2>1
<1>9. a <= m => a \in 1..m /\ s < keys[a]
  <2>1. ASSUME a <= m PROVE s < keys[a]
    <3>1. PICK x : x \in HighPart(W, s)
      BY <1>6
    <3>2. x \in W /\ s <= x /\ x \in Int
      BY <1>7, <3>1 DEF HighPart
    <3>3. x < keys[a]
      BY <1>1, <1>6, <2>1, <3>2 DEF Share
    <3>4. a \in 1..m
      BY <1>2, <2>1
    <3>5. keys[a] \in Int
      BY <1>4, <3>4
    <3> QED  BY <1>2, <3>2, <3>3, <3>5
  <2> QED  BY <1>2, <2>1
<1>10. \A i, j \in 1..m : i < j => keys[i] < keys[j]
  BY <1>1 DEF InOrder
<1>11. ASSUME NEW i \in 1..m, i < a PROVE keys[i] < s
  <2>1. a > 1 /\ a - 1 \in 1..m /\ keys[a - 1] < s
    BY <1>2, <1>8, <1>11
  <2>2. i = a - 1 \/ i < a - 1
    BY <1>2, <1>11
  <2>3. i < a - 1 => keys[i] < keys[a - 1]
    BY <1>10, <2>1
  <2>4. keys[i] \in Int /\ keys[a - 1] \in Int
    BY <1>4, <2>1
  <2> QED  BY <1>2, <2>1, <2>2, <2>3, <2>4
<1>12. ASSUME NEW i \in 1..m, i >= a PROVE s < keys[i]
  <2>1. a <= m /\ a \in 1..m /\ s < keys[a]
    BY <1>2, <1>9, <1>12
  <2>2. i = a \/ a < i
    BY <1>2, <1>12
  <2>3. a < i => keys[a] < keys[i]
    BY <1>10, <2>1
  <2>4. keys[i] \in Int /\ keys[a] \in Int
    BY <1>4, <2>1
  <2> QED  BY <1>2, <2>1, <2>2, <2>3, <2>4
<1>13. \A i \in 1..(m + 1) : i < a \/ i = a \/ i > a
  BY <1>2
<1>14. \A i \in 1..(m + 1) : i < a => i \in 1..m /\ t[i] = keys[i]
  BY <1>2, <1>3
<1>15. \A i \in 1..(m + 1) : i > a => i - 1 \in 1..m /\ i - 1 >= a /\ t[i] = keys[i - 1]
  BY <1>2, <1>3
<1>16. ASSUME NEW i \in 1..(m + 1), NEW j \in 1..(m + 1), i < j PROVE t[i] < t[j]
  <2>1. CASE j < a
    <3>1. i < a
      BY <1>2, <1>16, <2>1
    <3> QED  BY <1>10, <1>14, <1>16, <2>1, <3>1
  <2>2. CASE j = a
    BY <1>3, <1>11, <1>14, <1>16, <2>2
  <2>3. CASE j > a /\ i < a
    <3>1. t[i] < s /\ s < t[j]
      BY <1>11, <1>12, <1>14, <1>15, <2>3
    <3> QED  BY <1>2, <1>5, <3>1
  <2>4. CASE j > a /\ i = a
    BY <1>3, <1>12, <1>15, <2>4
  <2>5. CASE j > a /\ i > a
    <3>1. i - 1 < j - 1
      BY <1>16
    <3> QED  BY <1>10, <1>15, <2>5, <3>1
  <2> QED  BY <1>13, <2>1, <2>2, <2>3, <2>4, <2>5
<1>17. ASSUME NEW i \in 1..(a - 1) PROVE Share(t, S, i) = Share(keys, S, i)
  <2>1. i \in 1..(m + 1) /\ i < a /\ i \in 1..m /\ t[i] = keys[i]
    BY <1>2, <1>14
  <2>2. i > 1 => i - 1 \in 1..(m + 1) /\ i - 1 < a
    BY <1>2, <2>1
  <2>3. i > 1 => t[i - 1] = keys[i - 1]
    BY <1>14, <2>2
  <2>4. i <= Len(t) /\ i <= Len(keys)
    BY <1>1, <1>3, <2>1
  <2>5. \A k : k \in Share(t, S, i) <=> k \in Share(keys, S, i)
    BY <2>1, <2>3, <2>4, ShareBetween
  <2> QED  BY <2>5
<1>18. Share(t, S, a) = LowPart(W, s)
  <2>1. a <= Len(t) /\ t[a] = s
    BY <1>2, <1>3
  <2>2. a > 1 => t[a - 1] = keys[a - 1]
    BY <1>2, <1>14
  <2>3. ASSUME NEW k \in Share(t, S, a) PROVE k \in LowPart(W, s)
    <3>1. k \in S /\ k \in Int /\ (a > 1 => keys[a - 1] <= k) /\ k < s
      BY <2>1, <2>2, ShareBetween
    <3>2. a <= m => k < keys[a]
      <4>1. a <= m => keys[a] \in Int /\ s < keys[a]
        BY <1>4, <1>9
      <4> QED  BY <1>2, <3>1, <4>1
    <3>3. k \in W
      BY <1>1, <1>6, <3>1, <3>2, ShareBetween
    <3> QED  BY <3>1, <3>3 DEF LowPart
  <2>4. ASSUME NEW k \in LowPart(W, s) PROVE k \in Share(t, S, a)
    <3>1. k \in W /\ k < s
      BY DEF LowPart
    <3>2. k \in S /\ (a > 1 => keys[a - 1] <= k)
      BY <1>6, <3>1, ShareBetween
    <3> QED  BY <2>1, <2>2, <3>1, <3>2, ShareBetween
  <2> QED  BY <2>3, <2>4
<1>19. Share(t, S, a + 1) = HighPart(W, s)
  <2>1. a + 1 > 1 /\ (a + 1) - 1 = a /\ t[a] = s
    BY <1>2, <1>3
  <2>2. a + 1 <= Len(t) <=> a <= m
    BY <1>2, <1>3
  <2>3. a <= m => t[a + 1] = keys[a]
    <3>1. a <= m => a + 1 \in (a + 1)..(m + 1) /\ (a + 1) - 1 = a
      BY <1>2
    <3> QED  BY <1>3, <3>1
  <2>4. ASSUME NEW k \in Share(t, S, a + 1) PROVE k \in HighPart(W, s)
    <3>1. k \in S /\ k \in Int /\ s <= k /\ (a <= m => k < keys[a])
      BY <2>1, <2>2, <2>3, ShareBetween
    <3>2. a > 1 => keys[a - 1] <= k
      <4>1. a > 1 => keys[a - 1] \in Int /\ keys[a - 1] < s
        BY <1>4, <1>8
      <4> QED  BY <1>2, <3>1, <4>1
    <3>3. k \in W
      BY <1>1, <1>6, <3>1, <3>2, ShareBetween
    <3> QED  BY <3>1, <3>3 DEF HighPart
  <2>5. ASSUME NEW k \in HighPart(W, s) PROVE k \in Share(t, S, a + 1)
    <3>1. k \in W /\ s <= k
      BY DEF HighPart
    <3>2. k \in S /\ (a <= m => k < keys[a])
      BY <1>1, <1>6, <3>1, ShareBetween
    <3> QED  BY <2>1, <2>2, <2>3, <3>1, <3>2, ShareBetween
  <2> QED  BY <2>4, <2>5
<1>20. ASSUME NEW i \in (a + 2)..(m + 2) PROVE Share(t, S, i) = Share(keys, S, i - 1)
  <2>1. PICK j : j = i - 1
    OBVIOUS
  <2>2. j \in 1..(m + 1) /\ j > a /\ j \in Nat /\ i = j + 1 /\ j > 1 /\ i > 1 /\ i - 1 = j
    BY <1>2, <2>1
  <2>3. t[j] = keys[j - 1]
    BY <1>15, <2>2
  <2>4. (i <= Len(t)) <=> (j <= m)
    BY <1>2, <1>3, <2>2
  <2>5. j <= m => t[i] = keys[j]
    <3>1. j <= m => i \in 1..(m + 1) /\ i > a
      BY <1>2, <2>2
    <3> QED  BY <1>15, <2>2, <3>1
  <2>6. \A k : k \in Share(t, S, i) <=> k \in S /\ t[j] <= k /\ (j <= m => k < t[i])
    BY <2>2, <2>4, ShareBetween
  <2>7. \A k : k \in Share(keys, S, j) <=> k \in S /\ keys[j - 1] <= k /\ (j <= m => k < keys[j])
    BY <1>1, <2>2, ShareBetween
  <2>8. \A k : k \in Share(t, S, i) <=> k \in Share(keys, S, j)
    BY <2>3, <2>5, <2>6, <2>7
  <2> QED  BY <2>1, <2>8
<1>21. InOrder(t)
  BY <1>3, <1>16 DEF InOrder
<1> QED  BY <1>1, <1>3, <1>6, <1>17, <1>18, <1>19, <1>20, <1>21

(* Separators and children that share S among them, each child with the range of its share. *)
Fans(keys, children, n, L, R, S, l) ==
  /\ InOrder(keys) /\ Len(children) = Len(keys) + 1
  /\ \A i \in 1..Len(children) :
       children[i] \in 1..(n - 1) /\ L[children[i]] = l - 1 /\ R[children[i]] = Share(keys, S, i)

(* d was cut at s, its higher part is the page new, and p is the parent of d. *)
Parent(f, n, L, R, d, new, s, p, a) ==
  /\ d \in 1..(n - 1) /\ new \in 1..(n - 1) /\ new # d /\ L[new] = L[d] /\ CutOf(R, d, new, s)
  /\ p \in 1..(n - 1) /\ f[p].leaf = FALSE
  /\ a \in 1..Len(f[p].children) /\ f[p].children[a] = d

LEMMA ParentShape ==
  ASSUME NEW f, NEW n, NEW L, NEW R, NEW st, NEW d, NEW new, IsTree(f, n, L, R, st, d, new),
         NEW s \in Int, NEW p, NEW a, Parent(f, n, L, R, d, new, s, p, a)
  PROVE  /\ R[p] \in SUBSET Int /\ L[p] # 0 /\ L[p] \in Nat /\ L[d] = L[p] - 1 /\ L[new] = L[p] - 1
         /\ InOrder(f[p].keys) /\ Len(f[p].children) = Len(f[p].keys) + 1
         /\ f[p].keys \in Seq(Keys) /\ f[p].children \in Seq(Int)
         /\ R[d] # {} /\ R[new] # {}
         /\ R[d] \cup R[new] = Share(f[p].keys, R[p], a)
         /\ LowPart(Share(f[p].keys, R[p], a), s) = R[d]
         /\ HighPart(Share(f[p].keys, R[p], a), s) = R[new]
<1>1. /\ d \in 1..(n - 1) /\ new \in 1..(n - 1) /\ new # d /\ L[new] = L[d] /\ CutOf(R, d, new, s)
      /\ p \in 1..(n - 1) /\ ~f[p].leaf
      /\ a \in 1..Len(f[p].children) /\ f[p].children[a] = d
  BY DEF Parent
<1>2. /\ L \in [1..(n - 1) -> Nat] /\ R \in [1..(n - 1) -> SUBSET Int]
      /\ \A q \in 1..(n - 1) : f[q] \in NodeRecord
      /\ \A q \in 1..(n - 1) : R[q] # {}
      /\ \A q \in 1..(n - 1) : ~f[q].leaf => IsInner(f[q], q, n, L, R, d, new)
  BY TreeShape
<1>3. IsInner(f[p], p, n, L, R, d, new)
  BY <1>1, <1>2
<1>4. L[d] = L[p] - 1 /\ Meant(R, d, new, d) = Share(f[p].keys, R[p], a)
  BY <1>1, <1>3 DEF IsInner
<1>5. PICK W : W = R[d] \cup R[new]
  OBVIOUS
<1>6. W = Share(f[p].keys, R[p], a)
  BY <1>4, <1>5 DEF Meant
<1>7. LowPart(W, s) = R[d] /\ HighPart(W, s) = R[new]
  BY <1>1, <1>5 DEF CutOf
<1>8. f[p].keys \in Seq(Keys) /\ f[p].children \in Seq(Int)
  BY <1>1, <1>2 DEF NodeRecord
<1>9. L[p] # 0 /\ InOrder(f[p].keys) /\ Len(f[p].children) = Len(f[p].keys) + 1
  BY <1>3 DEF IsInner
<1>10. R[p] \in SUBSET Int /\ L[p] \in Nat
  BY <1>1, <1>2
<1> QED  BY <1>1, <1>2, <1>4, <1>5, <1>6, <1>7, <1>8, <1>9, <1>10

LEMMA ChildInserted ==
  ASSUME Parameters, NEW f, NEW n, NEW L, NEW R, NEW st, NEW d, NEW new, IsTree(f, n, L, R, st, d, new),
         NEW s \in Keys, NEW p, NEW a, Parent(f, n, L, R, d, new, s, p, a),
         NEW keys \in Seq(Keys), Inserted(f[p].keys, keys, a, s),
         NEW children, Inserted(f[p].children, children, a + 1, new)
  PROVE  Fans(keys, children, n, L, R, R[p], L[p])
<1>1. /\ d \in 1..(n - 1) /\ new \in 1..(n - 1) /\ p \in 1..(n - 1) /\ ~f[p].leaf
      /\ a \in 1..Len(f[p].children) /\ f[p].children[a] = d
  BY DEF Parent
<1>2. s \in Int
  BY DEF Parameters
<1>3. PICK ks : ks = f[p].keys
  OBVIOUS
<1>4. PICK cs : cs = f[p].children
  OBVIOUS
<1>5. PICK S : S = R[p]
  OBVIOUS
<1>6. /\ S \in SUBSET Int /\ L[d] = L[p] - 1 /\ L[new] = L[p] - 1
      /\ InOrder(ks) /\ Len(cs) = Len(ks) + 1
      /\ ks \in Seq(Keys)
      /\ R[d] # {} /\ R[new] # {}
      /\ R[d] \cup R[new] = Share(ks, S, a)
      /\ LowPart(Share(ks, S, a), s) = R[d]
      /\ HighPart(Share(ks, S, a), s) = R[new]
  BY <1>2, <1>3, <1>4, <1>5, ParentShape
<1>7. PICK m : m = Len(ks)
  OBVIOUS
<1>8. m \in Nat /\ a \in 1..(m + 1) /\ Len(cs) = m + 1 /\ a \in Nat
  BY <1>1, <1>4, <1>6, <1>7
<1>9. /\ InOrder(keys) /\ Len(keys) = m + 1
      /\ \A i \in 1..(a - 1) : Share(keys, S, i) = Share(ks, S, i)
      /\ Share(keys, S, a) = R[d]
      /\ Share(keys, S, a + 1) = R[new]
      /\ \A i \in (a + 2)..(m + 2) : Share(keys, S, i) = Share(ks, S, i - 1)
  <2>1. Inserted(ks, keys, a, s) /\ a \in 1..(Len(ks) + 1)
    BY <1>3, <1>7, <1>8
  <2>2. LowPart(Share(ks, S, a), s) # {} /\ HighPart(Share(ks, S, a), s) # {}
    BY <1>6
  <2>3. /\ InOrder(keys) /\ Len(keys) = Len(ks) + 1
        /\ \A i \in 1..(a - 1) : Share(keys, S, i) = Share(ks, S, i)
        /\ Share(keys, S, a) = LowPart(Share(ks, S, a), s)
        /\ Share(keys, S, a + 1) = HighPart(Share(ks, S, a), s)
        /\ \A i \in (a + 2)..(Len(ks) + 2) : Share(keys, S, i) = Share(ks, S, i - 1)
    BY <1>6, <2>1, <2>2, KeysInserted
  <2> QED  BY <1>6, <1>7, <2>3
<1>10. /\ Len(children) = m + 2 /\ children[a + 1] = new
       /\ \A i \in 1..a : children[i] = cs[i]
       /\ \A i \in (a + 2)..(m + 2) : children[i] = cs[i - 1]
  <2>1. (a + 1) - 1 = a /\ (a + 1) + 1 = a + 2 /\ (m + 1) + 1 = m + 2
    BY <1>8
  <2>2. Inserted(cs, children, a + 1, new)
    BY <1>4
  <2> QED  BY <1>8, <2>1, <2>2 DEF Inserted
<1>11. IsInner(f[p], p, n, L, R, d, new)
  BY <1>1, TreeShape
<1>12. ASSUME NEW i \in 1..(m + 1), i # a
       PROVE  cs[i] \in 1..(n - 1) /\ L[cs[i]] = L[p] - 1 /\ R[cs[i]] = Share(ks, S, i)
  <2>1. PICK c : c = cs[i]
    OBVIOUS
  <2>2. c \in 1..(n - 1) /\ L[c] = L[p] - 1 /\ Meant(R, d, new, c) = Share(ks, S, i)
    BY <1>3, <1>4, <1>5, <1>8, <1>11, <2>1 DEF IsInner
  <2>3. ASSUME c = d PROVE FALSE
    <3>1. Share(ks, S, i) = Share(ks, S, a)
      BY <1>6, <2>2, <2>3 DEF Meant
    <3>2. PICK k : k \in R[d]
      BY <1>6
    <3>3. k \in Share(ks, S, i) /\ k \in Share(ks, S, a)
      BY <1>6, <3>1, <3>2
    <3>4. i \in 1..(Len(ks) + 1) /\ a \in 1..(Len(ks) + 1)
      BY <1>7, <1>8
    <3>5. i = a
      BY <1>6, <3>3, <3>4, OneShareOnly
    <3> QED  BY <1>12, <3>5
  <2>4. R[c] = Share(ks, S, i)
    BY <2>2, <2>3 DEF Meant
  <2> QED  BY <2>1, <2>2, <2>4
<1>13. ASSUME NEW i \in 1..(m + 2)
       PROVE  children[i] \in 1..(n - 1) /\ L[children[i]] = L[p] - 1 /\ R[children[i]] = Share(keys, S, i)
  <2>1. CASE i < a
    <3>1. i \in 1..(a - 1) /\ i \in 1..a /\ i \in 1..(m + 1) /\ i # a
      BY <1>8, <2>1
    <3> QED  BY <1>9, <1>10, <1>12, <3>1
  <2>2. CASE i = a
    <3>1. i \in 1..a
      BY <1>8, <2>2
    <3> QED  BY <1>1, <1>4, <1>6, <1>9, <1>10, <2>2, <3>1
  <2>3. CASE i = a + 1
    BY <1>1, <1>6, <1>9, <1>10, <2>3
  <2>4. CASE i > a + 1
    <3>1. i \in (a + 2)..(m + 2) /\ i - 1 \in 1..(m + 1) /\ i - 1 # a
      BY <1>8, <2>4
    <3> QED  BY <1>9, <1>10, <1>12, <3>1
  <2>5. i < a \/ i = a \/ i = a + 1 \/ i > a + 1
    BY <1>8
  <2> QED  BY <2>1, <2>2, <2>3, <2>4, <2>5
<1>14. Len(children) = Len(keys) + 1
  BY <1>8, <1>9, <1>10
<1> QED  BY <1>5, <1>9, <1>10, <1>13, <1>14 DEF Fans

(* No other node has d for a child. *)
LEMMA OtherParents ==
  ASSUME Parameters, NEW f, NEW n, NEW L, NEW R, NEW st, NEW d, NEW new, IsTree(f, n, L, R, st, d, new),
         NEW s \in Int, NEW p, NEW a, Parent(f, n, L, R, d, new, s, p, a),
         NEW q \in 1..(n - 1), q # p, ~f[q].leaf
  PROVE  IsInner(f[q], q, n, L, R, NoPage, NoPage)
<1>1. p \in 1..(n - 1) /\ d \in 1..(n - 1) /\ L \in [1..(n - 1) -> Nat]
  BY TreeShape DEF Parent
<1>2. /\ L[p] \in Nat /\ L[d] = L[p] - 1 /\ R[d] # {}
      /\ R[d] \cup R[new] = Share(f[p].keys, R[p], a)
  BY ParentShape
<1>3. IsInner(f[q], q, n, L, R, d, new)
  BY TreeShape
<1>4. ASSUME NEW i \in 1..Len(f[q].children), NEW c, c = f[q].children[i]
      PROVE  c \in 1..(n - 1) /\ L[c] = L[q] - 1 /\ Meant(R, NoPage, NoPage, c) = Share(f[q].keys, R[q], i)
  <2>1. c \in 1..(n - 1) /\ L[c] = L[q] - 1 /\ Meant(R, d, new, c) = Share(f[q].keys, R[q], i)
    BY <1>3, <1>4 DEF IsInner
  <2>2. ASSUME c = d PROVE FALSE
    <3>1. L[q] = L[p]
      <4>1. L[q] \in Nat
        BY <1>1
      <4> QED  BY <1>2, <2>1, <2>2, <4>1
    <3>2. PICK k : k \in R[d]
      BY <1>2
    <3>3. k \in R[p]
      BY <1>2, <3>2 DEF Share
    <3>4. k \in Share(f[q].keys, R[q], i)
      BY <2>1, <2>2, <3>2 DEF Meant
    <3>5. k \in R[q]
      BY <3>4 DEF Share
    <3>6. R[p] \cap R[q] = {}
      BY <1>1, <3>1, TreeShape
    <3> QED  BY <3>3, <3>5, <3>6
  <2>3. c # NoPage
    BY <2>1 DEF NoPage
  <2>4. Meant(R, NoPage, NoPage, c) = R[c] /\ Meant(R, d, new, c) = R[c]
    BY <2>2, <2>3 DEF Meant
  <2> QED  BY <2>1, <2>4
<1> QED  BY <1>3, <1>4 DEF IsInner

-----------------------------------------------------------------------------
(* A node is written again with the separator and the page.                *)

(* g has the leaves of f. *)
KeepsLeaves(f, g, n, L, R, M, Q) ==
  \A q \in 1..(n - 1) : f[q].leaf => g[q] = f[q] /\ M[q] = L[q] /\ Q[q] = R[q]

LEMMA LeafKept ==
  ASSUME NEW f, NEW g, NEW n \in Nat, NEW m \in Nat, n <= m, NEW L, NEW R, NEW M, NEW Q,
         KeepsLeaves(f, g, n, L, R, M, Q), NEW st, NEW q \in 1..(n - 1), f[q].leaf,
         IsLeaf(f, n, L, R, st, q)
  PROVE  IsLeaf(g, m, M, Q, st, q)
<1>1. L[q] = 0 /\ Holds(f[q].entries, st, R[q]) /\ IsLinked(f, n, R, q)
  BY DEF IsLeaf
<1>2. g[q] = f[q] /\ M[q] = L[q] /\ Q[q] = R[q]
  BY DEF KeepsLeaves
<1>3. \A x \in 1..(n - 1) : x \in 1..(m - 1)
  OBVIOUS
<1>4. PICK y : y = f[q].next
  OBVIOUS
<1>5. \/ y = NoPage /\ Endless(R[q])
      \/ y \in 1..(n - 1) /\ f[y].leaf /\ Adjacent(R[q], R[y]) /\ f[y].prev = q
  BY <1>1, <1>4 DEF IsLinked
<1>6. \/ y = NoPage /\ Endless(Q[q])
      \/ y \in 1..(m - 1) /\ g[y].leaf /\ Adjacent(Q[q], Q[y]) /\ g[y].prev = q
  BY <1>2, <1>3, <1>5 DEF KeepsLeaves
<1>7. PICK z : z = f[q].prev
  OBVIOUS
<1>8. z = NoPage \/ (z \in 1..(n - 1) /\ f[z].leaf /\ f[z].next = q)
  BY <1>1, <1>7 DEF IsLinked
<1>9. z = NoPage \/ (z \in 1..(m - 1) /\ g[z].leaf /\ g[z].next = q)
  BY <1>3, <1>8 DEF KeepsLeaves
<1>10. IsLinked(g, m, Q, q)
  BY <1>2, <1>4, <1>6, <1>7, <1>9 DEF IsLinked
<1> QED  BY <1>1, <1>2, <1>10 DEF IsLeaf

LEMMA FansIsInner ==
  ASSUME NEW node, NEW n, NEW L, NEW R, NEW p, L[p] # 0,
         Fans(node.keys, node.children, n, L, R, R[p], L[p])
  PROVE  IsInner(node, p, n, L, R, NoPage, NoPage)
<1>1. ASSUME NEW i \in 1..Len(node.children), NEW c, c = node.children[i]
      PROVE  c \in 1..(n - 1) /\ L[c] = L[p] - 1 /\ Meant(R, NoPage, NoPage, c) = Share(node.keys, R[p], i)
  <2>1. c \in 1..(n - 1) /\ L[c] = L[p] - 1 /\ R[c] = Share(node.keys, R[p], i)
    BY <1>1 DEF Fans
  <2>2. c # NoPage
    BY <2>1 DEF NoPage
  <2> QED  BY <2>1, <2>2 DEF Meant
<1>2. InOrder(node.keys) /\ Len(node.children) = Len(node.keys) + 1
  BY DEF Fans
<1> QED  BY <1>1, <1>2 DEF IsInner

(* The root is meant to have every integer, now that d is not the root. *)
WholeTree(f, g, n, L, R, st, p) ==
  /\ IsTree(g, n, L, R, st, NoPage, NoPage)
  /\ g[0] = f[0]
  /\ \A q \in 1..(n - 1) : q # p => g[q] = f[q]
LEMMA InnerTree ==
  ASSUME Parameters, NEW f, NEW n, NEW L, NEW R, NEW st, NEW d, NEW new, IsTree(f, n, L, R, st, d, new),
         NEW s \in Int, NEW p, NEW a, Parent(f, n, L, R, d, new, s, p, a), f[0].id # d,
         NEW keys, NEW children, Fans(keys, children, n, L, R, R[p], L[p]),
         NEW node \in NodeRecord, node.leaf = FALSE, node.id = p, node.keys = keys, node.children = children
  PROVE  WholeTree(f, With(f, p, node), n, L, R, st, p)
<1>1. PICK g : g = With(f, p, node)
  OBVIOUS
<1>2. p \in 1..(n - 1) /\ f[p].leaf = FALSE
  BY DEF Parent
<1>3. /\ IsFile(f, n) /\ n \in Nat
      /\ L \in [1..(n - 1) -> Nat] /\ R \in [1..(n - 1) -> SUBSET Int]
      /\ f[0].id \in 1..(n - 1) /\ L[f[0].id] < n - 1 /\ Meant(R, d, new, f[0].id) = Int
      /\ \A q \in 1..(n - 1) : q \in 0..(n - 1) /\ f[q].id = q /\ R[q] # {} /\ Convex(R[q])
      /\ \A x, y \in 1..(n - 1) : x # y /\ L[x] = L[y] => R[x] \cap R[y] = {}
      /\ \A q \in 1..(n - 1) : f[q].leaf => IsLeaf(f, n, L, R, st, q)
  BY TreeShape
<1>4. p \in 0..(n - 1) /\ 0 \in 0..(n - 1) /\ 0 # p
  BY <1>2, <1>3
<1>5. IsFile(g, n) /\ g[p] = node /\ \A q \in 0..(n - 1) : q # p => g[q] = f[q]
  <2>1. IsFile(f, n)
    BY <1>3
  <2>2. Rewritten(f, g, n, p, node)
    BY <1>1, <1>4, <2>1, WithinShape
  <2> QED  BY <2>2 DEF Rewritten
<1>6. g[0] = f[0]
  BY <1>4, <1>5
<1>7. \A q \in 1..(n - 1) : q # p => g[q] = f[q]
  BY <1>3, <1>5
<1>8. \A q \in 1..(n - 1) : g[q].id = q
  <2>1. g[p].id = p
    BY <1>5
  <2>2. \A q \in 1..(n - 1) : f[q].id = q
    BY <1>3
  <2> QED  BY <1>7, <2>1, <2>2
<1>9. ASSUME NEW q \in 1..(n - 1), ~g[q].leaf PROVE IsInner(g[q], q, n, L, R, NoPage, NoPage)
  <2>1. CASE q = p
    <3>1. L[p] # 0
      BY ParentShape
    <3> QED  BY <1>5, <2>1, <3>1, FansIsInner
  <2>2. CASE q # p
    <3>1. g[q] = f[q] /\ ~f[q].leaf
      BY <1>7, <1>9, <2>2
    <3> QED  BY <2>2, <3>1, OtherParents
  <2> QED  BY <2>1, <2>2
<1>10. ASSUME NEW q \in 1..(n - 1), g[q].leaf PROVE IsLeaf(g, n, L, R, st, q)
  <2>1. q # p
    BY <1>5, <1>10
  <2>2. f[q].leaf
    BY <1>7, <1>10, <2>1
  <2>3. KeepsLeaves(f, g, n, L, R, L, R)
    <3>1. \A x \in 1..(n - 1) : f[x].leaf => x # p
      BY <1>2
    <3> QED  BY <1>7, <3>1 DEF KeepsLeaves
  <2>4. n <= n
    BY <1>3
  <2>5. IsLeaf(f, n, L, R, st, q)
    BY <1>3, <2>2
  <2> QED  BY <1>3, <2>2, <2>3, <2>4, <2>5, LeafKept
<1>11. Meant(R, NoPage, NoPage, g[0].id) = Int
  <2>1. PICK r : r = f[0].id
    OBVIOUS
  <2>2. R[r] = Int /\ r # NoPage
    BY <1>3, <2>1 DEF Meant, NoPage
  <2> QED  BY <1>6, <2>1, <2>2 DEF Meant
<1>12. IsTree(g, n, L, R, st, NoPage, NoPage)
  <2>1. NoneHigher(L, n, L[f[0].id])
    BY TreeTop
  <2> QED  BY <1>3, <1>5, <1>6, <1>8, <1>9, <1>10, <1>11, <2>1 DEF IsTree, IsTop
<1> QED  BY <1>1, <1>6, <1>7, <1>12 DEF WholeTree

-----------------------------------------------------------------------------
(* A node is cut in two.                                                   *)

(* Of separators in order, those before place h + 1 and those after it. *)
KeyHalves(keys, h, u, v) ==
  /\ u \in Seq(Keys) /\ Len(u) = h /\ \A i \in 1..h : u[i] = keys[i]
  /\ v \in Seq(Keys) /\ Len(v) = Len(keys) - (h + 1)
  /\ \A i \in 1..(Len(keys) - (h + 1)) : v[i] = keys[h + 1 + i]
SharesHalved(keys, h, u, v, S, A, B) ==
  /\ InOrder(u) /\ InOrder(v)
  /\ \A i \in 1..(h + 1) : Share(u, A, i) = Share(keys, S, i)
  /\ \A i \in 1..(Len(keys) - h) : Share(v, B, i) = Share(keys, S, h + 1 + i)
LEMMA KeysHalved ==
  ASSUME Parameters, NEW keys \in Seq(Keys), InOrder(keys), NEW S \in SUBSET Int,
         NEW h \in 1..Len(keys), h < Len(keys), NEW s, s = keys[h + 1],
         NEW u, NEW v, KeyHalves(keys, h, u, v)
  PROVE  s \in Keys /\ s \in Int /\ SharesHalved(keys, h, u, v, S, LowPart(S, s), HighPart(S, s))
<1>0. /\ u \in Seq(Keys) /\ Len(u) = h /\ \A i \in 1..h : u[i] = keys[i]
      /\ v \in Seq(Keys) /\ Len(v) = Len(keys) - (h + 1)
      /\ \A i \in 1..(Len(keys) - (h + 1)) : v[i] = keys[h + 1 + i]
  BY DEF KeyHalves
<1>1. PICK m : m = Len(keys)
  OBVIOUS
<1>2. m \in Nat /\ h \in Nat /\ h + 1 \in 1..m /\ Len(u) = h /\ Len(v) = m - (h + 1)
  BY <1>0, <1>1
<1>3. \A i \in 1..m : keys[i] \in Int /\ keys[i] \in Keys
  <2>1. \A i \in 1..m : keys[i] \in Keys
    BY <1>1, ElementOf
  <2> QED  BY <2>1 DEF Parameters
<1>4. s \in Int /\ s \in Keys
  BY <1>2, <1>3
<1>5. \A i, j \in 1..m : i < j => keys[i] < keys[j]
  BY <1>1 DEF InOrder
<1>6. \A i \in 1..h : u[i] = keys[i] /\ i \in 1..m
  BY <1>0, <1>2
<1>7. \A i \in 1..(m - (h + 1)) : v[i] = keys[h + 1 + i] /\ h + 1 + i \in 1..m
  BY <1>0, <1>1, <1>2
<1>8. InOrder(u)
  BY <1>2, <1>5, <1>6 DEF InOrder
<1>9. InOrder(v)
  <2>1. ASSUME NEW i \in 1..(m - (h + 1)), NEW j \in 1..(m - (h + 1)), i < j PROVE v[i] < v[j]
    <3>1. h + 1 + i < h + 1 + j
      BY <1>2, <2>1
    <3> QED  BY <1>5, <1>7, <3>1
  <2> QED  BY <1>2, <2>1 DEF InOrder
<1>10. \A k \in S : k \in Int
  OBVIOUS
<1>11. ASSUME NEW i \in 1..(h + 1) PROVE Share(u, LowPart(S, s), i) = Share(keys, S, i)
  <2>1. i > 1 => u[i - 1] = keys[i - 1]
    <3>1. i > 1 => i - 1 \in 1..h
      BY <1>2
    <3> QED  BY <1>6, <3>1
  <2>2. i <= m /\ i \in 1..m /\ i \in Nat
    BY <1>2
  <2>3. i <= h => u[i] = keys[i] /\ keys[i] < s
    <3>1. i <= h => i \in 1..h /\ i < h + 1
      BY <1>2
    <3> QED  BY <1>2, <1>5, <1>6, <2>2, <3>1
  <2>4. i > h => keys[i] = s
    <3>1. i > h => i = h + 1
      BY <1>2
    <3> QED  BY <3>1
  <2>5. \A k : k \in Share(u, LowPart(S, s), i) <=>
                 k \in LowPart(S, s) /\ (i > 1 => u[i - 1] <= k) /\ (i <= h => k < u[i])
    BY <1>2, ShareBetween
  <2>6. \A k : k \in Share(keys, S, i) <=> k \in S /\ (i > 1 => keys[i - 1] <= k) /\ k < keys[i]
    BY <1>1, <2>2, ShareBetween
  <2>7. \A k : k \in LowPart(S, s) <=> k \in S /\ k < s
    BY DEF LowPart
  <2>8. keys[i] \in Int
    BY <1>3, <2>2
  <2>9. ASSUME NEW k \in S PROVE (k < s /\ (i <= h => k < keys[i])) <=> k < keys[i]
    <3>1. CASE i <= h
      BY <1>4, <1>10, <2>3, <2>8, <3>1
    <3>2. CASE ~(i <= h)
      BY <1>2, <2>2, <2>4, <3>2
    <3> QED  BY <3>1, <3>2
  <2>10. \A k : k \in Share(u, LowPart(S, s), i) <=> k \in Share(keys, S, i)
    BY <2>1, <2>3, <2>5, <2>6, <2>7, <2>9
  <2> QED  BY <2>10
<1>12. ASSUME NEW i \in 1..(m - h) PROVE Share(v, HighPart(S, s), i) = Share(keys, S, h + 1 + i)
  <2>1. PICK j : j = h + 1 + i
    OBVIOUS
  <2>2. j \in Nat /\ j > 1 /\ j - 1 \in 1..m /\ j - 1 = h + i /\ i \in Nat /\ (j <= m <=> i <= m - (h + 1))
    BY <1>2, <2>1
  <2>3. i > 1 => v[i - 1] = keys[j - 1]
    <3>1. i > 1 => i - 1 \in 1..(m - (h + 1)) /\ h + 1 + (i - 1) = j - 1
      BY <1>2, <2>2
    <3> QED  BY <1>7, <3>1
  <2>4. i <= m - (h + 1) => v[i] = keys[j]
    <3>1. i <= m - (h + 1) => i \in 1..(m - (h + 1))
      BY <1>2
    <3> QED  BY <1>7, <2>1, <3>1
  <2>5. i = 1 => keys[j - 1] = s
    BY <1>2, <2>2
  <2>6. i > 1 => s < keys[j - 1]
    <3>1. i > 1 => h + 1 < j - 1
      BY <1>2, <2>2
    <3> QED  BY <1>2, <1>5, <2>2, <3>1
  <2>7. \A k : k \in Share(v, HighPart(S, s), i) <=>
                 k \in HighPart(S, s) /\ (i > 1 => v[i - 1] <= k) /\ (i <= m - (h + 1) => k < v[i])
    BY <1>2, ShareBetween
  <2>8. \A k : k \in Share(keys, S, j) <=> k \in S /\ keys[j - 1] <= k /\ (j <= m => k < keys[j])
    BY <1>1, <2>2, ShareBetween
  <2>9. \A k : k \in HighPart(S, s) <=> k \in S /\ s <= k
    BY DEF HighPart
  <2>10. keys[j - 1] \in Int
    BY <1>3, <2>2
  <2>11. ASSUME NEW k \in S PROVE (s <= k /\ (i > 1 => keys[j - 1] <= k)) <=> keys[j - 1] <= k
    <3>1. CASE i > 1
      BY <1>4, <1>10, <2>6, <2>10, <3>1
    <3>2. CASE ~(i > 1)
      <4>1. i = 1
        BY <2>2, <3>2
      <4> QED  BY <2>5, <3>2, <4>1
    <3> QED  BY <3>1, <3>2
  <2>12. \A k : k \in Share(v, HighPart(S, s), i) <=> k \in Share(keys, S, j)
    BY <2>2, <2>3, <2>4, <2>7, <2>8, <2>9, <2>11
  <2> QED  BY <2>1, <2>12
<1>13. SharesHalved(keys, h, u, v, S, LowPart(S, s), HighPart(S, s))
  BY <1>1, <1>8, <1>9, <1>11, <1>12 DEF SharesHalved
<1> QED  BY <1>4, <1>13

(* g is f with the node p cut into `left` and `right`, which is the page n. *)
InnerCut(f, g, n, p, left, right) ==
  /\ IsFile(g, n + 1) /\ g[p] = left /\ g[n] = right
  /\ left.leaf = FALSE /\ left.id = p /\ right.leaf = FALSE /\ right.id = n
  /\ \A q \in 0..(n - 1) : q # p => g[q] = f[q]

LEMMA FansOfCut ==
  ASSUME NEW node, NEW n, NEW L, NEW R, NEW q, L[q] \in Nat, L[q] # 0,
         Fans(node.keys, node.children, n, L, R, R[q], L[q]), NEW d, L[d] = L[q], NEW new
  PROVE  IsInner(node, q, n, L, R, d, new)
<1>1. ASSUME NEW i \in 1..Len(node.children), NEW c, c = node.children[i]
      PROVE  c \in 1..(n - 1) /\ L[c] = L[q] - 1 /\ Meant(R, d, new, c) = Share(node.keys, R[q], i)
  <2>1. c \in 1..(n - 1) /\ L[c] = L[q] - 1 /\ R[c] = Share(node.keys, R[q], i)
    BY <1>1 DEF Fans
  <2>2. c # d
    BY <2>1
  <2> QED  BY <2>1, <2>2 DEF Meant
<1>2. InOrder(node.keys) /\ Len(node.children) = Len(node.keys) + 1
  BY DEF Fans
<1> QED  BY <1>1, <1>2 DEF IsInner

(* Both halves of a node share what the node had. *)
HalvesFan(keys, children, h, u, cu, v, cv) ==
  /\ u \in Seq(Keys) /\ Len(u) = h /\ \A i \in 1..h : u[i] = keys[i]
  /\ Len(cu) = h + 1 /\ \A i \in 1..(h + 1) : cu[i] = children[i]
  /\ v \in Seq(Keys) /\ Len(v) = Len(keys) - (h + 1)
  /\ \A i \in 1..(Len(keys) - (h + 1)) : v[i] = keys[h + 1 + i]
  /\ Len(cv) = Len(keys) - h /\ \A i \in 1..(Len(keys) - h) : cv[i] = children[h + 1 + i]

LEMMA HalvesShape ==
  ASSUME NEW keys \in Seq(Keys), NEW children \in Seq(Int), Len(children) = Len(keys) + 1,
         NEW h \in 1..Len(keys), h < Len(keys)
  PROVE  /\ HalvesFan(keys, children, h, SubSeq(keys, 1, h), SubSeq(children, 1, h + 1),
                      SubSeq(keys, h + 2, Len(keys)), SubSeq(children, h + 2, Len(children)))
         /\ SubSeq(children, 1, h + 1) \in Seq(Int)
         /\ SubSeq(children, h + 2, Len(children)) \in Seq(Int)
<1>1. PICK m : m = Len(keys)
  OBVIOUS
<1>2. m \in Nat /\ h \in Nat /\ h \in 1..m /\ h < m /\ Len(children) = m + 1
  BY <1>1
<1>3. PICK u : u = SubSeq(keys, 1, h)
  OBVIOUS
<1>4. u \in Seq(Keys) /\ Len(u) = h /\ \A i \in 1..h : u[i] = keys[i]
  <2>1. 1 \in 1..(Len(keys) + 1) /\ h \in (1 - 1)..Len(keys)
    BY <1>1, <1>2
  <2>2. /\ u \in Seq(Keys) /\ Len(u) = h - 1 + 1
        /\ \A i \in 1..(h - 1 + 1) : u[i] = keys[1 + i - 1]
    BY <1>3, <2>1, PartShape
  <2>3. h - 1 + 1 = h /\ \A i \in 1..h : 1 + i - 1 = i
    BY <1>2
  <2> QED  BY <2>2, <2>3
<1>5. PICK cu : cu = SubSeq(children, 1, h + 1)
  OBVIOUS
<1>6. cu \in Seq(Int) /\ Len(cu) = h + 1 /\ \A i \in 1..(h + 1) : cu[i] = children[i]
  <2>1. 1 \in 1..(Len(children) + 1) /\ h + 1 \in (1 - 1)..Len(children)
    BY <1>2
  <2>2. /\ cu \in Seq(Int) /\ Len(cu) = (h + 1) - 1 + 1
        /\ \A i \in 1..((h + 1) - 1 + 1) : cu[i] = children[1 + i - 1]
    BY <1>5, <2>1, PartShape
  <2>3. (h + 1) - 1 + 1 = h + 1 /\ \A i \in 1..(h + 1) : 1 + i - 1 = i
    BY <1>2
  <2> QED  BY <2>2, <2>3
<1>7. PICK v : v = SubSeq(keys, h + 2, Len(keys))
  OBVIOUS
<1>8. v \in Seq(Keys) /\ Len(v) = m - (h + 1) /\ \A i \in 1..(m - (h + 1)) : v[i] = keys[h + 1 + i]
  <2>1. h + 2 \in 1..(Len(keys) + 1) /\ Len(keys) \in ((h + 2) - 1)..Len(keys)
    BY <1>1, <1>2
  <2>2. /\ v \in Seq(Keys) /\ Len(v) = Len(keys) - (h + 2) + 1
        /\ \A i \in 1..(Len(keys) - (h + 2) + 1) : v[i] = keys[(h + 2) + i - 1]
    BY <1>7, <2>1, PartShape
  <2>3. /\ Len(keys) - (h + 2) + 1 = m - (h + 1)
        /\ \A i \in 1..(m - (h + 1)) : (h + 2) + i - 1 = h + 1 + i
    BY <1>1, <1>2
  <2> QED  BY <2>2, <2>3
<1>9. PICK cv : cv = SubSeq(children, h + 2, Len(children))
  OBVIOUS
<1>10. cv \in Seq(Int) /\ Len(cv) = m - h /\ \A i \in 1..(m - h) : cv[i] = children[h + 1 + i]
  <2>1. h + 2 \in 1..(Len(children) + 1) /\ Len(children) \in ((h + 2) - 1)..Len(children)
    BY <1>2
  <2>2. /\ cv \in Seq(Int) /\ Len(cv) = Len(children) - (h + 2) + 1
        /\ \A i \in 1..(Len(children) - (h + 2) + 1) : cv[i] = children[(h + 2) + i - 1]
    BY <1>9, <2>1, PartShape
  <2>3. /\ Len(children) - (h + 2) + 1 = m - h
        /\ \A i \in 1..(m - h) : (h + 2) + i - 1 = h + 1 + i
    BY <1>2
  <2> QED  BY <2>2, <2>3
<1>11. HalvesFan(keys, children, h, u, cu, v, cv)
  BY <1>1, <1>4, <1>6, <1>8, <1>10 DEF HalvesFan
<1> QED  BY <1>3, <1>5, <1>6, <1>7, <1>9, <1>10, <1>11

NoneEmpty(R, n) == \A c \in 1..(n - 1) : R[c] # {}

(* There are shares on both sides of the separator in the middle. *)
LEMMA MiddleParts ==
  ASSUME Parameters, NEW keys \in Seq(Keys), NEW children, NEW n, NEW L, NEW R,
         NEW S \in SUBSET Int, NEW l, Fans(keys, children, n, L, R, S, l),
         NoneEmpty(R, n),
         NEW h \in 1..Len(keys), h < Len(keys), NEW s, s = keys[h + 1]
  PROVE  LowPart(S, s) # {} /\ HighPart(S, s) # {}
<1>1. PICK m : m = Len(keys)
  OBVIOUS
<1>2. m \in Nat /\ h \in Nat /\ h + 1 \in 1..m /\ 1 \in 1..m /\ 1 < h + 1 /\ m \in 1..m /\ h + 1 <= m
  BY <1>1
<1>3. \A i \in 1..m : keys[i] \in Int
  <2>1. \A i \in 1..m : keys[i] \in Keys
    BY <1>1, ElementOf
  <2> QED  BY <2>1 DEF Parameters
<1>4. \A i, j \in 1..m : i < j => keys[i] < keys[j]
  BY <1>1 DEF Fans, InOrder
<1>5. \A i \in 1..(m + 1) : Share(keys, S, i) # {}
  <2>1. Len(children) = m + 1
    BY <1>1 DEF Fans
  <2>2. ASSUME NEW i \in 1..(m + 1) PROVE Share(keys, S, i) # {}
    <3>1. PICK c : c = children[i]
      OBVIOUS
    <3>2. c \in 1..(n - 1) /\ R[c] = Share(keys, S, i)
      BY <2>1, <3>1 DEF Fans
    <3> QED  BY <3>2 DEF NoneEmpty
  <2> QED  BY <2>2
<1>6. LowPart(S, s) # {}
  <2>1. PICK k : k \in Share(keys, S, 1)
    <3>1. 1 \in 1..(m + 1)
      BY <1>2
    <3> QED  BY <1>5, <3>1
  <2>2. k \in S /\ k < keys[1]
    BY <1>1, <1>2, <2>1, ShareBetween
  <2>3. keys[1] < s /\ keys[1] \in Int /\ s \in Int /\ k \in Int
    BY <1>2, <1>3, <1>4, <2>2
  <2>4. k < s
    BY <2>2, <2>3
  <2> QED  BY <2>2, <2>4 DEF LowPart
<1>7. HighPart(S, s) # {}
  <2>1. PICK k : k \in Share(keys, S, m + 1)
    <3>1. m + 1 \in 1..(m + 1)
      BY <1>2
    <3> QED  BY <1>5, <3>1
  <2>2. k \in S /\ keys[m] <= k
    <3>1. m + 1 > 1 /\ (m + 1) - 1 = m
      BY <1>2
    <3> QED  BY <2>1, <3>1, ShareBetween
  <2>3. keys[m] \in Int /\ s \in Int /\ k \in Int
    BY <1>2, <1>3, <2>2
  <2>4. s <= keys[m]
    <3>1. h + 1 = m \/ h + 1 < m
      BY <1>2
    <3>2. h + 1 < m => s < keys[m]
      BY <1>2, <1>4
    <3> QED  BY <2>3, <3>1, <3>2
  <2>5. s <= k
    BY <2>2, <2>3, <2>4
  <2> QED  BY <2>2, <2>5 DEF HighPart
<1> QED  BY <1>6, <1>7

LEMMA InnerCutTree ==
  ASSUME Parameters, NEW f, NEW n, NEW L, NEW R, NEW st, NEW d, NEW new, IsTree(f, n, L, R, st, d, new),
         NEW s \in Int, NEW p, NEW a, Parent(f, n, L, R, d, new, s, p, a), f[0].id # d,
         NEW keys \in Seq(Keys), NEW children, Fans(keys, children, n, L, R, R[p], L[p]),
         NEW h \in 1..Len(keys), h < Len(keys), NEW t, t = keys[h + 1],
         NEW left, NEW right, HalvesFan(keys, children, h, left.keys, left.children, right.keys, right.children),
         NEW g, InnerCut(f, g, n, p, left, right),
         NEW M, NEW Q, CutAt(L, R, M, Q, n, p, t)
  PROVE  /\ IsTree(g, n + 1, M, Q, st, p, n)
         /\ IsInner(left, p, n + 1, M, Q, p, n) /\ IsInner(right, n, n + 1, M, Q, p, n)
<1>1. p \in 1..(n - 1) /\ f[p].leaf = FALSE
  BY DEF Parent
<1>2. /\ IsFile(f, n) /\ n \in Nat /\ n # 0
      /\ L \in [1..(n - 1) -> Nat] /\ R \in [1..(n - 1) -> SUBSET Int]
      /\ f[0].id \in 1..(n - 1) /\ L[f[0].id] < n - 1 /\ Meant(R, d, new, f[0].id) = Int
      /\ \A q \in 1..(n - 1) : q \in 0..(n - 1) /\ f[q].id = q /\ R[q] # {} /\ Convex(R[q])
      /\ \A q \in 1..(n - 1) : f[q].leaf => IsLeaf(f, n, L, R, st, q)
  BY TreeShape, SMTT(30)
<1>3. /\ n \in 1..((n + 1) - 1)
      /\ \A q \in 1..(n - 1) : q \in 1..((n + 1) - 1) /\ q # n
      /\ \A q \in 1..((n + 1) - 1) : q = n \/ q \in 1..(n - 1)
  BY <1>2, OneMore
<1>4. /\ M \in [1..((n + 1) - 1) -> Nat] /\ Q \in [1..((n + 1) - 1) -> SUBSET Int]
      /\ M[n] = L[p] /\ \A q \in 1..(n - 1) : M[q] = L[q]
      /\ Q[n] = HighPart(R[p], t) /\ Q[p] = LowPart(R[p], t)
      /\ \A q \in 1..(n - 1) : q # p => Q[q] = R[q]
      /\ \A q \in 1..((n + 1) - 1) : Q[q] # {} /\ Convex(Q[q])
      /\ \A x, y \in 1..((n + 1) - 1) : x # y /\ M[x] = M[y] => Q[x] \cap Q[y] = {}
  BY DEF CutAt
<1>5. /\ IsFile(g, n + 1) /\ g[p] = left /\ g[n] = right
      /\ left.leaf = FALSE /\ left.id = p /\ right.leaf = FALSE /\ right.id = n
      /\ \A q \in 0..(n - 1) : q # p => g[q] = f[q]
  BY DEF InnerCut
<1>6. L[p] # 0 /\ L[p] \in Nat /\ R[p] \in SUBSET Int
  BY ParentShape
<1>7. PICK m : m = Len(keys)
  OBVIOUS
<1>8. m \in Nat /\ h \in Nat /\ h \in 1..m /\ h < m
  BY <1>7
<1>9. /\ left.keys \in Seq(Keys) /\ Len(left.keys) = h /\ \A i \in 1..h : left.keys[i] = keys[i]
      /\ Len(left.children) = h + 1 /\ \A i \in 1..(h + 1) : left.children[i] = children[i]
      /\ right.keys \in Seq(Keys) /\ Len(right.keys) = m - (h + 1)
      /\ \A i \in 1..(m - (h + 1)) : right.keys[i] = keys[h + 1 + i]
      /\ Len(right.children) = m - h /\ \A i \in 1..(m - h) : right.children[i] = children[h + 1 + i]
  BY <1>7 DEF HalvesFan
<1>10. /\ InOrder(left.keys) /\ InOrder(right.keys)
       /\ \A i \in 1..(h + 1) : Share(left.keys, Q[p], i) = Share(keys, R[p], i)
       /\ \A i \in 1..(m - h) : Share(right.keys, Q[n], i) = Share(keys, R[p], h + 1 + i)
  <2>1. PICK S \in SUBSET Int : S = R[p]
    BY <1>6
  <2>2. PICK u : u = left.keys
    OBVIOUS
  <2>3. PICK v : v = right.keys
    OBVIOUS
  <2>4. KeyHalves(keys, h, u, v)
    BY <1>7, <1>9, <2>2, <2>3 DEF KeyHalves
  <2>5. InOrder(keys)
    BY DEF Fans
  <2>6. SharesHalved(keys, h, u, v, S, LowPart(S, t), HighPart(S, t))
    BY <2>4, <2>5, KeysHalved
  <2> QED  BY <1>4, <1>7, <2>1, <2>2, <2>3, <2>6 DEF SharesHalved
<1>11. ASSUME NEW i \in 1..(m + 1)
       PROVE  children[i] \in 1..((n + 1) - 1) /\ M[children[i]] = L[p] - 1 /\ Q[children[i]] = Share(keys, R[p], i)
  <2>1. PICK c : c = children[i]
    OBVIOUS
  <2>2. c \in 1..(n - 1) /\ L[c] = L[p] - 1 /\ R[c] = Share(keys, R[p], i)
    BY <1>7, <2>1 DEF Fans
  <2>3. c # p
    BY <1>6, <2>2
  <2> QED  BY <1>3, <1>4, <2>1, <2>2, <2>3
<1>12. M[p] = L[p] /\ M[n] = L[p]
  BY <1>1, <1>4
<1>13. Fans(left.keys, left.children, n + 1, M, Q, Q[p], M[p])
  <2>1. ASSUME NEW i \in 1..(h + 1)
        PROVE  /\ left.children[i] \in 1..((n + 1) - 1) /\ M[left.children[i]] = M[p] - 1
               /\ Q[left.children[i]] = Share(left.keys, Q[p], i)
    <3>1. i \in 1..(m + 1)
      BY <1>8
    <3> QED  BY <1>9, <1>10, <1>11, <1>12, <3>1
  <2> QED  BY <1>9, <1>10, <2>1 DEF Fans
<1>14. Fans(right.keys, right.children, n + 1, M, Q, Q[n], M[n])
  <2>1. ASSUME NEW i \in 1..(m - h)
        PROVE  /\ right.children[i] \in 1..((n + 1) - 1) /\ M[right.children[i]] = M[n] - 1
               /\ Q[right.children[i]] = Share(right.keys, Q[n], i)
    <3>1. h + 1 + i \in 1..(m + 1)
      BY <1>8
    <3> QED  BY <1>9, <1>10, <1>11, <1>12, <3>1
  <2>2. Len(right.children) = Len(right.keys) + 1
    BY <1>8, <1>9
  <2> QED  BY <1>9, <1>10, <2>1, <2>2 DEF Fans
<1>15. IsInner(left, p, n + 1, M, Q, p, n)
  BY <1>6, <1>12, <1>13, FansOfCut
<1>16. IsInner(right, n, n + 1, M, Q, p, n)
  BY <1>6, <1>12, <1>14, FansOfCut
<1>17. \A q \in 1..(n - 1) : q # p => g[q] = f[q]
  BY <1>2, <1>5
<1>18. ASSUME NEW q \in 1..((n + 1) - 1), ~g[q].leaf PROVE IsInner(g[q], q, n + 1, M, Q, p, n)
  <2>1. CASE q = p
    BY <1>5, <1>15, <2>1
  <2>2. CASE q = n
    BY <1>5, <1>16, <2>2
  <2>3. CASE q # p /\ q # n
    <3>1. q \in 1..(n - 1) /\ g[q] = f[q] /\ ~f[q].leaf
      BY <1>3, <1>17, <1>18, <2>3
    <3>2. IsInner(f[q], q, n, L, R, NoPage, NoPage)
      BY <2>3, <3>1, OtherParents
    <3> QED  BY <1>1, <1>2, <2>3, <3>1, <3>2, InnerKept
  <2> QED  BY <2>1, <2>2, <2>3
<1>19. KeepsLeaves(f, g, n, L, R, M, Q)
  <2>1. \A x \in 1..(n - 1) : f[x].leaf => x # p
    BY <1>1
  <2> QED  BY <1>4, <1>17, <2>1 DEF KeepsLeaves
<1>20. ASSUME NEW q \in 1..((n + 1) - 1), g[q].leaf PROVE IsLeaf(g, n + 1, M, Q, st, q)
  <2>1. q # p /\ q # n
    BY <1>5, <1>20
  <2>2. q \in 1..(n - 1) /\ f[q].leaf
    BY <1>3, <1>17, <1>20, <2>1
  <2>3. n + 1 \in Nat /\ n <= n + 1
    BY <1>2
  <2>4. IsLeaf(f, n, L, R, st, q)
    BY <1>2, <2>2
  <2> QED  BY <1>2, <1>19, <2>2, <2>3, <2>4, LeafKept
<1>21. \A q \in 1..((n + 1) - 1) : g[q].id = q
  <2>1. \A q \in 1..(n - 1) : g[q].id = q
    <3>1. \A q \in 1..(n - 1) : f[q].id = q
      BY <1>2
    <3> QED  BY <1>5, <1>17, <3>1
  <2> QED  BY <1>3, <1>5, <2>1
<1>22. PICK r : r = f[0].id
  OBVIOUS
<1>23. g[0].id = r
  <2>1. 0 \in 0..(n - 1) /\ 0 # p
    BY <1>1, <1>2
  <2> QED  BY <1>5, <1>22, <2>1
<1>24. IsTop(r, n + 1, M, Q, p, n)
  <2>1. r \in 1..(n - 1) /\ L[r] < n - 1 /\ L[r] \in Nat /\ R[r] = Int
    BY <1>2, <1>22 DEF Meant
  <2>2. n \in Nat /\ n # 0
    BY <1>2
  <2>3. NoneHigher(L, n, L[r])
    BY <1>22, TreeTop
  <2> QED  BY <1>1, <2>1, <2>2, <2>3, RootKept
<1>25. IsFile(g, n + 1)
  BY <1>5
<1>26. IsTree(g, n + 1, M, Q, st, p, n)
  BY <1>4, <1>18, <1>20, <1>21, <1>23, <1>24, <1>25 DEF IsTree
<1> QED  BY <1>15, <1>16, <1>26

-----------------------------------------------------------------------------
(* The writes of an insert into an inner node.                             *)

(* The children of a half are there, and none of them is one of the two halves. *)
Numbered(f, n, p) == \A x \in 1..(n - 1) : x # p => f[x].id = x
LEMMA HalfIsPlaced ==
  ASSUME NEW node, node.leaf = FALSE, NEW q, NEW n \in Nat, n # 0, NEW M, NEW Q, NEW p,
         NEW l \in Nat, M[p] = l, M[n] = l, M[q] = l,
         NEW m, m = n + 1, IsInner(node, q, m, M, Q, p, n),
         NEW f, NEW ok, Numbered(f, n, p)
  PROVE  Placed(node, q, f, m, M, ok)
<1>1. /\ M[q] # 0 /\ M[q] \in Nat /\ M[p] = M[q] /\ M[n] = M[q]
      /\ Len(node.children) = Len(node.keys) + 1
  BY DEF IsInner
<1>2. ASSUME NEW i \in 1..Len(node.children) PROVE IsBelow(node.children[i], q, f, m, M)
  <2>1. PICK c : c = node.children[i]
    OBVIOUS
  <2>2. c \in 1..((n + 1) - 1) /\ M[c] = M[q] - 1
    BY <2>1 DEF IsInner
  <2>3. c # p /\ c # n
    BY <1>1, <2>2
  <2>4. c \in 1..(n - 1)
    BY <2>2, <2>3, OneMore
  <2>5. f[c].id = c
    BY <2>3, <2>4 DEF Numbered
  <2>6. IsBelow(c, q, f, m, M)
    BY <2>2, <2>5 DEF IsBelow
  <2> QED  BY <2>1, <2>6
<1> QED  BY <1>1, <1>2 DEF Placed

SplitTo(f, n, L, R, st, p, t, left, right, ok, g, M, Q) ==
  /\ Leads(f, <<Allocated(n), Written(left), Written(right)>>, g, ok)
  /\ CutAt(L, R, M, Q, n, p, t) /\ IsTree(g, n + 1, M, Q, st, p, n)
  /\ g[0] = f[0] /\ \A q \in 1..(n - 1) : q # p => g[q] = f[q]

LEMMA HalvesWritten ==
  ASSUME Parameters, NEW f, NEW n, NEW L, NEW R, NEW st, NEW d, NEW new, IsTree(f, n, L, R, st, d, new),
         NEW s \in Int, NEW p, NEW a, Parent(f, n, L, R, d, new, s, p, a), f[0].id # d,
         NEW keys \in Seq(Keys), NEW children, Fans(keys, children, n, L, R, R[p], L[p]),
         NEW h \in 1..Len(keys), h < Len(keys), NEW t, t = keys[h + 1],
         NEW left \in NodeRecord, left.leaf = FALSE, left.id = p,
         NEW right \in NodeRecord, right.leaf = FALSE, right.id = n,
         HalvesFan(keys, children, h, left.keys, left.children, right.keys, right.children),
         NEW ok, Allowed(st, ok)
  PROVE  \E g, M, Q : SplitTo(f, n, L, R, st, p, t, left, right, ok, g, M, Q)
<1>1. p \in 1..(n - 1)
  BY DEF Parent
<1>2. /\ IsFile(f, n) /\ n \in Nat /\ n # 0
      /\ \A x \in 1..(n - 1) : x \in 0..(n - 1) /\ f[x].id = x /\ R[x] # {} /\ Convex(R[x])
  BY TreeShape
<1>3. L[p] # 0 /\ L[p] \in Nat /\ R[p] \in SUBSET Int
  BY ParentShape
<1>4. t \in Int
  <2>1. h + 1 \in 1..Len(keys)
    OBVIOUS
  <2>2. t \in Keys
    BY <2>1, ElementOf
  <2> QED  BY <2>2 DEF Parameters
<1>5. LowPart(R[p], t) # {} /\ HighPart(R[p], t) # {}
  <2>1. PICK S \in SUBSET Int : S = R[p]
    BY <1>3
  <2>2. PICK l : l = L[p]
    OBVIOUS
  <2>3. Fans(keys, children, n, L, R, S, l)
    BY <2>1, <2>2
  <2>4. LowPart(S, t) # {} /\ HighPart(S, t) # {}
    <3>1. NoneEmpty(R, n)
      BY <1>2 DEF NoneEmpty
    <3> QED  BY <2>3, <3>1, MiddleParts
  <2> QED  BY <2>1, <2>4
<1>6. PICK M, Q : CutAt(L, R, M, Q, n, p, t)
  BY <1>1, <1>4, <1>5, RangesCut
<1>7. MoreLevels(M, L, n) /\ M[n] = L[p] /\ M[p] = L[p]
  BY <1>1, <1>6 DEF CutAt, MoreLevels
<1>8. PICK f1 : f1 = With(f, n, Zero)
  OBVIOUS
<1>9. Extended(f, f1, n, Zero)
  BY <1>2, <1>8, ZeroIsNode, BeyondShape
<1>10. IsFile(f1, n + 1) /\ \A q \in 0..(n - 1) : f1[q] = f[q]
  BY <1>9 DEF Extended
<1>11. /\ n \in 0..((n + 1) - 1) /\ p \in 0..((n + 1) - 1) /\ p # n /\ p # 0 /\ n # 0
       /\ p \in 1..((n + 1) - 1) /\ n \in 1..((n + 1) - 1) /\ 0 \in 0..(n - 1)
       /\ \A q \in 0..(n - 1) : q \in 0..((n + 1) - 1) /\ q # n
       /\ \A q \in 1..(n - 1) : q \in 0..(n - 1)
  BY <1>1, <1>2
<1>12. PICK f2 : f2 = With(f1, p, left)
  OBVIOUS
<1>13. Rewritten(f1, f2, n + 1, p, left)
  BY <1>10, <1>11, <1>12, WithinShape
<1>14. IsFile(f2, n + 1) /\ f2[p] = left /\ \A q \in 0..((n + 1) - 1) : q # p => f2[q] = f1[q]
  BY <1>13 DEF Rewritten
<1>15. PICK f3 : f3 = With(f2, n, right)
  OBVIOUS
<1>16. Rewritten(f2, f3, n + 1, n, right)
  BY <1>11, <1>14, <1>15, WithinShape
<1>17. IsFile(f3, n + 1) /\ f3[n] = right /\ \A q \in 0..((n + 1) - 1) : q # n => f3[q] = f2[q]
  BY <1>16 DEF Rewritten
<1>18. f3[p] = left /\ \A q \in 0..(n - 1) : q # p => f3[q] = f[q]
  BY <1>10, <1>11, <1>14, <1>17
<1>19. InnerCut(f, f3, n, p, left, right)
  BY <1>17, <1>18 DEF InnerCut
<1>20. /\ IsTree(f3, n + 1, M, Q, st, p, n)
       /\ IsInner(left, p, n + 1, M, Q, p, n) /\ IsInner(right, n, n + 1, M, Q, p, n)
  BY <1>6, <1>19, InnerCutTree
<1>21. Sound(f, n, L, ok)
  BY TreeIsReadable
<1>22. Sound(f1, n + 1, M, ok) /\ Leads(f, <<Allocated(n)>>, f1, ok)
  BY <1>7, <1>8, <1>21, ZerosWritten
<1>23. Placed(left, p, f1, n + 1, M, ok)
  <2>1. Numbered(f1, n, p)
    BY <1>2, <1>10, <1>11 DEF Numbered
  <2>2. PICK l : l = L[p]
    OBVIOUS
  <2>3. n \in Nat /\ n # 0 /\ l \in Nat /\ M[p] = l /\ M[n] = l
    BY <1>2, <1>3, <1>7, <2>2
  <2>4. PICK m : m = n + 1
    OBVIOUS
  <2>5. IsInner(left, p, m, M, Q, p, n)
    BY <1>20, <2>4
  <2>6. Placed(left, p, f1, m, M, ok)
    BY <2>1, <2>3, <2>4, <2>5, HalfIsPlaced
  <2> QED  BY <2>4, <2>6
<1>24. Sound(f2, n + 1, M, ok) /\ Leads(f1, <<<<p, left>>>>, f2, ok)
  BY <1>11, <1>12, <1>22, <1>23, WrittenWithin
<1>25. Placed(right, n, f2, n + 1, M, ok)
  <2>1. Numbered(f2, n, p)
    BY <1>2, <1>10, <1>11, <1>14 DEF Numbered
  <2>2. PICK l : l = L[p]
    OBVIOUS
  <2>3. n \in Nat /\ n # 0 /\ l \in Nat /\ M[p] = l /\ M[n] = l
    BY <1>2, <1>3, <1>7, <2>2
  <2>4. PICK m : m = n + 1
    OBVIOUS
  <2>5. IsInner(right, n, m, M, Q, p, n)
    BY <1>20, <2>4
  <2>6. Placed(right, n, f2, m, M, ok)
    BY <2>1, <2>3, <2>4, <2>5, HalfIsPlaced
  <2> QED  BY <2>4, <2>6
<1>26. Leads(f2, <<<<n, right>>>>, f3, ok)
  BY <1>11, <1>15, <1>24, <1>25, WrittenWithin
<1>27. Written(left) = <<p, left>> /\ Written(right) = <<n, right>>
  BY DEF Written
<1>28. Leads(f, <<Allocated(n), Written(left), Written(right)>>, f3, ok)
  BY <1>22, <1>24, <1>26, <1>27, LeadsByThree
<1>29. f3[0] = f[0] /\ \A q \in 1..(n - 1) : q # p => f3[q] = f[q]
  BY <1>11, <1>18
<1>30. SplitTo(f, n, L, R, st, p, t, left, right, ok, f3, M, Q)
  BY <1>6, <1>20, <1>28, <1>29 DEF SplitTo
<1> QED  BY <1>30

LEMMA LeadsByOneMore ==
  ASSUME NEW f, NEW v, NEW g, NEW w, NEW h, NEW ok, Leads(f, v, g, ok), Leads(g, <<w>>, h, ok)
  PROVE  Leads(f, Append(v, w), h, ok)
<1>1. v \in Seq(Write) /\ <<w>> \in Seq(Write)
  BY DEF Leads
<1>2. w \in Write
  <2>1. Len(<<w>>) = 1 /\ <<w>>[1] = w
    OBVIOUS
  <2>2. 1 \in 1..Len(<<w>>)
    BY <2>1
  <2> QED  BY <1>1, <2>1, <2>2, ElementOf
<1>3. Leads(f, v \o <<w>>, h, ok)
  BY LeadsByBoth
<1>4. PICK a : a = v \o <<w>>
  OBVIOUS
<1>5. PICK b : b = Append(v, w)
  OBVIOUS
<1>6. PICK x : x = <<w>>
  OBVIOUS
<1>7. Len(x) = 1 /\ x[1] = w /\ x \in Seq(Write)
  BY <1>1, <1>6
<1>8. /\ Len(a) = Len(v) + 1
      /\ \A i \in 1..Len(v) : a[i] = v[i]
      /\ \A i \in 1..Len(x) : a[Len(v) + i] = x[i]
  BY <1>1, <1>4, <1>6, <1>7, Joined
<1>9. b \in Seq(Write) /\ Len(b) = Len(v) + 1 /\ b[Len(v) + 1] = w /\ \A i \in 1..Len(v) : b[i] = v[i]
  BY <1>1, <1>2, <1>5
<1>10. Len(v) \in Nat
  BY <1>1
<1>11. ASSUME NEW i \in 1..Len(a) PROVE b[i] = a[i]
  <2>1. CASE i \in 1..Len(v)
    BY <1>8, <1>9, <2>1
  <2>2. CASE i = Len(v) + 1
    <3>1. 1 \in 1..Len(x)
      BY <1>7
    <3>2. a[Len(v) + 1] = w
      BY <1>7, <1>8, <3>1
    <3> QED  BY <1>9, <2>2, <3>2
  <2> QED  BY <1>8, <1>10, <2>1, <2>2
<1>12. Leads(f, a, h, ok)
  BY <1>3, <1>4
<1>13. Leads(f, b, h, ok)
  BY <1>8, <1>9, <1>11, <1>12, LeadsBySame
<1> QED  BY <1>5, <1>13

(* What an insert at level m left of the page p one level up. *)
Above(g, M, n, N, L, m, p) ==
  n \in Nat /\ N \in Nat /\ n <= N /\ p \in 1..(n - 1) /\ L[p] = m + 1 /\ m \in Nat
  /\ L \in [1..(n - 1) -> Nat] /\ UntouchedAbove(g, M, n, L, m)

(* Rewriting p keeps what is above the next level. *)
LEMMA StillUntouched ==
  ASSUME NEW g, NEW M, NEW n, NEW N, NEW L, NEW m, NEW p, Above(g, M, n, N, L, m, p),
         NEW h, NEW Q, h[0] = g[0], \A q \in 1..(N - 1) : q # p => h[q] = g[q],
         \A q \in 1..(N - 1) : Q[q] = M[q]
  PROVE  UntouchedAbove(h, Q, n, L, m + 1)
<1>1. /\ n \in Nat /\ N \in Nat /\ n <= N /\ L[p] = m + 1 /\ m \in Nat /\ L \in [1..(n - 1) -> Nat]
      /\ UntouchedAbove(g, M, n, L, m)
  BY DEF Above
<1>2. ASSUME NEW x \in 1..(n - 1) PROVE Q[x] = L[x] /\ (L[x] > m + 1 => h[x] = pages[x])
  <2>1. x \in 1..(N - 1) /\ L[x] \in Nat
    BY <1>1
  <2>2. M[x] = L[x] /\ (L[x] > m => g[x] = pages[x])
    BY <1>1 DEF UntouchedAbove
  <2>3. L[x] > m + 1 => x # p /\ L[x] > m
    BY <1>1, <2>1
  <2> QED  BY <2>1, <2>2, <2>3
<1>3. h[0] = pages[0]
  BY <1>1 DEF UntouchedAbove
<1> QED  BY <1>2, <1>3 DEF UntouchedAbove

LEMMA InnerFitHands ==
  ASSUME Parameters, NEW g, NEW N, NEW M, NEW R, NEW st, NEW d, NEW new, IsTree(g, N, M, R, st, d, new),
         NEW s \in Int, NEW p, NEW a, Parent(g, N, M, R, d, new, s, p, a), g[0].id # d,
         NEW ok, Allowed(st, ok), NEW n, NEW L, NEW m, Above(g, M, n, N, L, m, p),
         NEW ws, Leads(pages, ws, g, ok),
         NEW keys, NEW children, Fans(keys, children, N, M, R, R[p], M[p]),
         NEW node \in NodeRecord, node.leaf = FALSE, node.id = p, node.keys = keys, node.children = children
  PROVE  Handed(NotSplit(Append(ws, Written(node)), N), p, m + 1, n, L, st, ok)
<1>1. PICK h : h = With(g, p, node)
  OBVIOUS
<1>2. IsTree(h, N, M, R, st, NoPage, NoPage) /\ h[0] = g[0] /\ \A q \in 1..(N - 1) : q # p => h[q] = g[q]
  <2>1. WholeTree(g, With(g, p, node), N, M, R, st, p)
    BY InnerTree
  <2> QED  BY <1>1, <2>1 DEF WholeTree
<1>3. Readable(g, ok) /\ Readable(h, ok)
  BY <1>2, TreeIsReadable
<1>4. p \in Int
  BY DEF Parent
<1>5. Leads(g, <<<<p, node>>>>, h, ok)
  BY <1>1, <1>3, <1>4, LeadsByOne
<1>6. Written(node) = <<p, node>>
  BY DEF Written
<1>7. Leads(pages, Append(ws, Written(node)), h, ok)
  BY <1>5, <1>6, LeadsByOneMore
<1>8. PICK below : below = NotSplit(Append(ws, Written(node)), N)
  OBVIOUS
<1>9. below.writes = Append(ws, Written(node)) /\ below.next = N /\ below.split = FALSE
  BY <1>8 DEF NotSplit
<1>10. UntouchedAbove(h, M, n, L, m + 1)
  BY <1>2, StillUntouched
<1>11. LeadsToTree(below, h, M, R, p, st)
  BY <1>2, <1>9 DEF LeadsToTree
<1>12. n <= below.next
  BY <1>9 DEF Above
<1>13. Leads(pages, below.writes, h, ok)
  BY <1>7, <1>9
<1>14. Handed(below, p, m + 1, n, L, st, ok)
  BY <1>10, <1>11, <1>12, <1>13 DEF Handed
<1> QED  BY <1>8, <1>14

LEMMA InnerSplitHands ==
  ASSUME Parameters, NEW g, NEW N, NEW M, NEW R, NEW st, NEW d, NEW new, IsTree(g, N, M, R, st, d, new),
         NEW s \in Int, NEW p, NEW a, Parent(g, N, M, R, d, new, s, p, a), g[0].id # d,
         NEW ok, Allowed(st, ok), NEW n, NEW L, NEW m, Above(g, M, n, N, L, m, p),
         NEW ws, Leads(pages, ws, g, ok),
         NEW keys \in Seq(Keys), NEW children, Fans(keys, children, N, M, R, R[p], M[p]),
         NEW h \in 1..Len(keys), h < Len(keys), NEW t, t = keys[h + 1],
         NEW left \in NodeRecord, left.leaf = FALSE, left.id = p,
         NEW right \in NodeRecord, right.leaf = FALSE, right.id = N,
         HalvesFan(keys, children, h, left.keys, left.children, right.keys, right.children)
  PROVE  Handed(Split(ws \o <<Allocated(N), Written(left), Written(right)>>, N + 1, t, N), p, m + 1, n, L, st, ok)
<1>1. PICK k, M2, Q : SplitTo(g, N, M, R, st, p, t, left, right, ok, k, M2, Q)
  BY HalvesWritten
<1>2. /\ Leads(g, <<Allocated(N), Written(left), Written(right)>>, k, ok)
      /\ CutAt(M, R, M2, Q, N, p, t) /\ IsTree(k, N + 1, M2, Q, st, p, N)
      /\ k[0] = g[0] /\ \A q \in 1..(N - 1) : q # p => k[q] = g[q]
  BY <1>1 DEF SplitTo
<1>3. PICK v : v = ws \o <<Allocated(N), Written(left), Written(right)>>
  OBVIOUS
<1>4. Leads(pages, v, k, ok)
  BY <1>2, <1>3, LeadsByBoth
<1>5. PICK below : below = Split(v, N + 1, t, N)
  OBVIOUS
<1>6. below.writes = v /\ below.next = N + 1 /\ below.split = TRUE /\ below.key = t /\ below.new = N
  BY <1>5 DEF Split
<1>7. /\ M2[N] = M[p] /\ \A q \in 1..(N - 1) : M2[q] = M[q]
      /\ Q[N] = HighPart(R[p], t) /\ Q[p] = LowPart(R[p], t) /\ Q[p] \cup Q[N] = R[p]
  BY <1>2 DEF CutAt
<1>8. p \in 1..(N - 1) /\ N \in Nat /\ N # 0
  <2>1. N \in Nat /\ N # 0
    BY TreeShape
  <2> QED  BY <2>1 DEF Parent
<1>9. UntouchedAbove(k, M2, n, L, m + 1)
  BY <1>2, <1>7, StillUntouched
<1>10. CutOf(Q, p, N, t)
  BY <1>7 DEF CutOf
<1>11. t \in Keys
  <2>1. h + 1 \in 1..Len(keys)
    OBVIOUS
  <2> QED  BY <2>1, ElementOf
<1>12. M2[N] = M2[p] /\ N # p /\ N \in 1..((N + 1) - 1)
  BY <1>7, <1>8
<1>13. LeadsToTree(below, k, M2, Q, p, st)
  BY <1>2, <1>6, <1>10, <1>11, <1>12 DEF LeadsToTree
<1>14. n <= below.next
  <2>1. n \in Nat /\ n <= N
    BY DEF Above
  <2> QED  BY <1>6, <1>8, <2>1
<1>15. Leads(pages, below.writes, k, ok)
  BY <1>4, <1>6
<1>16. Handed(below, p, m + 1, n, L, st, ok)
  BY <1>9, <1>13, <1>14, <1>15 DEF Handed
<1> QED  BY <1>3, <1>5, <1>16

(* An insert into an inner node, given what was done one level down. *)
LEMMA InnerHands ==
  ASSUME Parameters, NEW n \in Nat, NEW L \in [1..(n - 1) -> Nat], NEW st, NEW ok, Allowed(st, ok),
         NEW m \in Nat, NEW p \in 1..(n - 1), L[p] = m + 1, pages[p].leaf = FALSE,
         NEW k \in Int, NEW d, d = pages[p].children[ChildIndex(pages[p], k)], Root # d,
         NEW below, Handed(below, d, m, n, L, st, ok)
  PROVE  Handed(InsertInInternal(pages[p], k, below), p, m + 1, n, L, st, ok)
<1>1. PICK node : node = pages[p]
  OBVIOUS
<1>2. PICK g, M, R : /\ Leads(pages, below.writes, g, ok) /\ n <= below.next
                     /\ UntouchedAbove(g, M, n, L, m) /\ LeadsToTree(below, g, M, R, d, st)
  BY DEF Handed
<1>3. PICK result : result = InsertInInternal(node, k, below)
  OBVIOUS
<1>4. PICK N : N = below.next
  OBVIOUS
<1>5. g[0] = pages[0] /\ M[p] = L[p] /\ g[p] = node
  <2>1. L[p] > m
    OBVIOUS
  <2> QED  BY <1>1, <1>2, <2>1 DEF UntouchedAbove
<1>6. g[0].id # d
  BY <1>5 DEF Root
<1>7. N \in Nat /\ N # 0 /\ g \in [0..(N - 1) -> NodeRecord]
  <2>1. CASE below.split = FALSE
    <3>1. IsTree(g, N, M, R, st, NoPage, NoPage)
      BY <1>2, <1>4, <2>1 DEF LeadsToTree
    <3> QED  BY <3>1, TreeShape DEF IsFile
  <2>2. CASE below.split = TRUE
    <3>1. PICK new : new = below.new
      OBVIOUS
    <3>2. IsTree(g, N, M, R, st, d, new)
      BY <1>2, <1>4, <2>2, <3>1 DEF LeadsToTree
    <3> QED  BY <3>2, TreeShape DEF IsFile
  <2> QED  BY <1>2, <2>1, <2>2 DEF LeadsToTree
<1>8. Above(g, M, n, N, L, m, p)
  BY <1>2, <1>4, <1>7 DEF Above
<1>9. ASSUME below.split = FALSE PROVE Handed(result, p, m + 1, n, L, st, ok)
  <2>1. result = below
    BY <1>3, <1>9 DEF InsertInInternal
  <2>2. IsTree(g, N, M, R, st, NoPage, NoPage)
    BY <1>2, <1>4, <1>9 DEF LeadsToTree
  <2>3. LeadsToTree(below, g, M, R, p, st)
    BY <1>4, <1>9, <2>2 DEF LeadsToTree
  <2>4. UntouchedAbove(g, M, n, L, m + 1)
    BY <1>8, StillUntouched
  <2>5. Handed(below, p, m + 1, n, L, st, ok)
    BY <1>2, <2>3, <2>4 DEF Handed
  <2> QED  BY <2>1, <2>5
<1>10. ASSUME below.split = TRUE PROVE Handed(result, p, m + 1, n, L, st, ok)
  <2>1. PICK new : new = below.new
    OBVIOUS
  <2>2. PICK s : s = below.key
    OBVIOUS
  <2>3. /\ IsTree(g, N, M, R, st, d, new) /\ s \in Keys /\ new \in 1..(N - 1) /\ new # d
        /\ M[new] = M[d] /\ CutOf(R, d, new, s)
    BY <1>2, <1>4, <1>10, <2>1, <2>2 DEF LeadsToTree
  <2>4. s \in Int
    BY <2>3 DEF Parameters
  <2>5. node \in NodeRecord /\ node.id = p /\ p \in 1..(N - 1) /\ node.leaf = FALSE
    <3>1. /\ \A q \in 1..(N - 1) : q \in 0..(N - 1) /\ g[q] \in NodeRecord /\ g[q].id = q /\ R[q] # {} /\ Convex(R[q])
      BY <2>3, TreeShape
    <3>2. p \in 1..(N - 1)
      BY <1>2, <1>4, <1>7
    <3> QED  BY <1>1, <1>5, <3>1, <3>2
  <2>6. IsInner(node, p, N, M, R, d, new)
    <3>1. \A q \in 1..(N - 1) : ~g[q].leaf => IsInner(g[q], q, N, M, R, d, new)
      BY <2>3 DEF IsTree
    <3> QED  BY <1>5, <2>5, <3>1
  <2>7. Len(node.children) = Len(node.keys) + 1 /\ node.keys \in Seq(Keys) /\ node.children \in Seq(Int)
    BY <2>5, <2>6 DEF IsInner, NodeRecord
  <2>8. PICK a : a = ChildIndex(node, k)
    OBVIOUS
  <2>9. a \in 1..Len(node.children) /\ d = node.children[a]
    BY <1>1, <2>5, <2>7, <2>8, ChildTaken
  <2>10. d \in 1..(N - 1)
    BY <2>6, <2>9 DEF IsInner
  <2>11. Parent(g, N, M, R, d, new, s, p, a)
    BY <1>5, <2>3, <2>5, <2>9, <2>10 DEF Parent
  <2>12. PICK ks : ks = node.keys
    OBVIOUS
  <2>13. PICK cs : cs = node.children
    OBVIOUS
  <2>14. ks \in Seq(Keys) /\ cs \in Seq(Int) /\ Len(cs) = Len(ks) + 1 /\ Len(ks) \in Nat /\ a \in 1..Len(cs)
    BY <2>7, <2>9, <2>12, <2>13
  <2>15. PICK keys : keys = InsertAt(ks, a, s)
    OBVIOUS
  <2>16. keys \in Seq(Keys) /\ Inserted(ks, keys, a, s)
    <3>1. a \in 1..(Len(ks) + 1)
      BY <2>14
    <3> QED  BY <2>3, <2>14, <2>15, <3>1, InsertAtShape
  <2>17. PICK children : children = InsertAt(cs, a + 1, new)
    OBVIOUS
  <2>18. children \in Seq(Int) /\ Inserted(cs, children, a + 1, new)
    <3>1. a + 1 \in 1..(Len(cs) + 1) /\ new \in Int
      BY <2>3, <2>14, SMTT(30)
    <3> QED  BY <2>14, <2>17, <3>1, InsertAtShape
  <2>19. Fans(keys, children, N, M, R, R[p], M[p])
    <3>1. Inserted(g[p].keys, keys, a, s) /\ Inserted(g[p].children, children, a + 1, new)
      BY <1>5, <2>12, <2>13, <2>16, <2>18
    <3> QED  BY <2>3, <2>11, <2>16, <3>1, ChildInserted
  <2>20. PICK ws : ws = below.writes
    OBVIOUS
  <2>21. Leads(pages, ws, g, ok)
    BY <1>2, <2>20
  <2>22. Len(keys) \in Nat /\ Len(keys) = Len(ks) + 1 /\ Len(children) = Len(keys) + 1
    <3>1. Len(keys) = Len(ks) + 1
      BY <2>16 DEF Inserted
    <3>2. Len(children) = Len(cs) + 1
      BY <2>18 DEF Inserted
    <3> QED  BY <2>14, <3>1, <3>2
  <2>23. PICK half : half = Len(keys) \div 2
    OBVIOUS
  <2>24. PICK left : left = [node EXCEPT !.keys = SubSeq(keys, 1, half), !.children = SubSeq(children, 1, half + 1)]
    OBVIOUS
  <2>25. PICK right : right = Internal(N, SubSeq(keys, half + 2, Len(keys)), SubSeq(children, half + 2, Len(children)))
    OBVIOUS
  <2>26. PICK full : full = [node EXCEPT !.keys = keys, !.children = children]
    OBVIOUS
  <2>27. result = IF Len(keys) <= InternalCapacity THEN NotSplit(Append(ws, Written(full)), N)
                  ELSE Split(ws \o <<Allocated(N), Written(left), Written(right)>>, N + 1, keys[half + 1], N)
    BY <1>3, <1>4, <1>10, <2>1, <2>2, <2>8, <2>12, <2>13, <2>15, <2>17, <2>20, <2>23, <2>24, <2>25, <2>26
       DEF InsertInInternal
  <2>28. CASE Len(keys) <= InternalCapacity
    <3>1. /\ full \in NodeRecord /\ full.leaf = FALSE /\ full.id = p
          /\ full.keys = keys /\ full.children = children
      BY <2>5, <2>16, <2>18, <2>26 DEF NodeRecord
    <3>2. Handed(NotSplit(Append(ws, Written(full)), N), p, m + 1, n, L, st, ok)
      BY <1>6, <1>8, <2>3, <2>4, <2>11, <2>19, <2>21, <3>1, InnerFitHands
    <3> QED  BY <2>27, <2>28, <3>2
  <2>29. CASE ~(Len(keys) <= InternalCapacity)
    <3>1. Len(keys) >= 2
      <4>1. InternalCapacity \in Nat \ {0}
        BY DEF Parameters
      <4> QED  BY <2>22, <2>29, <4>1
    <3>2. half \in 1..(Len(keys) - 1)
      BY <2>22, <2>23, <3>1, HalfOf
    <3>3. half \in 1..Len(keys) /\ half < Len(keys)
      BY <2>22, <3>2
    <3>4. PICK u : u = SubSeq(keys, 1, half)
      OBVIOUS
    <3>5. PICK cu : cu = SubSeq(children, 1, half + 1)
      OBVIOUS
    <3>6. PICK v : v = SubSeq(keys, half + 2, Len(keys))
      OBVIOUS
    <3>7. PICK cv : cv = SubSeq(children, half + 2, Len(children))
      OBVIOUS
    <3>8. HalvesFan(keys, children, half, u, cu, v, cv) /\ cu \in Seq(Int) /\ cv \in Seq(Int)
      BY <2>16, <2>18, <2>22, <3>3, <3>4, <3>5, <3>6, <3>7, HalvesShape
    <3>9. u \in Seq(Keys) /\ v \in Seq(Keys)
      BY <3>8 DEF HalvesFan
    <3>10. left \in NodeRecord /\ left.leaf = FALSE /\ left.id = p /\ left.keys = u /\ left.children = cu
      <4>1. left = [node EXCEPT !.keys = u, !.children = cu]
        BY <2>24, <3>4, <3>5
      <4> QED  BY <2>5, <3>8, <3>9, <4>1 DEF NodeRecord
    <3>11. right \in NodeRecord /\ right.leaf = FALSE /\ right.id = N /\ right.keys = v /\ right.children = cv
      <4>1. right = Node(N, FALSE, NoPage, NoPage, v, cv, <<>>)
        BY <2>25, <3>6, <3>7 DEF Internal
      <4>2. N \in Int /\ NoPage \in Int /\ FALSE \in BOOLEAN /\ <<>> \in Seq(Entry)
        BY <1>7 DEF NoPage
      <4> QED  BY <3>8, <3>9, <4>1, <4>2 DEF Node, NodeRecord
    <3>12. PICK t : t = keys[half + 1]
      OBVIOUS
    <3>13. HalvesFan(keys, children, half, left.keys, left.children, right.keys, right.children)
      BY <3>8, <3>10, <3>11
    <3>14. Handed(Split(ws \o <<Allocated(N), Written(left), Written(right)>>, N + 1, t, N), p, m + 1, n, L, st, ok)
      BY <1>6, <1>8, <2>3, <2>4, <2>11, <2>16, <2>19, <2>21, <3>3, <3>10, <3>11, <3>12, <3>13, InnerSplitHands, ZenonT(40)
    <3> QED  BY <2>27, <2>29, <3>12, <3>14
  <2> QED  BY <2>28, <2>29
<1> QED
  <2>1. below.split = FALSE \/ below.split = TRUE
    BY <1>2 DEF LeadsToTree
  <2> QED  BY <1>1, <1>3, <1>9, <1>10, <2>1

-----------------------------------------------------------------------------
(* A root that was split gets a parent.                                    *)

(* The levels and ranges once the page n is above the root d. *)
Grown(L, R, M, Q, n, d) ==
  /\ M \in [1..((n + 1) - 1) -> Nat] /\ Q \in [1..((n + 1) - 1) -> SUBSET Int]
  /\ M[n] = L[d] + 1 /\ Q[n] = Int
  /\ \A x \in 1..(n - 1) : M[x] = L[x] /\ Q[x] = R[x]

LEMMA Growing ==
  ASSUME NEW n \in Nat, n # 0, NEW L \in [1..(n - 1) -> Nat], NEW R \in [1..(n - 1) -> SUBSET Int],
         NEW d \in 1..(n - 1)
  PROVE  \E M, Q : Grown(L, R, M, Q, n, d)
<1>1. PICK M : M = [x \in 1..((n + 1) - 1) |-> IF x = n THEN L[d] + 1 ELSE L[x]]
  OBVIOUS
<1>2. PICK Q : Q = [x \in 1..((n + 1) - 1) |-> IF x = n THEN Int ELSE R[x]]
  OBVIOUS
<1>3. /\ n \in 1..((n + 1) - 1)
      /\ \A q \in 1..(n - 1) : q \in 1..((n + 1) - 1) /\ q # n
      /\ \A q \in 1..((n + 1) - 1) : q = n \/ q \in 1..(n - 1)
  BY OneMore
<1>4. M \in [1..((n + 1) - 1) -> Nat]
  <2>1. L[d] + 1 \in Nat
    OBVIOUS
  <2>2. \A x \in 1..((n + 1) - 1) : M[x] \in Nat
    BY <1>1, <1>3, <2>1
  <2> QED  BY <1>1, <2>2
<1>5. Q \in [1..((n + 1) - 1) -> SUBSET Int]
  <2>1. \A x \in 1..((n + 1) - 1) : Q[x] \in SUBSET Int
    BY <1>2, <1>3
  <2> QED  BY <1>2, <2>1
<1>6. M[n] = L[d] + 1 /\ Q[n] = Int
  BY <1>1, <1>2, <1>3
<1>7. \A x \in 1..(n - 1) : M[x] = L[x] /\ Q[x] = R[x]
  BY <1>1, <1>2, <1>3
<1>8. Grown(L, R, M, Q, n, d)
  BY <1>4, <1>5, <1>6, <1>7 DEF Grown
<1> QED  BY <1>8

(* No node has the root for a child, so none notices. *)
LEMMA InnerBelowRoot ==
  ASSUME NEW n \in Nat, n # 0, NEW L \in [1..(n - 1) -> Nat], NEW R, NEW M, NEW Q, NEW d \in 1..(n - 1), NEW new,
         Grown(L, R, M, Q, n, d), NoneHigher(L, n, L[d]),
         NEW q \in 1..(n - 1), NEW node, IsInner(node, q, n, L, R, d, new)
  PROVE  IsInner(node, q, n + 1, M, Q, NoPage, NoPage)
<1>1. ASSUME NEW i \in 1..Len(node.children), NEW c, c = node.children[i]
      PROVE  c \in 1..((n + 1) - 1) /\ M[c] = M[q] - 1 /\ Meant(Q, NoPage, NoPage, c) = Share(node.keys, Q[q], i)
  <2>1. c \in 1..(n - 1) /\ L[c] = L[q] - 1 /\ Meant(R, d, new, c) = Share(node.keys, R[q], i)
    BY <1>1 DEF IsInner
  <2>2. c # d
    <3>1. L[q] <= L[d]
      BY DEF NoneHigher
    <3> QED  BY <2>1, <3>1
  <2>3. c \in 1..((n + 1) - 1) /\ c # NoPage
    BY <2>1 DEF NoPage
  <2>4. M[c] = L[c] /\ M[q] = L[q] /\ Q[c] = R[c] /\ Q[q] = R[q]
    BY <2>1 DEF Grown
  <2> QED  BY <2>1, <2>2, <2>3, <2>4 DEF Meant
<1>2. L[q] # 0 /\ InOrder(node.keys) /\ Len(node.children) = Len(node.keys) + 1 /\ M[q] = L[q]
  BY DEF IsInner, Grown
<1> QED  BY <1>1, <1>2 DEF IsInner

(* The parent of both halves. *)
Joins(node, d, s, new) == node.keys = <<s>> /\ node.children = <<d, new>>
LEMMA RootIsInner ==
  ASSUME NEW n \in Nat, n # 0, NEW L, NEW R, NEW M, NEW Q, NEW d \in 1..(n - 1), NEW new \in 1..(n - 1),
         L[d] \in Nat, L[new] = L[d], Grown(L, R, M, Q, n, d), NEW s \in Int, CutOf(R, d, new, s), R[d] \cup R[new] = Int,
         NEW node, Joins(node, d, s, new)
  PROVE  IsInner(node, n, n + 1, M, Q, NoPage, NoPage)
<1>1. /\ M[n] = L[d] + 1 /\ Q[n] = Int
      /\ M[d] = L[d] /\ M[new] = L[d] /\ Q[d] = R[d] /\ Q[new] = R[new]
  BY DEF Grown
<1>2. R[d] = LowPart(Int, s) /\ R[new] = HighPart(Int, s)
  BY DEF CutOf
<1>3. PICK ks : ks = <<s>>
  OBVIOUS
<1>4. Len(ks) = 1 /\ ks[1] = s
  BY <1>3
<1>5. PICK cs : cs = <<d, new>>
  OBVIOUS
<1>6. Len(cs) = 2 /\ cs[1] = d /\ cs[2] = new
  BY <1>5
<1>7. Share(ks, Int, 1) = LowPart(Int, s)
  <2>1. \A k : k \in Share(ks, Int, 1) <=> k \in Int /\ k < s
    BY <1>4 DEF Share
  <2> QED  BY <2>1 DEF LowPart
<1>8. Share(ks, Int, 2) = HighPart(Int, s)
  <2>1. \A k : k \in Share(ks, Int, 2) <=> k \in Int /\ s <= k
    BY <1>4 DEF Share
  <2> QED  BY <2>1 DEF HighPart
<1>9. InOrder(ks)
  BY <1>4 DEF InOrder
<1>10. d # NoPage /\ new # NoPage /\ d \in 1..((n + 1) - 1) /\ new \in 1..((n + 1) - 1)
  BY DEF NoPage
<1>11. ASSUME NEW i \in 1..Len(cs), NEW c, c = cs[i]
       PROVE  c \in 1..((n + 1) - 1) /\ M[c] = M[n] - 1 /\ Meant(Q, NoPage, NoPage, c) = Share(ks, Q[n], i)
  <2>1. i = 1 \/ i = 2
    BY <1>6
  <2>2. c = d \/ c = new
    BY <1>6, <1>11, <2>1
  <2>3. c \in 1..((n + 1) - 1) /\ M[c] = M[n] - 1
    BY <1>1, <1>10, <2>2
  <2>4. Meant(Q, NoPage, NoPage, c) = Q[c]
    BY <1>10, <2>2 DEF Meant
  <2>5. CASE i = 1
    BY <1>1, <1>2, <1>6, <1>7, <1>11, <2>3, <2>4, <2>5
  <2>6. CASE i = 2
    BY <1>1, <1>2, <1>6, <1>8, <1>11, <2>3, <2>4, <2>6
  <2> QED  BY <2>1, <2>5, <2>6
<1>12. M[n] # 0
  BY <1>1
<1>13. node.keys = ks /\ node.children = cs
  BY <1>3, <1>5 DEF Joins
<1>14. InOrder(node.keys) /\ Len(node.children) = Len(node.keys) + 1
  <2>1. InOrder(node.keys)
    BY <1>9, <1>13
  <2>2. Len(node.children) = 2
    BY <1>6, <1>13
  <2>3. Len(node.keys) = 1
    BY <1>4, <1>13
  <2> QED  BY <2>1, <2>2, <2>3
<1>15. ASSUME NEW i \in 1..Len(node.children), NEW c, c = node.children[i]
       PROVE  /\ c \in 1..((n + 1) - 1) /\ M[c] = M[n] - 1
              /\ Meant(Q, NoPage, NoPage, c) = Share(node.keys, Q[n], i)
  BY <1>11, <1>13, <1>15
<1> QED  BY <1>12, <1>14, <1>15 DEF IsInner

(* g is f with the page n above all others. *)
HasGrown(f, g, n, node) ==
  /\ IsFile(g, n + 1) /\ g[0].id = n /\ g[n] = node
  /\ \A q \in 1..(n - 1) : g[q] = f[q]

LEMMA GrownTree ==
  ASSUME NEW f, NEW n, NEW L, NEW R, NEW st, NEW d, NEW new, IsTree(f, n, L, R, st, d, new), f[0].id = d,
         new \in 1..(n - 1), L[new] = L[d], NEW s \in Int, CutOf(R, d, new, s),
         NEW node, node.leaf = FALSE, node.id = n, Joins(node, d, s, new),
         NEW g, HasGrown(f, g, n, node), NEW M, NEW Q, Grown(L, R, M, Q, n, d)
  PROVE  IsTree(g, n + 1, M, Q, st, NoPage, NoPage) /\ IsInner(node, n, n + 1, M, Q, NoPage, NoPage)
<1>1. /\ IsFile(f, n) /\ n \in Nat /\ n # 0
      /\ L \in [1..(n - 1) -> Nat] /\ R \in [1..(n - 1) -> SUBSET Int]
      /\ f[0].id \in 1..(n - 1) /\ L[f[0].id] < n - 1 /\ Meant(R, d, new, f[0].id) = Int
      /\ \A q \in 1..(n - 1) : q \in 0..(n - 1) /\ f[q].id = q /\ R[q] # {} /\ Convex(R[q])
      /\ \A x, y \in 1..(n - 1) : x # y /\ L[x] = L[y] => R[x] \cap R[y] = {}
      /\ \A q \in 1..(n - 1) : f[q].leaf => IsLeaf(f, n, L, R, st, q)
  BY TreeShape, SMTT(30)
<1>2. NoneHigher(L, n, L[d])
  BY TreeTop
<1>3. d \in 1..(n - 1) /\ L[d] \in Nat /\ L[d] < n - 1 /\ R[d] \cup R[new] = Int
  BY <1>1 DEF Meant
<1>4. /\ M \in [1..((n + 1) - 1) -> Nat] /\ Q \in [1..((n + 1) - 1) -> SUBSET Int]
      /\ M[n] = L[d] + 1 /\ Q[n] = Int
      /\ \A x \in 1..(n - 1) : M[x] = L[x] /\ Q[x] = R[x]
  BY DEF Grown
<1>5. /\ n \in 1..((n + 1) - 1)
      /\ \A q \in 1..(n - 1) : q \in 1..((n + 1) - 1) /\ q # n
      /\ \A q \in 1..((n + 1) - 1) : q = n \/ q \in 1..(n - 1)
  BY <1>1, OneMore
<1>6. IsFile(g, n + 1) /\ g[0].id = n /\ g[n] = node /\ \A q \in 1..(n - 1) : g[q] = f[q]
  BY DEF HasGrown
<1>7. IsInner(node, n, n + 1, M, Q, NoPage, NoPage)
  <2>1. n \in Nat /\ n # 0
    BY <1>1
  <2> QED  BY <1>3, <2>1, RootIsInner
<1>8. \A x \in 1..(n - 1) : M[x] < M[n]
  <2>1. \A x \in 1..(n - 1) : L[x] <= L[d] /\ L[x] \in Nat
    BY <1>1, <1>2 DEF NoneHigher
  <2> QED  BY <1>3, <1>4, <2>1
<1>9. IsTop(g[0].id, n + 1, M, Q, NoPage, NoPage)
  <2>1. M[n] < (n + 1) - 1
    BY <1>1, <1>3, <1>4
  <2>2. ASSUME NEW x \in 1..((n + 1) - 1) PROVE M[x] <= M[n]
    <3>1. M[x] \in Nat /\ M[n] \in Nat
      BY <1>4, <1>5
    <3>2. x = n \/ M[x] < M[n]
      BY <1>5, <1>8
    <3> QED  BY <3>1, <3>2
  <2>3. Meant(Q, NoPage, NoPage, n) = Int
    BY <1>1, <1>4 DEF Meant, NoPage
  <2>4. NoneHigher(M, n + 1, M[n])
    BY <2>2 DEF NoneHigher
  <2>5. n \in 1..((n + 1) - 1)
    BY <1>5
  <2>6. IsTop(n, n + 1, M, Q, NoPage, NoPage)
    BY <2>1, <2>3, <2>4, <2>5 DEF IsTop
  <2> QED  BY <1>6, <2>6
<1>10. ASSUME NEW q \in 1..((n + 1) - 1) PROVE g[q].id = q /\ Q[q] # {} /\ Convex(Q[q])
  <2>1. CASE q = n
    <3>1. Convex(Int) /\ Int # {}
      BY DEF Convex
    <3> QED  BY <1>4, <1>6, <2>1, <3>1
  <2>2. CASE q \in 1..(n - 1)
    <3>1. \A x \in 1..(n - 1) : f[x].id = x /\ R[x] # {} /\ Convex(R[x])
      BY <1>1
    <3> QED  BY <1>4, <1>6, <2>2, <3>1
  <2> QED  BY <1>5, <2>1, <2>2
<1>11. ASSUME NEW x \in 1..((n + 1) - 1), NEW y \in 1..((n + 1) - 1), x # y, M[x] = M[y]
       PROVE  Q[x] \cap Q[y] = {}
  <2>1. M[x] \in Nat /\ M[y] \in Nat /\ M[n] \in Nat
    BY <1>4, <1>5
  <2>2. x \in 1..(n - 1) /\ y \in 1..(n - 1)
    <3>1. x = n => y \in 1..(n - 1) /\ M[y] < M[n]
      BY <1>5, <1>8, <1>11
    <3>2. y = n => x \in 1..(n - 1) /\ M[x] < M[n]
      BY <1>5, <1>8, <1>11
    <3> QED  BY <1>5, <1>11, <2>1, <3>1, <3>2
  <2>3. M[x] = L[x] /\ M[y] = L[y] /\ Q[x] = R[x] /\ Q[y] = R[y]
    BY <1>4, <2>2
  <2> QED  BY <1>1, <1>11, <2>2, <2>3
<1>12. ASSUME NEW q \in 1..((n + 1) - 1), ~g[q].leaf PROVE IsInner(g[q], q, n + 1, M, Q, NoPage, NoPage)
  <2>1. CASE q = n
    BY <1>6, <1>7, <2>1
  <2>2. CASE q \in 1..(n - 1)
    <3>1. g[q] = f[q] /\ ~f[q].leaf
      BY <1>6, <1>12, <2>2
    <3>2. \A x \in 1..(n - 1) : ~f[x].leaf => IsInner(f[x], x, n, L, R, d, new)
      BY DEF IsTree
    <3>3. IsInner(f[q], q, n, L, R, d, new)
      BY <2>2, <3>1, <3>2
    <3>4. n \in Nat /\ n # 0 /\ L \in [1..(n - 1) -> Nat]
      BY <1>1
    <3>5. IsInner(f[q], q, n + 1, M, Q, NoPage, NoPage)
      BY <1>2, <1>3, <2>2, <3>3, <3>4, InnerBelowRoot
    <3> QED  BY <3>1, <3>5
  <2> QED  BY <1>5, <2>1, <2>2
<1>13. KeepsLeaves(f, g, n, L, R, M, Q)
  BY <1>4, <1>6 DEF KeepsLeaves
<1>14. ASSUME NEW q \in 1..((n + 1) - 1), g[q].leaf PROVE IsLeaf(g, n + 1, M, Q, st, q)
  <2>1. q # n
    BY <1>6, <1>14
  <2>2. q \in 1..(n - 1) /\ f[q].leaf
    BY <1>5, <1>6, <1>14, <2>1
  <2>3. n + 1 \in Nat /\ n <= n + 1
    BY <1>1
  <2>4. IsLeaf(f, n, L, R, st, q)
    BY <1>1, <2>2
  <2> QED  BY <1>1, <1>13, <2>2, <2>3, <2>4, LeafKept
<1>15. IsTree(g, n + 1, M, Q, st, NoPage, NoPage)
  BY <1>4, <1>6, <1>9, <1>10, <1>11, <1>12, <1>14 DEF IsTree
<1> QED  BY <1>7, <1>15

(* The writes of a whole insert lead to a tree of st. *)
LeadsToWhole(ws, st, ok) ==
  \E g, n, L, R : Leads(pages, ws, g, ok) /\ IsTree(g, n, L, R, st, NoPage, NoPage)

IsInternal(node, p, keys, children) ==
  node \in NodeRecord /\ node.leaf = FALSE /\ node.id = p /\ node.keys = keys /\ node.children = children
LEMMA InternalShape ==
  ASSUME NEW p \in Int, NEW keys \in Seq(Keys), NEW children \in Seq(Int)
  PROVE  IsInternal(Internal(p, keys, children), p, keys, children)
<1>1. NoPage \in Int /\ FALSE \in BOOLEAN /\ <<>> \in Seq(Entry)
  BY DEF NoPage
<1>2. PICK node : node = Node(p, FALSE, NoPage, NoPage, keys, children, <<>>)
  OBVIOUS
<1>3. node \in NodeRecord /\ node.leaf = FALSE /\ node.id = p /\ node.keys = keys /\ node.children = children
  BY <1>1, <1>2 DEF Node, NodeRecord
<1> QED  BY <1>2, <1>3 DEF Internal, IsInternal

LEMMA RootWritten ==
  ASSUME Parameters, NEW f, NEW n, NEW L, NEW R, NEW st, NEW d, NEW new, IsTree(f, n, L, R, st, d, new), f[0].id = d,
         new \in 1..(n - 1), L[new] = L[d], NEW s \in Keys, CutOf(R, d, new, s),
         NEW top, top = Internal(n, <<s>>, <<d, new>>), NEW ok, Allowed(st, ok)
  PROVE  \E g, M, Q : /\ Leads(f, <<Allocated(n), Written(top), <<0, Meta(n)>>>>, g, ok)
                      /\ IsTree(g, n + 1, M, Q, st, NoPage, NoPage)
<1>1. /\ IsFile(f, n) /\ n \in Nat /\ n # 0
      /\ L \in [1..(n - 1) -> Nat] /\ R \in [1..(n - 1) -> SUBSET Int]
      /\ f[0].id \in 1..(n - 1) /\ L[f[0].id] < n - 1 /\ Meant(R, d, new, f[0].id) = Int
      /\ \A q \in 1..(n - 1) : q \in 0..(n - 1) /\ f[q].id = q /\ R[q] # {} /\ Convex(R[q])
  BY TreeShape
<1>2. d \in 1..(n - 1) /\ L[d] \in Nat /\ L[d] < n - 1
  BY <1>1
<1>3. s \in Int
  BY DEF Parameters
<1>4. /\ top \in NodeRecord /\ top.leaf = FALSE /\ top.id = n /\ top.keys = <<s>> /\ top.children = <<d, new>>
  <2>1. PICK ks : ks = <<s>>
    OBVIOUS
  <2>2. PICK cs : cs = <<d, new>>
    OBVIOUS
  <2>3. top = Internal(n, ks, cs)
    BY <2>1, <2>2
  <2>4. ks \in Seq(Keys) /\ cs \in Seq(Int) /\ n \in Int
    BY <1>1, <1>2, <2>1, <2>2
  <2>5. IsInternal(Internal(n, ks, cs), n, ks, cs)
    BY <2>4, InternalShape
  <2> QED  BY <2>1, <2>2, <2>3, <2>5 DEF IsInternal
<1>5. Joins(top, d, s, new)
  BY <1>4 DEF Joins
<1>6. PICK M, Q : Grown(L, R, M, Q, n, d)
  BY <1>1, <1>2, Growing
<1>7. MoreLevels(M, L, n) /\ M[n] = L[d] + 1
  BY <1>6 DEF Grown, MoreLevels
<1>8. PICK f1 : f1 = With(f, n, Zero)
  OBVIOUS
<1>9. Extended(f, f1, n, Zero)
  BY <1>1, <1>8, ZeroIsNode, BeyondShape
<1>10. IsFile(f1, n + 1) /\ \A q \in 0..(n - 1) : f1[q] = f[q]
  BY <1>9 DEF Extended
<1>11. /\ n \in 0..((n + 1) - 1) /\ n \in 1..((n + 1) - 1) /\ 0 \in 0..((n + 1) - 1) /\ n # 0 /\ 0 \in 0..(n - 1)
       /\ \A q \in 1..(n - 1) : q \in 0..(n - 1) /\ q \in 0..((n + 1) - 1) /\ q # n /\ q # 0
  BY <1>1
<1>12. PICK f2 : f2 = With(f1, n, top)
  OBVIOUS
<1>13. Rewritten(f1, f2, n + 1, n, top)
  BY <1>4, <1>10, <1>11, <1>12, WithinShape
<1>14. IsFile(f2, n + 1) /\ f2[n] = top /\ \A q \in 0..((n + 1) - 1) : q # n => f2[q] = f1[q]
  BY <1>13 DEF Rewritten
<1>15. PICK f3 : f3 = With(f2, 0, Meta(n))
  OBVIOUS
<1>16. n \in Int /\ Meta(n) \in NodeRecord /\ Meta(n).id = n /\ ~Meta(n).leaf
  <2>1. n \in Int
    BY <1>1
  <2> QED  BY <2>1, MetaIsNode
<1>17. Rewritten(f2, f3, n + 1, 0, Meta(n))
  BY <1>11, <1>14, <1>15, <1>16, WithinShape
<1>18. IsFile(f3, n + 1) /\ f3[0] = Meta(n) /\ \A q \in 0..((n + 1) - 1) : q # 0 => f3[q] = f2[q]
  BY <1>17 DEF Rewritten
<1>19. HasGrown(f, f3, n, top)
  <2>1. f3[0].id = n /\ f3[n] = top
    BY <1>11, <1>14, <1>16, <1>18
  <2>2. \A q \in 1..(n - 1) : f3[q] = f[q]
    BY <1>10, <1>11, <1>14, <1>18
  <2> QED  BY <1>18, <2>1, <2>2 DEF HasGrown
<1>20. IsTree(f3, n + 1, M, Q, st, NoPage, NoPage) /\ IsInner(top, n, n + 1, M, Q, NoPage, NoPage)
  BY <1>3, <1>4, <1>5, <1>6, <1>19, GrownTree
<1>21. Sound(f, n, L, ok)
  BY TreeIsReadable
<1>22. Sound(f1, n + 1, M, ok) /\ Leads(f, <<Allocated(n)>>, f1, ok)
  BY <1>7, <1>8, <1>21, ZerosWritten
<1>23. Placed(top, n, f1, n + 1, M, ok)
  <2>1. /\ M[n] # 0 /\ Len(top.children) = Len(top.keys) + 1
        /\ \A i \in 1..Len(top.children) :
             top.children[i] \in 1..((n + 1) - 1) /\ M[top.children[i]] = M[n] - 1
    BY <1>20 DEF IsInner
  <2>2. ASSUME NEW i \in 1..Len(top.children) PROVE IsBelow(top.children[i], n, f1, n + 1, M)
    <3>1. PICK c : c = top.children[i]
      OBVIOUS
    <3>2. c \in 1..((n + 1) - 1) /\ M[c] = M[n] - 1
      BY <2>1, <3>1
    <3>3. c # n
      BY <1>2, <1>7, <3>2
    <3>4. c \in 1..(n - 1)
      BY <1>1, <3>2, <3>3
    <3>5. f1[c].id = c
      BY <1>1, <1>10, <3>4
    <3>6. IsBelow(c, n, f1, n + 1, M)
      BY <3>2, <3>5 DEF IsBelow
    <3> QED  BY <3>1, <3>6
  <2> QED  BY <1>4, <2>1, <2>2 DEF Placed
<1>24. Sound(f2, n + 1, M, ok) /\ Leads(f1, <<<<n, top>>>>, f2, ok)
  BY <1>4, <1>11, <1>12, <1>22, <1>23, WrittenWithin
<1>25. Sound(f3, n + 1, M, ok)
  <2>1. HasRoot(f2, n + 1, M, n)
    <3>1. M[n] < n + 1
      BY <1>1, <1>2, <1>7
    <3> QED  BY <1>4, <1>11, <1>14, <3>1 DEF HasRoot
  <2> QED  BY <1>15, <1>24, <2>1, SoundWithRoot
<1>26. Leads(f2, <<<<0, Meta(n)>>>>, f3, ok)
  <2>1. Readable(f2, ok) /\ Readable(f3, ok)
    BY <1>24, <1>25 DEF Readable
  <2>2. 0 \in Int
    OBVIOUS
  <2> QED  BY <1>15, <1>16, <2>1, <2>2, LeadsByOne
<1>27. Written(top) = <<n, top>>
  BY <1>4 DEF Written
<1>28. Leads(f, <<Allocated(n), Written(top), <<0, Meta(n)>>>>, f3, ok)
  BY <1>22, <1>24, <1>26, <1>27, LeadsByThree
<1> QED  BY <1>20, <1>28

(* What the top level hands on is written, below a new root if it was split. *)
LEMMA RootHands ==
  ASSUME Parameters, NEW n, NEW L, NEW st, NEW ok, Allowed(st, ok), NEW m,
         NEW top, Handed(top, Root, m, n, L, st, ok)
  PROVE  LeadsToWhole(IF top.split THEN top.writes \o NewRoot(top) ELSE top.writes, st, ok)
<1>1. PICK g, M, R : /\ Leads(pages, top.writes, g, ok) /\ n <= top.next
                     /\ UntouchedAbove(g, M, n, L, m) /\ LeadsToTree(top, g, M, R, Root, st)
  BY DEF Handed
<1>2. PICK N : N = top.next
  OBVIOUS
<1>3. PICK ws : ws = IF top.split THEN top.writes \o NewRoot(top) ELSE top.writes
  OBVIOUS
<1>4. ASSUME top.split = FALSE PROVE LeadsToWhole(ws, st, ok)
  <2>1. ws = top.writes
    BY <1>3, <1>4
  <2>2. IsTree(g, N, M, R, st, NoPage, NoPage)
    BY <1>1, <1>2, <1>4 DEF LeadsToTree
  <2>3. Leads(pages, ws, g, ok)
    BY <1>1, <2>1
  <2> QED  BY <2>2, <2>3 DEF LeadsToWhole
<1>5. ASSUME top.split = TRUE PROVE LeadsToWhole(ws, st, ok)
  <2>1. PICK d : d = Root
    OBVIOUS
  <2>2. PICK new : new = top.new
    OBVIOUS
  <2>3. PICK s : s = top.key
    OBVIOUS
  <2>4. /\ IsTree(g, N, M, R, st, d, new) /\ s \in Keys /\ new \in 1..(N - 1)
        /\ M[new] = M[d] /\ CutOf(R, d, new, s)
    BY <1>1, <1>2, <1>5, <2>1, <2>2, <2>3 DEF LeadsToTree
  <2>5. g[0].id = d
    BY <1>1, <2>1 DEF UntouchedAbove, Root
  <2>6. PICK node : node = Internal(N, <<s>>, <<d, new>>)
    OBVIOUS
  <2>7. PICK v : v = <<Allocated(N), Written(node), <<0, Meta(N)>>>>
    OBVIOUS
  <2>8. PICK h, M2, Q : Leads(g, <<Allocated(N), Written(node), <<0, Meta(N)>>>>, h, ok)
                        /\ IsTree(h, N + 1, M2, Q, st, NoPage, NoPage)
    BY <2>4, <2>5, <2>6, RootWritten
  <2>9. NewRoot(top) = v
    BY <1>2, <2>1, <2>2, <2>3, <2>6, <2>7 DEF NewRoot
  <2>10. ws = top.writes \o v
    BY <1>3, <1>5, <2>9
  <2>11. Leads(g, v, h, ok)
    BY <2>7, <2>8
  <2>12. Leads(pages, ws, h, ok)
    BY <1>1, <2>10, <2>11, LeadsByBoth
  <2> QED  BY <2>8, <2>12 DEF LeadsToWhole
<1>6. top.split = FALSE \/ top.split = TRUE
  BY <1>1 DEF LeadsToTree
<1> QED  BY <1>3, <1>4, <1>5, <1>6

-----------------------------------------------------------------------------
(* The way up.                                                             *)

LevelAbove(path, e, i, below) == InsertInInternal(pages[path[Len(path) - i]], e[1], below)
Ups(f, path, e, N) ==
  f = [i \in 0..N |-> IF i = 0 THEN InsertInLeaf(pages[Last(path)], e) ELSE LevelAbove(path, e, i, f[i - 1])]

LEMMA UpsRun ==
  ASSUME NEW path, NEW e, NEW N \in Nat
  PROVE  \E f : Ups(f, path, e, N)
<1>1. PICK G : G = {n \in 0..N : \E f : Ups(f, path, e, n)}
  OBVIOUS
<1>2. PICK b : b = InsertInLeaf(pages[Last(path)], e)
  OBVIOUS
<1>3. 0 \in G
  <2>1. PICK f : f = [i \in 0..0 |-> b]
    OBVIOUS
  <2>2. \A i \in 0..0 : i = 0
    OBVIOUS
  <2>3. f = [i \in 0..0 |-> IF i = 0 THEN b ELSE LevelAbove(path, e, i, f[i - 1])]
    BY <2>1, <2>2
  <2>4. Ups(f, path, e, 0)
    BY <1>2, <2>3 DEF Ups
  <2>5. 0 \in 0..N
    OBVIOUS
  <2> QED  BY <1>1, <2>4, <2>5
<1>4. ASSUME NEW n \in 1..N, n - 1 \in G PROVE n \in G
  <2>1. PICK f : Ups(f, path, e, n - 1)
    BY <1>1, <1>4
  <2>2. f = [i \in 0..(n - 1) |-> IF i = 0 THEN b ELSE LevelAbove(path, e, i, f[i - 1])]
    BY <1>2, <2>1 DEF Ups
  <2>3. PICK c : c = LevelAbove(path, e, n, f[n - 1])
    OBVIOUS
  <2>4. PICK g : g = [i \in 0..n |-> IF i = n THEN c ELSE f[i]]
    OBVIOUS
  <2>5. n - 1 \in 0..(n - 1) /\ n \in 0..n /\ 0 # n /\ n # 0
    OBVIOUS
  <2>6. g[n] = c /\ \A i \in 0..(n - 1) : g[i] = f[i]
    BY <2>4
  <2>7. ASSUME NEW i \in 0..n PROVE g[i] = IF i = 0 THEN b ELSE LevelAbove(path, e, i, g[i - 1])
    <3>1. CASE i = n
      BY <2>3, <2>5, <2>6, <3>1
    <3>2. CASE i # n
      <4>1. i \in 0..(n - 1)
        BY <3>2
      <4>2. g[i] = IF i = 0 THEN b ELSE LevelAbove(path, e, i, f[i - 1])
        BY <2>2, <2>6, <4>1
      <4>3. i # 0 => i - 1 \in 0..(n - 1)
        BY <4>1
      <4>4. i # 0 => g[i - 1] = f[i - 1]
        BY <2>6, <4>3
      <4> QED  BY <4>2, <4>4
    <3> QED  BY <3>1, <3>2
  <2>8. g = [i \in 0..n |-> IF i = 0 THEN b ELSE LevelAbove(path, e, i, g[i - 1])]
    BY <2>4, <2>7
  <2>9. Ups(g, path, e, n)
    BY <1>2, <2>8 DEF Ups
  <2>10. n \in 0..N
    OBVIOUS
  <2> QED  BY <1>1, <2>9, <2>10
<1>5. \A n \in 0..N : n \in G
  BY <1>3, <1>4, EveryRound
<1>6. N \in 0..N
  OBVIOUS
<1> QED  BY <1>1, <1>5, <1>6

LEMMA AlongIs ==
  ASSUME NEW path, NEW e, NEW N \in Nat, Len(path) - 1 = N
  PROVE  \E f : Ups(f, path, e, N) /\ InsertAlong(path, e) = f[N]
<1> DEFINE returned ==
      CHOOSE g : g = [i \in 0..N |-> IF i = 0 THEN InsertInLeaf(pages[Last(path)], e)
                                     ELSE InsertInInternal(pages[path[Len(path) - i]], e[1], g[i - 1])]
<1>1. InsertAlong(path, e) = returned[N]
  BY DEF InsertAlong
<1>2. \E f : f = [i \in 0..N |-> IF i = 0 THEN InsertInLeaf(pages[Last(path)], e)
                                 ELSE InsertInInternal(pages[path[Len(path) - i]], e[1], f[i - 1])]
  <2>1. PICK f : Ups(f, path, e, N)
    BY UpsRun
  <2>2. f = [i \in 0..N |-> IF i = 0 THEN InsertInLeaf(pages[Last(path)], e)
                            ELSE InsertInInternal(pages[path[Len(path) - i]], e[1], f[i - 1])]
    BY <2>1 DEF Ups, LevelAbove
  <2> QED  BY <2>2
<1>3. returned = [i \in 0..N |-> IF i = 0 THEN InsertInLeaf(pages[Last(path)], e)
                                 ELSE InsertInInternal(pages[path[Len(path) - i]], e[1], returned[i - 1])]
  BY <1>2
<1> HIDE DEF returned
<1>4. PICK f : f = returned
  OBVIOUS
<1>5. Ups(f, path, e, N)
  BY <1>3, <1>4 DEF Ups, LevelAbove
<1> QED  BY <1>1, <1>4, <1>5

LEMMA AlongHands ==
  ASSUME Parameters, NEW n, NEW L, NEW R, NEW st, IsTree(pages, n, L, R, st, NoPage, NoPage),
         NEW k \in Keys, NEW r \in Rids, k \notin DOMAIN st,
         NEW st2, st2 = With(st, k, r), NEW ok, Allowed(st, ok), Allowed(st2, ok)
  PROVE  Handed(InsertAlong(Path(k), <<k, r>>), Root, L[Root], n, L, st2, ok)
<1>1. k \in Int
  BY DEF Parameters
<1>2. PICK e : e = <<k, r>>
  OBVIOUS
<1>3. e[1] = k
  BY <1>2
<1>4. PICK path : path = Path(k)
  OBVIOUS
<1>5. PICK H : H = L[Root]
  OBVIOUS
<1>6. PICK leaf \in 1..(n - 1) :
        /\ Route(path, k, n, L, H) /\ H \in Nat /\ leaf = path[H + 1]
        /\ leaf = Last(path) /\ pages[leaf].leaf /\ k \in R[leaf]
  <2>1. PICK p \in 1..(n - 1) :
           /\ Route(Path(k), k, n, L, L[Root]) /\ L[Root] \in Nat /\ p = Path(k)[L[Root] + 1]
           /\ Root # NoPage
           /\ p = Last(Path(k)) /\ LeafOf(k) = pages[p] /\ pages[p].leaf /\ k \in R[p]
    BY <1>1, LeafReached
  <2>2. pages[p].leaf
    BY <2>1
  <2> QED  BY <1>4, <1>5, <2>1, <2>2
<1>7. /\ path \in Seq(1..(n - 1)) /\ Len(path) = H + 1 /\ path[1] = Root
      /\ \A i \in 1..(H + 1) : pages[path[i]].id = path[i] /\ L[path[i]] = L[Root] + 1 - i
      /\ \A i \in 1..H : /\ ~pages[path[i]].leaf
                         /\ path[i + 1] = pages[path[i]].children[ChildIndex(pages[path[i]], k)]
  BY <1>6 DEF Route
<1>8. /\ IsFile(pages, n) /\ n \in Nat /\ n # 0
      /\ L \in [1..(n - 1) -> Nat] /\ R \in [1..(n - 1) -> SUBSET Int]
      /\ \A q \in 1..(n - 1) : q \in 0..(n - 1) /\ pages[q] \in NodeRecord /\ pages[q].id = q /\ R[q] # {} /\ Convex(R[q])
  BY TreeShape
<1>9. Len(path) - 1 = H
  BY <1>6, <1>7
<1>10. PICK f : Ups(f, path, e, H) /\ InsertAlong(path, e) = f[H]
  BY <1>6, <1>9, AlongIs
<1>11. f = [i \in 0..H |-> IF i = 0 THEN InsertInLeaf(pages[Last(path)], e) ELSE LevelAbove(path, e, i, f[i - 1])]
  BY <1>10 DEF Ups
<1>12. PICK G : G = {i \in 0..H : Handed(f[i], path[H + 1 - i], i, n, L, st2, ok)}
  OBVIOUS
<1>13. 0 \in G
  <2>1. 0 \in 0..H /\ H + 1 - 0 = H + 1
    BY <1>6
  <2>2. f[0] = InsertInLeaf(pages[leaf], e)
    BY <1>6, <1>11, <2>1
  <2>3. Allowed(With(st, k, r), ok)
    OBVIOUS
  <2>4. Handed(InsertInLeaf(pages[leaf], <<k, r>>), leaf, 0, n, L, With(st, k, r), ok)
    <3>1. pages[leaf].leaf /\ k \in R[leaf]
      BY <1>6
    <3> QED  BY <2>3, <3>1, LeafHands
  <2>5. Handed(f[0], path[H + 1 - 0], 0, n, L, st2, ok)
    BY <1>2, <1>6, <2>1, <2>2, <2>4
  <2> QED  BY <1>12, <2>1, <2>5
<1>14. ASSUME NEW i \in 1..H, i - 1 \in G PROVE i \in G
  <2>1. PICK j : j = H + 1 - i
    OBVIOUS
  <2>2. j \in 1..H /\ j + 1 = H + 1 - (i - 1) /\ j = Len(path) - i /\ j \in 1..(H + 1) /\ j + 1 \in 1..(H + 1)
    BY <1>6, <1>7, <2>1
  <2>3. PICK p : p = path[j]
    OBVIOUS
  <2>4. PICK d : d = path[j + 1]
    OBVIOUS
  <2>5. p \in 1..(n - 1) /\ L[p] = L[Root] + 1 - j /\ ~pages[p].leaf /\ d = pages[p].children[ChildIndex(pages[p], k)]
    <3>1. p \in 1..(n - 1)
      BY <1>7, <2>2, <2>3, ElementOf
    <3> QED  BY <1>7, <2>2, <2>3, <2>4, <3>1
  <2>6. L[d] = L[Root] + 1 - (j + 1)
    BY <1>7, <2>2, <2>4
  <2>7. PICK m : m = i - 1
    OBVIOUS
  <2>8. m \in Nat /\ L[p] = m + 1 /\ Root # d /\ i = m + 1
    <3>1. m \in Nat /\ i = m + 1
      BY <2>7
    <3>2. L[p] = H + 1 - j /\ L[d] = H + 1 - (j + 1)
      BY <1>5, <2>5, <2>6
    <3>3. L[p] = m + 1
      BY <1>6, <2>1, <2>7, <3>2
    <3>4. L[d] # H
      BY <1>6, <2>2, <3>2
    <3>5. Root # d
      BY <1>5, <3>4
    <3> QED  BY <3>1, <3>3, <3>5
  <2>9. pages[p].leaf = FALSE
    <3>1. pages[p] \in NodeRecord
      BY <1>8, <2>5
    <3> QED  BY <2>5, <3>1 DEF NodeRecord
  <2>10. PICK below : below = f[m]
    OBVIOUS
  <2>11. Handed(below, d, m, n, L, st2, ok)
    BY <1>12, <1>14, <2>2, <2>4, <2>7, <2>10
  <2>12. n \in Nat /\ L \in [1..(n - 1) -> Nat]
    BY <1>8
  <2>13. Handed(InsertInInternal(pages[p], k, below), p, m + 1, n, L, st2, ok)
    BY <1>1, <2>5, <2>8, <2>9, <2>11, <2>12, InnerHands
  <2>14. f[i] = InsertInInternal(pages[p], k, below)
    <3>1. i \in 0..H /\ i # 0
      OBVIOUS
    <3>2. f[i] = LevelAbove(path, e, i, f[i - 1])
      BY <1>11, <3>1
    <3> QED  BY <1>3, <2>2, <2>3, <2>7, <2>10, <3>2 DEF LevelAbove
  <2>15. i \in 0..H
    OBVIOUS
  <2>16. Handed(f[i], path[H + 1 - i], i, n, L, st2, ok)
    BY <2>1, <2>3, <2>8, <2>13, <2>14
  <2> QED  BY <1>12, <2>15, <2>16
<1>15. \A i \in 0..H : i \in G
  BY <1>6, <1>13, <1>14, EveryRound
<1>16. H \in 0..H /\ H + 1 - H = 1
  BY <1>6
<1>17. Handed(f[H], Root, H, n, L, st2, ok)
  BY <1>7, <1>12, <1>15, <1>16
<1> QED  BY <1>2, <1>4, <1>5, <1>10, <1>17

-----------------------------------------------------------------------------
(* A whole insert.                                                         *)

(* The file stands for the entries st when no call is under way. *)
Stands(f, st) ==
  /\ DOMAIN st \subseteq Keys /\ \A k \in DOMAIN st : st[k] \in Rids
  /\ \/ IsFile(f, 1) /\ f[0].id = NoPage /\ DOMAIN st = {}
     \/ \E n, L, R : IsTree(f, n, L, R, st, NoPage, NoPage)

Empty(st) == DOMAIN st = {}
OneEntry(es, k, r) == es = <<<<k, r>>>>
LEMMA FirstLeafHolds ==
  ASSUME Parameters, NEW st, Empty(st), NEW k \in Keys, NEW r \in Rids,
         NEW st2, st2 = With(st, k, r), NEW es, OneEntry(es, k, r)
  PROVE  es \in Seq(Entry) /\ Holds(es, st2, Int)
<1>1. PICK e : e = <<k, r>>
  OBVIOUS
<1>2. e \in Entry /\ e[1] = k /\ e[2] = r
  BY <1>1 DEF Entry
<1>3. es = <<e>>
  BY <1>1 DEF OneEntry
<1>4. es \in Seq(Entry) /\ Len(es) = 1 /\ es[1] = e
  BY <1>2, <1>3
<1>5. DOMAIN st2 = {k} /\ st2[k] = r
  BY DEF With, Empty
<1>6. k \in Int
  BY DEF Parameters
<1>7. \A i \in 1..Len(es) : i = 1
  BY <1>4
<1>8. Ascending(es)
  BY <1>7 DEF Ascending
<1>9. ASSUME NEW i \in 1..Len(es), NEW x, x = es[i][1]
      PROVE  x \in Int /\ x \in DOMAIN st2 /\ es[i] = <<x, st2[x]>>
  <2>1. es[i] = e /\ x = k
    BY <1>2, <1>4, <1>7, <1>9
  <2> QED  BY <1>1, <1>5, <1>6, <2>1
<1>10. ASSUME NEW x \in DOMAIN st2 PROVE \E i \in 1..Len(es) : es[i][1] = x
  <2>1. 1 \in 1..Len(es) /\ es[1][1] = x
    BY <1>2, <1>4, <1>5
  <2> QED  BY <2>1
<1>11. Holds(es, st2, Int)
  BY <1>8, <1>9, <1>10 DEF Holds
<1> QED  BY <1>4, <1>5, <1>11

IsTheLeaf(node, es) ==
  /\ node \in NodeRecord /\ node.leaf /\ node.id = 1 /\ node.next = NoPage /\ node.prev = NoPage
  /\ node.entries = es
LEMMA LeafShape ==
  ASSUME NEW es \in Seq(Entry)
  PROVE  IsTheLeaf(Leaf(1, NoPage, NoPage, es), es)
<1>1. NoPage \in Int /\ TRUE \in BOOLEAN /\ <<>> \in Seq(Keys) /\ <<>> \in Seq(Int) /\ 1 \in Int
  BY DEF NoPage
<1>2. PICK node : node = Node(1, TRUE, NoPage, NoPage, <<>>, <<>>, es)
  OBVIOUS
<1>3. /\ node \in NodeRecord /\ node.leaf /\ node.id = 1 /\ node.next = NoPage /\ node.prev = NoPage
      /\ node.entries = es
  BY <1>1, <1>2 DEF Node, NodeRecord
<1> QED  BY <1>2, <1>3 DEF Leaf, IsTheLeaf

(* A file of one leaf. *)
LEMMA OneLeafTree ==
  ASSUME NEW g, IsFile(g, 2), g[0].id = 1, NEW es, IsTheLeaf(g[1], es), NEW st, Holds(es, st, Int),
         NEW M, M \in [1..1 -> Nat], M[1] = 0
  PROVE  \E R : IsTree(g, 2, M, R, st, NoPage, NoPage)
<1>1. PICK R : R = [p \in 1..1 |-> Int]
  OBVIOUS
<1>2. 2 - 1 = 1 /\ 1 \in 1..1 /\ \A p \in 1..1 : p = 1
  OBVIOUS
<1>3. R \in [1..1 -> SUBSET Int] /\ R[1] = Int
  BY <1>1, <1>2
<1>4. g[1].leaf /\ g[1].id = 1 /\ g[1].next = NoPage /\ g[1].prev = NoPage /\ g[1].entries = es
  BY DEF IsTheLeaf
<1>5. Convex(Int) /\ Endless(Int) /\ Int # {}
  BY DEF Convex, Endless
<1>6. IsLinked(g, 2, R, 1)
  BY <1>3, <1>4, <1>5 DEF IsLinked
<1>7. IsLeaf(g, 2, M, R, st, 1)
  BY <1>3, <1>4, <1>6 DEF IsLeaf
<1>8. IsTop(g[0].id, 2, M, R, NoPage, NoPage)
  <2>1. NoneHigher(M, 2, M[1])
    BY <1>2 DEF NoneHigher
  <2>2. Meant(R, NoPage, NoPage, 1) = Int
    BY <1>3 DEF Meant, NoPage
  <2> QED  BY <1>2, <2>1, <2>2 DEF IsTop
<1>9. /\ \A p \in 1..(2 - 1) : g[p].id = p /\ R[p] # {} /\ Convex(R[p])
      /\ \A p \in 1..(2 - 1) : ~g[p].leaf => IsInner(g[p], p, 2, M, R, NoPage, NoPage)
      /\ \A p \in 1..(2 - 1) : g[p].leaf => IsLeaf(g, 2, M, R, st, p)
  BY <1>2, <1>3, <1>4, <1>5, <1>7
<1>10. \A p, q \in 1..(2 - 1) : p # q /\ M[p] = M[q] => R[p] \cap R[q] = {}
  BY <1>2
<1>11. IsTree(g, 2, M, R, st, NoPage, NoPage)
  BY <1>2, <1>3, <1>8, <1>9, <1>10 DEF IsTree
<1> QED  BY <1>11

LEMMA FirstInsert ==
  ASSUME Parameters, IsFile(pages, 1), Root = NoPage, NEW st, DOMAIN st = {}, NEW k \in Keys, NEW r \in Rids,
         NEW st2, st2 = With(st, k, r), NEW ok, Allowed(st2, ok)
  PROVE  LeadsToWhole(InsertWrites(<<k, r>>), st2, ok)
<1>1. NextPage = 1
  BY FileSize DEF NextPage
<1>2. PICK es : es = <<<<k, r>>>>
  OBVIOUS
<1>3. es \in Seq(Entry) /\ Holds(es, st2, Int)
  <2>1. Empty(st) /\ OneEntry(es, k, r)
    BY <1>2 DEF Empty, OneEntry
  <2> QED  BY <2>1, FirstLeafHolds
<1>4. \A i \in 1..Len(es) : es[i] \in ok
  BY <1>3, HeldAreAllowed
<1>5. PICK leaf : leaf = Leaf(1, NoPage, NoPage, es)
  OBVIOUS
<1>6. IsTheLeaf(leaf, es)
  BY <1>3, <1>5, LeafShape
<1>7. leaf \in NodeRecord /\ leaf.leaf /\ leaf.id = 1 /\ leaf.entries = es
  BY <1>6 DEF IsTheLeaf
<1>8. PICK ws : ws = InsertWrites(<<k, r>>)
  OBVIOUS
<1>9. ws = <<Allocated(1), Written(leaf), <<0, Meta(1)>>>>
  BY <1>1, <1>2, <1>5, <1>8 DEF InsertWrites
<1>10. PICK L : L = [x \in 1..(1 - 1) |-> 0]
  OBVIOUS
<1>11. L \in [1..(1 - 1) -> Nat] /\ 1..(1 - 1) = {}
  BY <1>10
<1>12. Sound(pages, 1, L, ok)
  BY <1>11 DEF Sound, Root
<1>13. PICK M : M = [x \in 1..1 |-> 0]
  OBVIOUS
<1>14. M \in [1..1 -> Nat] /\ M[1] = 0 /\ (1 + 1) - 1 = 1 /\ 1 + 1 = 2
  BY <1>13
<1>15. MoreLevels(M, L, 1)
  BY <1>11, <1>14 DEF MoreLevels
<1>16. PICK f1 : f1 = With(pages, 1, Zero)
  OBVIOUS
<1>17. Sound(f1, 2, M, ok) /\ Leads(pages, <<Allocated(1)>>, f1, ok)
  <2>1. Sound(f1, 1 + 1, M, ok) /\ Leads(pages, <<Allocated(1)>>, f1, ok)
    BY <1>12, <1>15, <1>16, ZerosWritten
  <2> QED  BY <1>14, <2>1
<1>18. Placed(leaf, 1, f1, 2, M, ok)
  BY <1>4, <1>7, <1>14 DEF Placed
<1>19. PICK f2 : f2 = With(f1, 1, leaf)
  OBVIOUS
<1>20. Sound(f2, 2, M, ok) /\ Leads(f1, <<<<1, leaf>>>>, f2, ok) /\ f2[1] = leaf
  <2>1. 1 \in 1..(2 - 1)
    OBVIOUS
  <2> QED  BY <1>7, <1>17, <1>18, <1>19, <2>1, WrittenWithin
<1>21. IsFile(f2, 2)
  BY <1>20 DEF Sound
<1>22. PICK f3 : f3 = With(f2, 0, Meta(1))
  OBVIOUS
<1>23. Meta(1) \in NodeRecord /\ Meta(1).id = 1 /\ ~Meta(1).leaf
  <2>1. 1 \in Int
    OBVIOUS
  <2> QED  BY <2>1, MetaIsNode
<1>24. Rewritten(f2, f3, 2, 0, Meta(1))
  <2>1. 0 \in 0..(2 - 1)
    OBVIOUS
  <2> QED  BY <1>21, <1>22, <1>23, <2>1, WithinShape
<1>25. IsFile(f3, 2) /\ f3[0].id = 1 /\ f3[1] = leaf
  <2>1. 1 \in 0..(2 - 1) /\ 1 # 0
    OBVIOUS
  <2> QED  BY <1>20, <1>23, <1>24, <2>1 DEF Rewritten
<1>26. Sound(f3, 2, M, ok)
  <2>1. HasRoot(f2, 2, M, 1)
    BY <1>7, <1>14, <1>20 DEF HasRoot
  <2> QED  BY <1>20, <1>22, <2>1, SoundWithRoot
<1>27. Leads(f2, <<<<0, Meta(1)>>>>, f3, ok)
  <2>1. Readable(f2, ok) /\ Readable(f3, ok)
    BY <1>20, <1>26 DEF Readable
  <2>2. 0 \in Int
    OBVIOUS
  <2> QED  BY <1>22, <1>23, <2>1, <2>2, LeadsByOne
<1>28. Written(leaf) = <<1, leaf>>
  BY <1>7 DEF Written
<1>29. Leads(pages, ws, f3, ok)
  BY <1>9, <1>17, <1>20, <1>27, <1>28, LeadsByThree
<1>30. PICK R : IsTree(f3, 2, M, R, st2, NoPage, NoPage)
  BY <1>3, <1>6, <1>14, <1>25, OneLeafTree
<1>31. LeadsToWhole(ws, st2, ok)
  BY <1>29, <1>30 DEF LeadsToWhole
<1> QED  BY <1>8, <1>31

LEMMA InsertLeads ==
  ASSUME Parameters, NEW st, Stands(pages, st), NEW k \in Keys, NEW r \in Rids, k \notin DOMAIN st,
         NEW st2, st2 = With(st, k, r), NEW ok, Allowed(st, ok), Allowed(st2, ok)
  PROVE  \E g : Leads(pages, InsertWrites(<<k, r>>), g, ok) /\ Stands(g, st2)
<1>1. PICK ws : ws = InsertWrites(<<k, r>>)
  OBVIOUS
<1>2. LeadsToWhole(ws, st2, ok)
  <2>1. CASE IsFile(pages, 1) /\ pages[0].id = NoPage /\ DOMAIN st = {}
    BY <1>1, <2>1, FirstInsert DEF Root
  <2>2. CASE \E n, L, R : IsTree(pages, n, L, R, st, NoPage, NoPage)
    <3>1. PICK n, L, R : IsTree(pages, n, L, R, st, NoPage, NoPage)
      BY <2>2
    <3>2. PICK top : top = InsertAlong(Path(k), <<k, r>>)
      OBVIOUS
    <3>3. PICK m : m = L[Root]
      OBVIOUS
    <3>4. Handed(top, Root, m, n, L, st2, ok)
      BY <3>1, <3>2, <3>3, AlongHands
    <3>5. LeadsToWhole(IF top.split THEN top.writes \o NewRoot(top) ELSE top.writes, st2, ok)
      BY <3>4, RootHands
    <3>6. Root # NoPage
      BY <3>1, TreeShape DEF Root
    <3>7. <<k, r>>[1] = k
      OBVIOUS
    <3>8. ws = IF top.split THEN top.writes \o NewRoot(top) ELSE top.writes
      BY <1>1, <3>2, <3>6, <3>7 DEF InsertWrites
    <3> QED  BY <3>5, <3>8
  <2> QED  BY <2>1, <2>2 DEF Stands
<1>3. PICK g, n, L, R : Leads(pages, ws, g, ok) /\ IsTree(g, n, L, R, st2, NoPage, NoPage)
  BY <1>2 DEF LeadsToWhole
<1>4. DOMAIN st2 \subseteq Keys /\ \A x \in DOMAIN st2 : st2[x] \in Rids
  BY DEF With, Stands
<1>5. Stands(g, st2)
  BY <1>3, <1>4 DEF Stands
<1> QED  BY <1>1, <1>3, <1>5

-----------------------------------------------------------------------------
(* A removal.                                                              *)

Without(st, k) == [x \in DOMAIN st \ {k} |-> st[x]]

LEMMA HoldsWithout ==
  ASSUME NEW es, NEW st, NEW S, Holds(es, st, S), NEW k, k \notin S
  PROVE  Holds(es, Without(st, k), S)
<1>1. PICK st2 : st2 = Without(st, k)
  OBVIOUS
<1>2. \A x : x \in DOMAIN st2 <=> x \in DOMAIN st /\ x # k
  BY <1>1 DEF Without
<1>3. \A x \in DOMAIN st2 : st2[x] = st[x]
  BY <1>1 DEF Without
<1>4. ASSUME NEW i \in 1..Len(es), NEW x, x = es[i][1]
      PROVE  x \in S /\ x \in DOMAIN st2 /\ es[i] = <<x, st2[x]>>
  <2>1. x \in S /\ x \in DOMAIN st /\ es[i] = <<x, st[x]>>
    BY <1>4 DEF Holds
  <2>2. x \in DOMAIN st2
    BY <1>2, <2>1
  <2>3. st2[x] = st[x]
    BY <1>3, <2>2
  <2> QED  BY <2>1, <2>2, <2>3
<1>5. Ascending(es) /\ \A x \in DOMAIN st2 : x \in S => \E i \in 1..Len(es) : es[i][1] = x
  BY <1>2 DEF Holds
<1>6. Holds(es, st2, S)
  BY <1>4, <1>5 DEF Holds
<1> QED  BY <1>1, <1>6

LEMMA EntryRemoved ==
  ASSUME Parameters, NEW es \in Seq(Entry), NEW st, NEW S, Holds(es, st, S),
         NEW i \in 1..Len(es), NEW k, es[i][1] = k
  PROVE  RemoveAt(es, i) \in Seq(Entry) /\ Holds(RemoveAt(es, i), Without(st, k), S)
<1>1. PICK st2 : st2 = Without(st, k)
  OBVIOUS
<1>2. \A x : x \in DOMAIN st2 <=> x \in DOMAIN st /\ x # k
  BY <1>1 DEF Without
<1>3. \A x \in DOMAIN st2 : st2[x] = st[x]
  BY <1>1 DEF Without
<1>4. PICK t : t = RemoveAt(es, i)
  OBVIOUS
<1>5. PICK m : m = Len(es)
  OBVIOUS
<1>6. m \in Nat /\ i \in 1..m /\ \A j \in 1..m : es[j] \in Entry /\ es[j][1] \in Keys /\ es[j][1] \in Int
  BY <1>5, KeyOf
<1>7. t \in Seq(Entry) /\ Len(t) = m - 1 /\ \A j \in 1..(m - 1) : t[j] = IF j < i THEN es[j] ELSE es[j + 1]
  BY <1>4, <1>5, RemoveAtShape
<1>8. \A j, l \in 1..m : j < l => es[j][1] < es[l][1]
  BY <1>5 DEF Holds, Ascending
<1>9. ASSUME NEW j \in 1..(m - 1) PROVE \E l \in 1..m : t[j] = es[l] /\ l # i /\ l = IF j < i THEN j ELSE j + 1
  <2>1. CASE j < i
    <3>1. j \in 1..m
      BY <1>6
    <3> QED  BY <1>7, <2>1, <3>1
  <2>2. CASE ~(j < i)
    <3>1. j + 1 \in 1..m /\ j + 1 # i
      BY <1>6, <2>2
    <3> QED  BY <1>7, <2>2, <3>1
  <2> QED  BY <2>1, <2>2
<1>10. Ascending(t)
  <2>1. ASSUME NEW a \in 1..(m - 1), NEW b \in 1..(m - 1), a < b PROVE t[a][1] < t[b][1]
    <3>1. PICK x \in 1..m : t[a] = es[x] /\ x = IF a < i THEN a ELSE a + 1
      BY <1>9
    <3>2. PICK y \in 1..m : t[b] = es[y] /\ y = IF b < i THEN b ELSE b + 1
      BY <1>9
    <3>3. x < y
      BY <1>6, <2>1, <3>1, <3>2
    <3> QED  BY <1>8, <3>1, <3>2, <3>3
  <2> QED  BY <1>7, <2>1 DEF Ascending
<1>11. ASSUME NEW j \in 1..(m - 1), NEW x, x = t[j][1]
       PROVE  x \in S /\ x \in DOMAIN st2 /\ t[j] = <<x, st2[x]>>
  <2>1. PICK l \in 1..m : t[j] = es[l] /\ l # i
    BY <1>9
  <2>2. x = es[l][1]
    BY <1>11, <2>1
  <2>3. x \in S /\ x \in DOMAIN st /\ es[l] = <<x, st[x]>>
    BY <1>5, <2>2 DEF Holds
  <2>4. x # k
    <3>1. l < i => es[l][1] < es[i][1]
      BY <1>6, <1>8
    <3>2. i < l => es[i][1] < es[l][1]
      BY <1>6, <1>8
    <3>3. l < i \/ i < l
      BY <1>6, <2>1
    <3> QED  BY <1>6, <2>2, <3>1, <3>2, <3>3
  <2>5. x \in DOMAIN st2
    BY <1>2, <2>3, <2>4
  <2>6. st2[x] = st[x]
    BY <1>3, <2>5
  <2> QED  BY <2>1, <2>3, <2>5, <2>6
<1>12. ASSUME NEW x \in DOMAIN st2, x \in S PROVE \E j \in 1..(m - 1) : t[j][1] = x
  <2>1. x \in DOMAIN st /\ x # k
    BY <1>2
  <2>2. PICK l \in 1..m : es[l][1] = x
    BY <1>5, <1>12, <2>1 DEF Holds
  <2>3. l # i
    BY <2>1, <2>2
  <2>4. CASE l < i
    <3>1. l \in 1..(m - 1)
      BY <1>6, <2>4
    <3>2. t[l] = es[l]
      BY <1>7, <2>4, <3>1
    <3> QED  BY <2>2, <3>1, <3>2
  <2>5. CASE i < l
    <3>1. PICK j : j = l - 1
      OBVIOUS
    <3>2. j \in 1..(m - 1) /\ ~(j < i) /\ j + 1 = l
      BY <1>6, <2>5, <3>1
    <3>3. t[j] = es[l]
      BY <1>7, <3>2
    <3> QED  BY <2>2, <3>2, <3>3
  <2> QED  BY <1>6, <2>3, <2>4, <2>5
<1>13. Holds(t, st2, S)
  BY <1>7, <1>10, <1>11, <1>12 DEF Holds
<1> QED  BY <1>1, <1>4, <1>7, <1>13

LEMMA RemovalStands ==
  ASSUME Parameters, NEW st, Stands(pages, st), Root # NoPage, NEW k \in Keys,
         NEW i \in DOMAIN LeafOf(k).entries, LeafOf(k).entries[i][1] = k
  PROVE  Stands(With(pages, LeafOf(k).id, [LeafOf(k) EXCEPT !.entries = RemoveAt(@, i)]), Without(st, k))
<1>1. PICK n, L, R : IsTree(pages, n, L, R, st, NoPage, NoPage)
  BY DEF Stands, Root
<1>2. k \in Int
  BY DEF Parameters
<1>3. PICK p \in 1..(n - 1) : LeafOf(k) = pages[p] /\ pages[p].leaf /\ k \in R[p]
  BY <1>1, <1>2, LeafReached
<1>4. PICK leaf : leaf = pages[p]
  OBVIOUS
<1>5. /\ IsFile(pages, n) /\ n \in Nat /\ R[p] \in SUBSET Int
      /\ leaf \in NodeRecord /\ leaf.id = p /\ IsLeaf(pages, n, L, R, st, p)
  BY <1>1, <1>3, <1>4, TreeShape
<1>6. PICK es : es = leaf.entries
  OBVIOUS
<1>7. es \in Seq(Entry) /\ Holds(es, st, R[p])
  BY <1>4, <1>5, <1>6 DEF NodeRecord, IsLeaf
<1>8. i \in 1..Len(es) /\ es[i][1] = k
  BY <1>3, <1>4, <1>6, <1>7
<1>9. PICK t : t = RemoveAt(es, i)
  OBVIOUS
<1>10. PICK st2 : st2 = Without(st, k)
  OBVIOUS
<1>11. t \in Seq(Entry) /\ Holds(t, st2, R[p])
  <2>1. PICK S : S = R[p]
    OBVIOUS
  <2>2. Holds(es, st, S)
    BY <1>7, <2>1
  <2>3. RemoveAt(es, i) \in Seq(Entry) /\ Holds(RemoveAt(es, i), Without(st, k), S)
    BY <1>7, <1>8, <2>2, EntryRemoved
  <2> QED  BY <1>9, <1>10, <2>1, <2>3
<1>12. PICK node : node = [leaf EXCEPT !.entries = t]
  OBVIOUS
<1>13. /\ node \in NodeRecord /\ node.leaf = leaf.leaf /\ node.id = p /\ node.entries = t
       /\ node.next = leaf.next /\ node.prev = leaf.prev
  BY <1>5, <1>11, <1>12 DEF NodeRecord
<1>14. OthersHold(pages, n, R, st2, p)
  <2>1. ASSUME NEW q \in 1..(n - 1), q # p, pages[q].leaf PROVE Holds(pages[q].entries, st2, R[q])
    <3>1. \A x \in 1..(n - 1) : pages[x].leaf => IsLeaf(pages, n, L, R, st, x)
      BY <1>1 DEF IsTree
    <3>2. \A x, y \in 1..(n - 1) : x # y /\ L[x] = L[y] => R[x] \cap R[y] = {}
      BY <1>1 DEF IsTree
    <3>3. L[p] = 0 /\ L[q] = 0 /\ Holds(pages[q].entries, st, R[q])
      BY <1>3, <2>1, <3>1 DEF IsLeaf
    <3>4. k \notin R[q]
      BY <1>3, <2>1, <3>2, <3>3
    <3> QED  BY <1>10, <3>3, <3>4, HoldsWithout
  <2> QED  BY <2>1 DEF OthersHold
<1>15. PICK g : g = With(pages, p, node)
  OBVIOUS
<1>16. IsTree(g, n, L, R, st2, NoPage, NoPage)
  <2>1. node.leaf /\ node.next = pages[p].next /\ node.prev = pages[p].prev /\ Holds(node.entries, st2, R[p])
    BY <1>3, <1>4, <1>11, <1>13
  <2> QED  BY <1>1, <1>3, <1>13, <1>14, <1>15, <2>1, LeafRewritten
<1>17. g = With(pages, LeafOf(k).id, [LeafOf(k) EXCEPT !.entries = RemoveAt(@, i)])
  BY <1>3, <1>4, <1>5, <1>6, <1>9, <1>12, <1>15
<1>18. DOMAIN st2 \subseteq Keys /\ \A x \in DOMAIN st2 : st2[x] \in Rids
  BY <1>10 DEF Without, Stands
<1>19. Stands(g, st2)
  BY <1>16, <1>18 DEF Stands
<1> QED  BY <1>10, <1>17, <1>19

-----------------------------------------------------------------------------
(* As long as no call was cut short.                                       *)

Unwritten == pages = <<>> /\ writes = <<>> /\ job = NoJob /\ stored = <<>>
Creating  == /\ pages = <<>> /\ writes = <<Allocated(0), <<0, Meta(NoPage)>>>>
             /\ job = NoJob /\ DOMAIN stored = {}
Zeroed    == /\ pages = With(<<>>, 0, Zero) /\ writes = <<<<0, Meta(NoPage)>>>>
             /\ job = NoJob /\ DOMAIN stored = {}
Resting   == pages # <<>> /\ writes = <<>> /\ job = NoJob /\ Stands(pages, stored)
Inserting ==
  /\ pages # <<>> /\ writes # <<>> /\ job \in Entry
  /\ \E g : /\ Leads(pages, writes, g, EntriesAllowed(stored, job))
            /\ Stands(g, With(stored, job[1], job[2]))

TreeInv ==
  /\ stops \in Nat
  /\ stops = 0 => Unwritten \/ Creating \/ Zeroed \/ Resting \/ Inserting

(* A file with a page is not the empty one. *)
LEMMA FileHasPages ==
  ASSUME NEW f, NEW n, IsFile(f, n), n # 0
  PROVE  f # <<>>
<1>1. 0 \in DOMAIN f
  BY DEF IsFile
<1>2. 0 \notin DOMAIN <<>>
  OBVIOUS
<1> QED  BY <1>1, <1>2

LEMMA StandsHasPages ==
  ASSUME NEW f, NEW st, Stands(f, st)
  PROVE  f # <<>>
<1>1. \E n : IsFile(f, n) /\ n # 0
  <2>1. CASE \E n, L, R : IsTree(f, n, L, R, st, NoPage, NoPage)
    <3>1. PICK n, L, R : IsTree(f, n, L, R, st, NoPage, NoPage)
      BY <2>1
    <3>2. IsFile(f, n) /\ n # 0
      BY <3>1, TreeShape
    <3> QED  BY <3>2
  <2>2. CASE IsFile(f, 1)
    BY <2>2
  <2> QED  BY <2>1, <2>2 DEF Stands
<1> QED  BY <1>1, FileHasPages

(* What the file answers at rest. *)
LEMMA StandsAnswers ==
  ASSUME Parameters, NEW st, Stands(pages, st), NEW k \in Int
  PROVE  /\ Descends(k)
         /\ k \in DOMAIN st => Search(k) = st[k] /\ Search(k) # NoRid
         /\ k \notin DOMAIN st => Search(k) = NoRid
<1>1. CASE pages[0].id = NoPage /\ DOMAIN st = {}
  BY <1>1 DEF Descends, Search, Root
<1>2. CASE \E n, L, R : IsTree(pages, n, L, R, st, NoPage, NoPage)
  <2>1. PICK n, L, R : IsTree(pages, n, L, R, st, NoPage, NoPage)
    BY <1>2
  <2>2. /\ Descends(k)
        /\ k \in DOMAIN st => Search(k) = st[k]
        /\ k \notin DOMAIN st => Search(k) = NoRid
    BY <2>1, TreeAnswers
  <2>3. k \in DOMAIN st => st[k] \in Rids
    BY DEF Stands
  <2> QED  BY <2>2, <2>3 DEF Parameters
<1> QED  BY <1>1, <1>2 DEF Stands

LEMMA StartStep ==
  ASSUME Parameters, NEW e \in Entry, TreeInv, StartInsert(e)
  PROVE  TreeInv'
<1>1. stops' = stops /\ stored' = stored /\ pages' = pages /\ job' = e /\ writes' = InsertWrites(e)
  BY DEF StartInsert
<1>2. ASSUME stops = 0 PROVE Inserting'
  <2>1. writes = <<>> /\ pages # <<>> /\ Search(e[1]) = NoRid
    BY DEF StartInsert, Idle
  <2>2. Stands(pages, stored)
    <3>1. ~Creating /\ ~Zeroed
      BY <2>1 DEF Creating, Zeroed
    <3> QED  BY <1>2, <2>1, <3>1 DEF TreeInv, Unwritten, Resting, Inserting
  <2>3. PICK k \in Keys, r \in Rids : e = <<k, r>>
    BY DEF Entry
  <2>4. e[1] = k /\ e[2] = r /\ k \in Int
    BY <2>3 DEF Parameters
  <2>5. k \notin DOMAIN stored
    BY <2>1, <2>2, <2>4, StandsAnswers
  <2>6. PICK st2 : st2 = With(stored, k, r)
    OBVIOUS
  <2>7. PICK ok : ok = EntriesAllowed(stored, e)
    OBVIOUS
  <2>8. Allowed(stored, ok)
    BY <2>7 DEF Allowed, EntriesAllowed
  <2>9. k \in DOMAIN st2 /\ st2[k] = r
    BY <2>6 DEF With
  <2>10. Allowed(st2, ok)
    <3>1. ASSUME NEW x \in DOMAIN st2 PROVE <<x, st2[x]>> \in ok
      <4>1. CASE x = k
        <5>1. <<x, st2[x]>> = e
          BY <2>3, <2>9, <4>1
        <5>2. e \in ok
          BY <2>7 DEF EntriesAllowed
        <5> QED  BY <5>1, <5>2
      <4>2. CASE x # k
        <5>1. x \in DOMAIN stored /\ st2[x] = stored[x]
          BY <2>6, <4>2 DEF With
        <5> QED  BY <2>8, <5>1 DEF Allowed
      <4> QED  BY <4>1, <4>2
    <3> QED  BY <3>1 DEF Allowed
  <2>11. PICK g : Leads(pages, InsertWrites(<<k, r>>), g, ok) /\ Stands(g, st2)
    BY <2>2, <2>5, <2>6, <2>8, <2>10, InsertLeads
  <2>12. PICK ws : ws = InsertWrites(e)
    OBVIOUS
  <2>13. Leads(pages, ws, g, ok)
    BY <2>3, <2>11, <2>12
  <2>14. ws # <<>>
    <3>1. SUFFICES ASSUME ws = <<>> PROVE FALSE
      OBVIOUS
    <3>2. pages = g
      BY <2>13, <3>1, LeadsOn
    <3>3. Stands(pages, st2)
      BY <2>11, <3>2
    <3>4. Search(k) # NoRid
      BY <2>4, <2>9, <3>3, StandsAnswers
    <3> QED  BY <2>1, <2>4, <3>4
  <2>15. PICK b : b = e
    OBVIOUS
  <2>16. Stands(g, With(stored, b[1], b[2])) /\ Leads(pages, ws, g, EntriesAllowed(stored, b)) /\ b \in Entry
    BY <2>4, <2>6, <2>7, <2>11, <2>13, <2>15
  <2> QED  BY <1>1, <2>1, <2>12, <2>14, <2>15, <2>16 DEF Inserting
<1> QED  BY <1>1, <1>2 DEF TreeInv

LEMMA RemoveStep ==
  ASSUME Parameters, NEW k \in Keys, TreeInv, RemoveKey(k)
  PROVE  TreeInv'
<1>1. stops' = stops /\ writes' = writes /\ job' = job /\ stored' = Without(stored, k)
  BY DEF RemoveKey, Without
<1>2. ASSUME stops = 0 PROVE Resting'
  <2>1. writes = <<>> /\ pages # <<>> /\ Root # NoPage
    BY DEF RemoveKey, Idle
  <2>2. Stands(pages, stored) /\ job = NoJob
    <3>1. ~Creating /\ ~Zeroed
      BY <2>1 DEF Creating, Zeroed
    <3> QED  BY <1>2, <2>1, <3>1 DEF TreeInv, Unwritten, Resting, Inserting
  <2>3. PICK i \in DOMAIN LeafOf(k).entries :
          /\ LeafOf(k).entries[i][1] = k
          /\ pages' = With(pages, LeafOf(k).id, [LeafOf(k) EXCEPT !.entries = RemoveAt(@, i)])
    BY DEF RemoveKey
  <2>4. PICK g : g = With(pages, LeafOf(k).id, [LeafOf(k) EXCEPT !.entries = RemoveAt(@, i)])
    OBVIOUS
  <2>5. PICK st2 : st2 = Without(stored, k)
    OBVIOUS
  <2>6. Stands(g, st2)
    BY <2>1, <2>2, <2>3, <2>4, <2>5, RemovalStands
  <2>7. g # <<>>
    BY <2>6, StandsHasPages
  <2> QED  BY <1>1, <2>1, <2>2, <2>3, <2>4, <2>5, <2>6, <2>7 DEF Resting
<1> QED  BY <1>1, <1>2 DEF TreeInv

(* An entry is not the mark of no call. *)
LEMMA EntryIsAJob ==
  ASSUME NEW e \in Entry
  PROVE  e # NoJob
<1>1. PICK k \in Keys, r \in Rids : e = <<k, r>>
  BY DEF Entry
<1>2. Len(e) = 2
  BY <1>1
<1>3. SUFFICES ASSUME e = NoJob PROVE FALSE
  OBVIOUS
<1>4. e = <<>>
  BY <1>3 DEF NoJob
<1>5. Len(e) = 0
  BY <1>4
<1> QED  BY <1>2, <1>5

LEMMA CreateStep ==
  ASSUME TreeInv, Create
  PROVE  TreeInv'
<1>1. /\ stops' = stops /\ stored' = stored /\ pages' = pages /\ job' = job
      /\ writes' = <<Allocated(0), <<0, Meta(NoPage)>>>> /\ pages = <<>> /\ writes = <<>>
  BY DEF Create
<1>2. ASSUME stops = 0 PROVE Creating'
  <2>1. Unwritten
    <3>1. ~Creating
      BY <1>1 DEF Creating
    <3>2. ~Zeroed
      BY <1>1 DEF Zeroed
    <3> QED  BY <1>1, <1>2, <3>1, <3>2 DEF TreeInv, Resting, Inserting
  <2>2. DOMAIN stored = {} /\ job = NoJob
    BY <2>1 DEF Unwritten
  <2> QED  BY <1>1, <2>2 DEF Creating
<1> QED  BY <1>1, <1>2 DEF TreeInv

(* The file of the page of the root id alone. *)
LEMMA NewFile ==
  ASSUME Parameters, NEW f, f = With(<<>>, 0, Zero), NEW g, g = With(f, 0, Meta(NoPage))
  PROVE  IsFile(g, 1) /\ g[0].id = NoPage
<1>1. DOMAIN f = {0} /\ f[0] = Zero
  BY DEF With
<1>2. g = [x \in {0} |-> Meta(NoPage)]
  BY <1>1 DEF With
<1>3. Meta(NoPage) \in NodeRecord /\ Meta(NoPage).id = NoPage /\ ~Meta(NoPage).leaf
  BY MetaIsNode DEF NoPage
<1>4. 0..(1 - 1) = {0}
  OBVIOUS
<1> QED  BY <1>2, <1>3, <1>4 DEF IsFile

LEMMA CreationWrites ==
  ASSUME Parameters, Creating \/ Zeroed, WritePage
  PROVE  Zeroed' \/ Resting'
<1>1. /\ pages' = With(pages, Head(writes)[1], Head(writes)[2]) /\ writes' = Tail(writes)
      /\ ~(writes' = <<>> /\ job # NoJob) => stored' = stored /\ job' = job
  BY DEF WritePage
<1>2. job = NoJob /\ job' = NoJob /\ stored' = stored /\ DOMAIN stored = {}
  BY <1>1 DEF Creating, Zeroed
<1>3. CASE Creating
  <2>1. Head(writes) = <<0, Zero>> /\ Tail(writes) = <<<<0, Meta(NoPage)>>>>
    BY <1>3 DEF Creating, Allocated
  <2>2. pages' = With(<<>>, 0, Zero)
    BY <1>1, <1>3, <2>1 DEF Creating
  <2> QED  BY <1>1, <1>2, <2>1, <2>2 DEF Zeroed
<1>4. CASE Zeroed
  <2>1. Head(writes) = <<0, Meta(NoPage)>> /\ Tail(writes) = <<>>
    BY <1>4 DEF Zeroed
  <2>2. PICK f : f = With(<<>>, 0, Zero)
    OBVIOUS
  <2>3. PICK g : g = With(f, 0, Meta(NoPage))
    OBVIOUS
  <2>4. IsFile(g, 1) /\ g[0].id = NoPage
    BY <2>2, <2>3, NewFile
  <2>5. pages' = g
    BY <1>1, <1>4, <2>1, <2>2, <2>3 DEF Zeroed
  <2>6. Stands(g, stored)
    BY <1>2, <2>4 DEF Stands
  <2>7. g # <<>>
    BY <2>6, StandsHasPages
  <2> QED  BY <1>1, <1>2, <2>1, <2>5, <2>6, <2>7 DEF Resting
<1> QED  BY <1>3, <1>4

LEMMA InsertionWrites ==
  ASSUME Parameters, Inserting, WritePage
  PROVE  Inserting' \/ Resting'
<1>1. /\ pages' = With(pages, Head(writes)[1], Head(writes)[2]) /\ writes' = Tail(writes)
      /\ writes' = <<>> /\ job # NoJob => stored' = With(stored, job[1], job[2]) /\ job' = NoJob
      /\ ~(writes' = <<>> /\ job # NoJob) => stored' = stored /\ job' = job
  BY DEF WritePage
<1>2. job \in Entry /\ job # NoJob /\ writes # <<>>
  BY EntryIsAJob DEF Inserting
<1>3. PICK g : /\ Leads(pages, writes, g, EntriesAllowed(stored, job))
               /\ Stands(g, With(stored, job[1], job[2]))
  BY DEF Inserting
<1>4. PICK ok : ok = EntriesAllowed(stored, job)
  OBVIOUS
<1>5. PICK f : f = With(pages, Head(writes)[1], Head(writes)[2])
  OBVIOUS
<1>6. PICK ws : ws = Tail(writes)
  OBVIOUS
<1>7. Leads(f, ws, g, ok)
  <2>1. Leads(pages, writes, g, ok)
    BY <1>3, <1>4
  <2>2. Leads(With(pages, Head(writes)[1], Head(writes)[2]), Tail(writes), g, ok)
    BY <1>2, <2>1, LeadsOn
  <2> QED  BY <1>5, <1>6, <2>2
<1>8. CASE ws = <<>>
  <2>1. f = g
    BY <1>7, <1>8, LeadsOn
  <2>2. pages' = g /\ writes' = <<>> /\ job' = NoJob /\ stored' = With(stored, job[1], job[2])
    BY <1>1, <1>2, <1>5, <1>6, <1>8, <2>1
  <2>3. g # <<>>
    BY <1>3, StandsHasPages
  <2> QED  BY <1>3, <2>2, <2>3 DEF Resting
<1>9. CASE ws # <<>>
  <2>1. pages' = f /\ writes' = ws /\ job' = job /\ stored' = stored
    BY <1>1, <1>5, <1>6, <1>9
  <2>2. f # <<>>
    <3>1. Readable(f, ok)
      BY <1>7, LeadsOn
    <3>2. PICK n, L : Sound(f, n, L, ok)
      BY <3>1 DEF Readable
    <3>3. IsFile(f, n) /\ n # 0
      BY <3>2 DEF Sound
    <3> QED  BY <3>3, FileHasPages
  <2>3. job' \in Entry /\ pages' # <<>> /\ writes' # <<>>
    BY <1>2, <1>9, <2>1, <2>2
  <2>4. Leads(pages', writes', g, EntriesAllowed(stored', job'))
    BY <1>4, <1>7, <2>1
  <2>5. Stands(g, With(stored', job'[1], job'[2]))
    BY <1>3, <2>1
  <2> QED  BY <2>3, <2>4, <2>5 DEF Inserting
<1> QED  BY <1>8, <1>9

LEMMA WriteStep ==
  ASSUME Parameters, TreeInv, WritePage
  PROVE  TreeInv'
<1>1. stops' = stops /\ writes # <<>>
  BY DEF WritePage
<1>2. ASSUME stops = 0 PROVE Zeroed' \/ Resting' \/ Inserting'
  <2>1. Creating \/ Zeroed \/ Inserting
    BY <1>1, <1>2 DEF TreeInv, Unwritten, Resting
  <2> QED  BY <2>1, CreationWrites, InsertionWrites
<1> QED  BY <1>1, <1>2 DEF TreeInv

LEMMA StopStep ==
  ASSUME TreeInv, Stop
  PROVE  TreeInv'
<1>1. stops \in Nat /\ stops' = stops + 1
  BY DEF TreeInv, Stop
<1> QED  BY <1>1 DEF TreeInv

LEMMA StillStep ==
  ASSUME TreeInv, UNCHANGED vars
  PROVE  TreeInv'
<1>1. pages' = pages /\ writes' = writes /\ job' = job /\ stored' = stored /\ stops' = stops
  BY DEF vars
<1>2. Unwritten => Unwritten'
  BY <1>1 DEF Unwritten
<1>3. Creating => Creating'
  BY <1>1 DEF Creating
<1>4. Zeroed => Zeroed'
  BY <1>1 DEF Zeroed
<1>5. Resting => Resting'
  BY <1>1 DEF Resting
<1>6. Inserting => Inserting'
  <2>1. SUFFICES ASSUME Inserting PROVE Inserting'
    OBVIOUS
  <2>2. PICK g : /\ Leads(pages, writes, g, EntriesAllowed(stored, job))
                 /\ Stands(g, With(stored, job[1], job[2]))
    BY <2>1 DEF Inserting
  <2>3. Leads(pages', writes', g, EntriesAllowed(stored', job'))
    BY <1>1, <2>2
  <2>4. Stands(g, With(stored', job'[1], job'[2]))
    BY <1>1, <2>2
  <2>5. job' \in Entry /\ pages' # <<>> /\ writes' # <<>>
    BY <1>1, <2>1 DEF Inserting
  <2> QED  BY <2>3, <2>4, <2>5 DEF Inserting
<1> QED  BY <1>1, <1>2, <1>3, <1>4, <1>5, <1>6 DEF TreeInv

(* Until a call is cut short, the file stands for the entries stored, or is
   being created, or is led by the writes still to come to the file that
   stands for those entries and the one being inserted.                    *)
THEOREM TreeInvariant ==
  ASSUME Parameters
  PROVE  Spec => []TreeInv
<1>1. Init => TreeInv
  BY DEF Init, TreeInv, Unwritten
<1>2. TreeInv /\ [Next]_vars => TreeInv'
  <2> SUFFICES ASSUME TreeInv, [Next]_vars PROVE TreeInv'
    OBVIOUS
  <2>1. CASE Create
    BY <2>1, CreateStep
  <2>2. CASE \E e \in Entry : StartInsert(e)
    BY <2>2, StartStep
  <2>3. CASE WritePage
    BY <2>3, WriteStep
  <2>4. CASE Stop
    BY <2>4, StopStep
  <2>5. CASE \E k \in Keys : RemoveKey(k)
    BY <2>5, RemoveStep
  <2>6. CASE UNCHANGED vars
    BY <2>6, StillStep
  <2> QED  BY <2>1, <2>2, <2>3, <2>4, <2>5, <2>6 DEF Next
<1> QED  BY <1>1, <1>2, PTL DEF Spec

-----------------------------------------------------------------------------
(* What the invariant says.                                                *)

(* At rest, and in the middle of an insert. *)
LEMMA WholeFile ==
  ASSUME TreeInv, Whole
  PROVE  Resting \/ Inserting
<1>1. stops = 0 /\ pages # <<>> /\ (writes # <<>> => job # NoJob)
  BY DEF Whole
<1>2. ~Unwritten
  BY <1>1 DEF Unwritten
<1>3. ~Creating
  BY <1>1 DEF Creating
<1>4. ~Zeroed
  <2>1. SUFFICES ASSUME Zeroed PROVE FALSE
    OBVIOUS
  <2>2. writes # <<>>
    BY <2>1 DEF Zeroed
  <2> QED  BY <1>1, <2>1, <2>2 DEF Zeroed
<1> QED  BY <1>1, <1>2, <1>3, <1>4 DEF TreeInv

LEMMA FileAtRest ==
  ASSUME TreeInv, AtRest
  PROVE  Stands(pages, stored)
<1>1. Whole /\ writes = <<>>
  BY DEF AtRest
<1>2. ~Inserting
  BY <1>1 DEF Inserting
<1> QED  BY <1>1, <1>2, WholeFile DEF Resting

LEMMA SaysSearchExact ==
  ASSUME Parameters, TreeInv
  PROVE  SearchExact
<1>1. SUFFICES ASSUME AtRest, NEW k \in Keys PROVE Descends(k) /\ Search(k) = Answer(k)
  BY DEF SearchExact
<1>2. Stands(pages, stored) /\ k \in Int
  BY <1>1, FileAtRest DEF Parameters
<1>3. /\ Descends(k)
      /\ k \in DOMAIN stored => Search(k) = stored[k] /\ Search(k) # NoRid
      /\ k \notin DOMAIN stored => Search(k) = NoRid
  BY <1>2, StandsAnswers
<1> QED  BY <1>3 DEF Answer

LEMMA SaysReadable ==
  ASSUME Parameters, TreeInv
  PROVE  ReadableAtEveryWrite
<1>1. SUFFICES ASSUME Whole, NEW k \in Keys
               PROVE  /\ Descends(k)
                      /\ \/ Search(k) \in {Answer(k), NoRid}
                         \/ job # NoJob /\ job = <<k, Search(k)>>
  BY DEF ReadableAtEveryWrite
<1>2. k \in Int
  BY DEF Parameters
<1>3. CASE Resting
  <2>1. /\ Descends(k)
        /\ k \in DOMAIN stored => Search(k) = stored[k] /\ Search(k) # NoRid
        /\ k \notin DOMAIN stored => Search(k) = NoRid
    BY <1>2, <1>3, StandsAnswers DEF Resting
  <2> QED  BY <2>1 DEF Answer
<1>4. CASE Inserting
  <2>1. PICK ok : ok = EntriesAllowed(stored, job)
    OBVIOUS
  <2>2. PICK g : Leads(pages, writes, g, EntriesAllowed(stored, job))
    BY <1>4 DEF Inserting
  <2>3. Readable(pages, ok)
    BY <2>1, <2>2, LeadsOn
  <2>4. /\ Descends(k)
        /\ Search(k) = NoRid \/ <<k, Search(k)>> \in ok
    BY <1>2, <2>3, ReadableDescends
  <2>5. CASE Search(k) = NoRid
    BY <2>4, <2>5
  <2>6. CASE <<k, Search(k)>> = job
    <3>1. job \in Entry
      BY <1>4 DEF Inserting
    <3>2. job # NoJob
      BY <3>1, EntryIsAJob
    <3> QED  BY <2>4, <2>6, <3>2
  <2>7. CASE \E x \in DOMAIN stored : <<k, Search(k)>> = <<x, stored[x]>>
    <3>1. PICK x \in DOMAIN stored : <<k, Search(k)>> = <<x, stored[x]>>
      BY <2>7
    <3>2. k = x /\ Search(k) = stored[x]
      BY <3>1
    <3> QED  BY <2>4, <3>2 DEF Answer
  <2>8. <<k, Search(k)>> \in ok => <<k, Search(k)>> = job \/ \E x \in DOMAIN stored : <<k, Search(k)>> = <<x, stored[x]>>
    BY <2>1 DEF EntriesAllowed
  <2> QED  BY <2>4, <2>5, <2>6, <2>7, <2>8
<1> QED  BY <1>1, <1>3, <1>4, WholeFile

(* The leaves of a tree are linked both ways, and as far down as each other. *)
LinkedBothWays(p) ==
  /\ pages[p].next # NoPage => pages[pages[p].next].prev = p
  /\ pages[p].prev # NoPage => pages[pages[p].prev].next = p

LEMMA TreeIsBalanced ==
  ASSUME Parameters, NEW n, NEW L, NEW R, NEW st, IsTree(pages, n, L, R, st, NoPage, NoPage)
  PROVE  /\ \A k \in Keys : Len(Path(k)) = L[Root] + 1
         /\ \A p \in Leaves : LinkedBothWays(p)
<1>1. ASSUME NEW k \in Keys PROVE Len(Path(k)) = L[Root] + 1
  <2>1. k \in Int
    BY DEF Parameters
  <2>2. Route(Path(k), k, n, L, L[Root])
    BY <2>1, LeafReached
  <2> QED  BY <2>2 DEF Route
<1>2. ASSUME NEW p \in Leaves PROVE LinkedBothWays(p)
  <2>1. IsFile(pages, n) /\ n \in Nat /\ n # 0
    BY TreeShape
  <2>2. p \in 0..(n - 1) /\ pages[p].leaf
    BY <2>1 DEF Leaves, PageIds, IsFile
  <2>3. CASE p = 0
    BY <2>1, <2>2, <2>3 DEF IsFile
  <2>4. CASE p # 0
    <3>1. p \in 1..(n - 1)
      BY <2>1, <2>2, <2>4
    <3>2. \A q \in 1..(n - 1) : pages[q].leaf => IsLeaf(pages, n, L, R, st, q)
      BY TreeShape
    <3>3. IsLinked(pages, n, R, p)
      BY <2>2, <3>1, <3>2 DEF IsLeaf
    <3> QED  BY <3>3 DEF IsLinked, LinkedBothWays
  <2> QED  BY <2>3, <2>4
<1> QED  BY <1>1, <1>2

LEMMA SaysBalanced ==
  ASSUME Parameters, TreeInv
  PROVE  TreeBalanced
<1>1. SUFFICES ASSUME AtRest
               PROVE  /\ \A k, l \in Keys : Root # NoPage => Len(Path(k)) = Len(Path(l))
                      /\ \A p \in Leaves : LinkedBothWays(p)
  BY DEF TreeBalanced, LinkedBothWays
<1>2. Stands(pages, stored)
  BY <1>1, FileAtRest
<1>3. CASE IsFile(pages, 1) /\ pages[0].id = NoPage
  <2>1. DOMAIN pages = {0} /\ ~pages[0].leaf
    BY <1>3 DEF IsFile
  <2>2. Leaves = {}
    BY <2>1 DEF Leaves, PageIds
  <2> QED  BY <1>3, <2>2 DEF Root
<1>4. CASE \E n, L, R : IsTree(pages, n, L, R, stored, NoPage, NoPage)
  <2>1. PICK n, L, R : IsTree(pages, n, L, R, stored, NoPage, NoPage)
    BY <1>4
  <2>2. /\ \A k \in Keys : Len(Path(k)) = L[Root] + 1
        /\ \A p \in Leaves : LinkedBothWays(p)
    BY <2>1, TreeIsBalanced
  <2> QED  BY <2>2
<1> QED  BY <1>2, <1>3, <1>4 DEF Stands

-----------------------------------------------------------------------------
(* The loops of a range search: the chain of leaves, their entries one leaf
   after the other, and those from the lower bound on.                     *)

Linking(f, first, N) == f = [i \in 0..N |-> IF i = 0 THEN <<first>> ELSE Along(f[i - 1])]

LEMMA LinkingRuns ==
  ASSUME NEW first, NEW N \in Nat
  PROVE  \E f : Linking(f, first, N)
<1>1. PICK G : G = {n \in 0..N : \E f : Linking(f, first, n)}
  OBVIOUS
<1>2. PICK b : b = <<first>>
  OBVIOUS
<1>3. 0 \in G
  <2>1. PICK f : f = [i \in 0..0 |-> b]
    OBVIOUS
  <2>2. \A i \in 0..0 : i = 0
    OBVIOUS
  <2>3. f = [i \in 0..0 |-> IF i = 0 THEN b ELSE Along(f[i - 1])]
    BY <2>1, <2>2
  <2>4. Linking(f, first, 0)
    BY <1>2, <2>3 DEF Linking
  <2>5. 0 \in 0..N
    OBVIOUS
  <2> QED  BY <1>1, <2>4, <2>5
<1>4. ASSUME NEW n \in 1..N, n - 1 \in G PROVE n \in G
  <2>1. PICK f : Linking(f, first, n - 1)
    BY <1>1, <1>4
  <2>2. f = [i \in 0..(n - 1) |-> IF i = 0 THEN b ELSE Along(f[i - 1])]
    BY <1>2, <2>1 DEF Linking
  <2>3. PICK c : c = Along(f[n - 1])
    OBVIOUS
  <2>4. PICK g : g = [i \in 0..n |-> IF i = n THEN c ELSE f[i]]
    OBVIOUS
  <2>5. n - 1 \in 0..(n - 1) /\ n \in 0..n /\ 0 # n /\ n # 0
    OBVIOUS
  <2>6. g[n] = c /\ \A i \in 0..(n - 1) : g[i] = f[i]
    BY <2>4
  <2>7. ASSUME NEW i \in 0..n PROVE g[i] = IF i = 0 THEN b ELSE Along(g[i - 1])
    <3>1. CASE i = n
      BY <2>3, <2>5, <2>6, <3>1
    <3>2. CASE i # n
      <4>1. i \in 0..(n - 1)
        BY <3>2
      <4>2. g[i] = IF i = 0 THEN b ELSE Along(f[i - 1])
        BY <2>2, <2>6, <4>1
      <4>3. i # 0 => i - 1 \in 0..(n - 1)
        BY <4>1
      <4>4. i # 0 => g[i - 1] = f[i - 1]
        BY <2>6, <4>3
      <4> QED  BY <4>2, <4>4
    <3> QED  BY <3>1, <3>2
  <2>8. g = [i \in 0..n |-> IF i = 0 THEN b ELSE Along(g[i - 1])]
    BY <2>4, <2>7
  <2>9. Linking(g, first, n)
    BY <1>2, <2>8 DEF Linking
  <2>10. n \in 0..N
    OBVIOUS
  <2> QED  BY <1>1, <2>9, <2>10
<1>5. \A n \in 0..N : n \in G
  BY <1>3, <1>4, EveryRound
<1>6. N \in 0..N
  OBVIOUS
<1> QED  BY <1>1, <1>5, <1>6

LEMMA ChainIs ==
  ASSUME NEW first, NEW N \in Nat, NextPage = N
  PROVE  \E f : Linking(f, first, N) /\ Chain(first) = f[N]
<1> DEFINE after ==
      CHOOSE g : g = [i \in 0..N |-> IF i = 0 THEN <<first>> ELSE Along(g[i - 1])]
<1>1. Chain(first) = after[N]
  BY DEF Chain
<1>2. \E f : f = [i \in 0..N |-> IF i = 0 THEN <<first>> ELSE Along(f[i - 1])]
  <2>1. PICK f : Linking(f, first, N)
    BY LinkingRuns
  <2>2. f = [i \in 0..N |-> IF i = 0 THEN <<first>> ELSE Along(f[i - 1])]
    BY <2>1 DEF Linking
  <2> QED  BY <2>2
<1>3. after = [i \in 0..N |-> IF i = 0 THEN <<first>> ELSE Along(after[i - 1])]
  BY <1>2
<1> HIDE DEF after
<1>4. PICK f : f = after
  OBVIOUS
<1>5. Linking(f, first, N)
  BY <1>3, <1>4 DEF Linking
<1> QED  BY <1>1, <1>4, <1>5

Reading(f, ids, N) == f = [i \in 0..N |-> IF i = 0 THEN <<>> ELSE f[i - 1] \o pages[ids[i]].entries]

LEMMA ReadingRuns ==
  ASSUME NEW ids, NEW N \in Nat
  PROVE  \E f : Reading(f, ids, N)
<1>1. PICK G : G = {n \in 0..N : \E f : Reading(f, ids, n)}
  OBVIOUS
<1>2. PICK b : b = <<>>
  OBVIOUS
<1>3. 0 \in G
  <2>1. PICK f : f = [i \in 0..0 |-> b]
    OBVIOUS
  <2>2. \A i \in 0..0 : i = 0
    OBVIOUS
  <2>3. f = [i \in 0..0 |-> IF i = 0 THEN b ELSE f[i - 1] \o pages[ids[i]].entries]
    BY <2>1, <2>2
  <2>4. Reading(f, ids, 0)
    BY <1>2, <2>3 DEF Reading
  <2>5. 0 \in 0..N
    OBVIOUS
  <2> QED  BY <1>1, <2>4, <2>5
<1>4. ASSUME NEW n \in 1..N, n - 1 \in G PROVE n \in G
  <2>1. PICK f : Reading(f, ids, n - 1)
    BY <1>1, <1>4
  <2>2. f = [i \in 0..(n - 1) |-> IF i = 0 THEN b ELSE f[i - 1] \o pages[ids[i]].entries]
    BY <1>2, <2>1 DEF Reading
  <2>3. PICK c : c = f[n - 1] \o pages[ids[n]].entries
    OBVIOUS
  <2>4. PICK g : g = [i \in 0..n |-> IF i = n THEN c ELSE f[i]]
    OBVIOUS
  <2>5. n - 1 \in 0..(n - 1) /\ n \in 0..n /\ 0 # n /\ n # 0
    OBVIOUS
  <2>6. g[n] = c /\ \A i \in 0..(n - 1) : g[i] = f[i]
    BY <2>4
  <2>7. ASSUME NEW i \in 0..n PROVE g[i] = IF i = 0 THEN b ELSE g[i - 1] \o pages[ids[i]].entries
    <3>1. CASE i = n
      BY <2>3, <2>5, <2>6, <3>1
    <3>2. CASE i # n
      <4>1. i \in 0..(n - 1)
        BY <3>2
      <4>2. g[i] = IF i = 0 THEN b ELSE f[i - 1] \o pages[ids[i]].entries
        BY <2>2, <2>6, <4>1
      <4>3. i # 0 => i - 1 \in 0..(n - 1)
        BY <4>1
      <4>4. i # 0 => g[i - 1] = f[i - 1]
        BY <2>6, <4>3
      <4> QED  BY <4>2, <4>4
    <3> QED  BY <3>1, <3>2
  <2>8. g = [i \in 0..n |-> IF i = 0 THEN b ELSE g[i - 1] \o pages[ids[i]].entries]
    BY <2>4, <2>7
  <2>9. Reading(g, ids, n)
    BY <1>2, <2>8 DEF Reading
  <2>10. n \in 0..N
    OBVIOUS
  <2> QED  BY <1>1, <2>9, <2>10
<1>5. \A n \in 0..N : n \in G
  BY <1>3, <1>4, EveryRound
<1>6. N \in 0..N
  OBVIOUS
<1> QED  BY <1>1, <1>5, <1>6

LEMMA EntriesAre ==
  ASSUME NEW ids, NEW N \in Nat, Len(ids) = N
  PROVE  \E f : Reading(f, ids, N) /\ EntriesOf(ids) = f[N]
<1> DEFINE read ==
      CHOOSE g : g = [i \in 0..N |-> IF i = 0 THEN <<>> ELSE g[i - 1] \o pages[ids[i]].entries]
<1>1. EntriesOf(ids) = read[N]
  BY DEF EntriesOf
<1>2. \E f : f = [i \in 0..N |-> IF i = 0 THEN <<>> ELSE f[i - 1] \o pages[ids[i]].entries]
  <2>1. PICK f : Reading(f, ids, N)
    BY ReadingRuns
  <2>2. f = [i \in 0..N |-> IF i = 0 THEN <<>> ELSE f[i - 1] \o pages[ids[i]].entries]
    BY <2>1 DEF Reading
  <2> QED  BY <2>2
<1>3. read = [i \in 0..N |-> IF i = 0 THEN <<>> ELSE read[i - 1] \o pages[ids[i]].entries]
  BY <1>2
<1> HIDE DEF read
<1>4. PICK f : f = read
  OBVIOUS
<1>5. Reading(f, ids, N)
  BY <1>3, <1>4 DEF Reading
<1> QED  BY <1>1, <1>4, <1>5

Taking(f, es, low, N) == f = [i \in 0..N |-> IF i = 0 THEN <<>> ELSE Taken(f[i - 1], es[i], low)]

LEMMA TakingRuns ==
  ASSUME NEW es, NEW low, NEW N \in Nat
  PROVE  \E f : Taking(f, es, low, N)
<1>1. PICK G : G = {n \in 0..N : \E f : Taking(f, es, low, n)}
  OBVIOUS
<1>2. PICK b : b = <<>>
  OBVIOUS
<1>3. 0 \in G
  <2>1. PICK f : f = [i \in 0..0 |-> b]
    OBVIOUS
  <2>2. \A i \in 0..0 : i = 0
    OBVIOUS
  <2>3. f = [i \in 0..0 |-> IF i = 0 THEN b ELSE Taken(f[i - 1], es[i], low)]
    BY <2>1, <2>2
  <2>4. Taking(f, es, low, 0)
    BY <1>2, <2>3 DEF Taking
  <2>5. 0 \in 0..N
    OBVIOUS
  <2> QED  BY <1>1, <2>4, <2>5
<1>4. ASSUME NEW n \in 1..N, n - 1 \in G PROVE n \in G
  <2>1. PICK f : Taking(f, es, low, n - 1)
    BY <1>1, <1>4
  <2>2. f = [i \in 0..(n - 1) |-> IF i = 0 THEN b ELSE Taken(f[i - 1], es[i], low)]
    BY <1>2, <2>1 DEF Taking
  <2>3. PICK c : c = Taken(f[n - 1], es[n], low)
    OBVIOUS
  <2>4. PICK g : g = [i \in 0..n |-> IF i = n THEN c ELSE f[i]]
    OBVIOUS
  <2>5. n - 1 \in 0..(n - 1) /\ n \in 0..n /\ 0 # n /\ n # 0
    OBVIOUS
  <2>6. g[n] = c /\ \A i \in 0..(n - 1) : g[i] = f[i]
    BY <2>4
  <2>7. ASSUME NEW i \in 0..n PROVE g[i] = IF i = 0 THEN b ELSE Taken(g[i - 1], es[i], low)
    <3>1. CASE i = n
      BY <2>3, <2>5, <2>6, <3>1
    <3>2. CASE i # n
      <4>1. i \in 0..(n - 1)
        BY <3>2
      <4>2. g[i] = IF i = 0 THEN b ELSE Taken(f[i - 1], es[i], low)
        BY <2>2, <2>6, <4>1
      <4>3. i # 0 => i - 1 \in 0..(n - 1)
        BY <4>1
      <4>4. i # 0 => g[i - 1] = f[i - 1]
        BY <2>6, <4>3
      <4> QED  BY <4>2, <4>4
    <3> QED  BY <3>1, <3>2
  <2>8. g = [i \in 0..n |-> IF i = 0 THEN b ELSE Taken(g[i - 1], es[i], low)]
    BY <2>4, <2>7
  <2>9. Taking(g, es, low, n)
    BY <1>2, <2>8 DEF Taking
  <2>10. n \in 0..N
    OBVIOUS
  <2> QED  BY <1>1, <2>9, <2>10
<1>5. \A n \in 0..N : n \in G
  BY <1>3, <1>4, EveryRound
<1>6. N \in 0..N
  OBVIOUS
<1> QED  BY <1>1, <1>5, <1>6

LEMMA FromIs ==
  ASSUME NEW es, NEW low, NEW N \in Nat, Len(es) = N
  PROVE  \E f : Taking(f, es, low, N) /\ From(es, low) = f[N]
<1> DEFINE results ==
      CHOOSE g : g = [i \in 0..N |-> IF i = 0 THEN <<>> ELSE Taken(g[i - 1], es[i], low)]
<1>1. From(es, low) = results[N]
  BY DEF From
<1>2. \E f : f = [i \in 0..N |-> IF i = 0 THEN <<>> ELSE Taken(f[i - 1], es[i], low)]
  <2>1. PICK f : Taking(f, es, low, N)
    BY TakingRuns
  <2>2. f = [i \in 0..N |-> IF i = 0 THEN <<>> ELSE Taken(f[i - 1], es[i], low)]
    BY <2>1 DEF Taking
  <2> QED  BY <2>2
<1>3. results = [i \in 0..N |-> IF i = 0 THEN <<>> ELSE Taken(results[i - 1], es[i], low)]
  BY <1>2
<1> HIDE DEF results
<1>4. PICK f : f = results
  OBVIOUS
<1>5. Taking(f, es, low, N)
  BY <1>3, <1>4 DEF Taking
<1> QED  BY <1>1, <1>4, <1>5

-----------------------------------------------------------------------------
(* The chain of leaves.                                                    *)

Less(A, B) == \A a \in A, b \in B : a < b
(* Every integer from `low` to one of the last page's is of some page. *)
CoversFrom(ids, R, low) ==
  \A b \in R[ids[Len(ids)]] : \A x \in Int :
    low <= x /\ x <= b => \E i \in 1..Len(ids) : x \in R[ids[i]]
(* Leaves of a tree, from the one with `low` on, in the order of their ranges. *)
Chained(ids, n, R, low) ==
  /\ ids \in Seq(1..(n - 1)) /\ Len(ids) # 0
  /\ \A i \in 1..Len(ids) : pages[ids[i]].leaf
  /\ \A i, j \in 1..Len(ids) : i < j => Less(R[ids[i]], R[ids[j]])
  /\ CoversFrom(ids, R, low)
AtEnd(ids) == pages[ids[Len(ids)]].next = NoPage

LEMMA FirstOfChain ==
  ASSUME NEW n \in Nat, NEW R, R \in [1..(n - 1) -> SUBSET Int], NEW p \in 1..(n - 1), pages[p].leaf,
         NEW low \in R[p], Convex(R[p]), NEW ids, ids = <<p>>
  PROVE  Chained(ids, n, R, low) /\ Len(ids) = 1
<1>1. ids \in Seq(1..(n - 1)) /\ Len(ids) = 1 /\ ids[1] = p
  OBVIOUS
<1>2. \A i \in 1..1 : i = 1
  OBVIOUS
<1>3. \A i \in 1..Len(ids) : pages[ids[i]].leaf
  BY <1>1, <1>2
<1>4. \A i, j \in 1..Len(ids) : i < j => Less(R[ids[i]], R[ids[j]])
  BY <1>1, <1>2
<1>5. ASSUME NEW b \in R[p], NEW x \in Int, low <= x, x <= b PROVE x \in R[p]
  <2>1. b \in Int /\ low \in Int
    OBVIOUS
  <2>2. CASE x = low \/ x = b
    BY <2>2
  <2>3. CASE low < x /\ x < b
    BY <1>5, <2>3 DEF Convex
  <2> QED  BY <1>5, <2>1, <2>2, <2>3
<1>6. CoversFrom(ids, R, low)
  <2>1. 1 \in 1..Len(ids) /\ R[ids[1]] = R[p] /\ R[ids[Len(ids)]] = R[p]
    BY <1>1
  <2> QED  BY <1>5, <2>1 DEF CoversFrom
<1> QED  BY <1>1, <1>3, <1>4, <1>6 DEF Chained

(* The leaf q comes after the last one of ids, which is p. *)
LeafAfter(ids, p, q, t) == p = ids[Len(ids)] /\ t = Append(ids, q)
Beside(R, p, q) == R[p] # {} /\ Adjacent(R[p], R[q])
LEMMA NextInChain ==
  ASSUME NEW n \in Nat, NEW R, R \in [1..(n - 1) -> SUBSET Int], NEW ids, NEW low \in Int, Chained(ids, n, R, low),
         NEW q \in 1..(n - 1), pages[q].leaf, NEW p, NEW t, LeafAfter(ids, p, q, t), Beside(R, p, q)
  PROVE  Chained(t, n, R, low) /\ Len(t) = Len(ids) + 1
<1>0. PICK m : m = Len(ids)
  OBVIOUS
<1> USE <1>0
<1>1. /\ ids \in Seq(1..(n - 1)) /\ m # 0 /\ m \in Nat
      /\ \A i \in 1..m : pages[ids[i]].leaf
      /\ \A i, j \in 1..m : i < j => Less(R[ids[i]], R[ids[j]])
  BY DEF Chained
<1>2. /\ t \in Seq(1..(n - 1)) /\ Len(t) = m + 1 /\ t[m + 1] = q
      /\ \A i \in 1..m : t[i] = ids[i]
  BY <1>1 DEF LeafAfter
<1>3. \A i \in 1..(m + 1) : i = m + 1 \/ i \in 1..m
  BY <1>1
<1>4. m \in 1..m /\ m \in 1..(m + 1) /\ m + 1 \in 1..(m + 1) /\ \A i \in 1..m : i \in 1..(m + 1)
  BY <1>1
<1>5. p = ids[m] /\ p \in 1..(n - 1)
  BY <1>1, <1>4, ElementOf DEF LeafAfter
<1>6. \A i \in 1..(m + 1) : pages[t[i]].leaf
  BY <1>1, <1>2, <1>3
<1>7. R[p] \subseteq Int /\ R[q] \subseteq Int
  BY <1>5
<1>8. \A i \in 1..m : R[ids[i]] \subseteq Int
  <2>1. ASSUME NEW i \in 1..m PROVE R[ids[i]] \subseteq Int
    <3>1. ids[i] \in 1..(n - 1)
      BY <1>1, ElementOf
    <3> QED  BY <3>1
  <2> QED  BY <2>1
<1>9. Less(R[p], R[q])
  BY DEF Less, Adjacent, Beside
<1>10. ASSUME NEW i \in 1..m PROVE Less(R[ids[i]], R[q])
  <2>1. CASE i = m
    BY <1>5, <1>9, <2>1
  <2>2. CASE i # m
    <3>1. i < m
      BY <1>1, <2>2
    <3>2. Less(R[ids[i]], R[p])
      BY <1>1, <1>4, <1>5, <3>1
    <3>3. PICK c : c \in R[p]
      BY DEF Beside
    <3>4. ASSUME NEW a \in R[ids[i]], NEW b \in R[q] PROVE a < b
      <4>1. a < c
        BY <3>2, <3>3 DEF Less
      <4>2. c < b
        BY <1>9, <3>3 DEF Less
      <4>3. a \in Int /\ b \in Int /\ c \in Int
        BY <1>7, <1>8, <3>3
      <4> QED  BY <4>1, <4>2, <4>3
    <3> QED  BY <3>4 DEF Less
  <2> QED  BY <2>1, <2>2
<1>11. ASSUME NEW i \in 1..(m + 1), NEW j \in 1..(m + 1), i < j PROVE Less(R[t[i]], R[t[j]])
  <2>1. i \in 1..m
    BY <1>1, <1>11
  <2>2. CASE j = m + 1
    BY <1>2, <1>10, <2>1, <2>2
  <2>3. CASE j \in 1..m
    BY <1>1, <1>2, <1>11, <2>1, <2>3
  <2> QED  BY <1>3, <2>2, <2>3
<1>12. ASSUME NEW b \in R[q], NEW x \in Int, low <= x, x <= b
       PROVE  \E i \in 1..(m + 1) : x \in R[t[i]]
  <2>1. PICK a : a \in R[p]
    BY DEF Beside
  <2>2. a \in Int /\ b \in Int
    BY <1>7, <2>1
  <2>3. CASE x <= a
    <3>1. \E i \in 1..m : x \in R[ids[i]]
      BY <1>5, <1>12, <2>1, <2>3 DEF Chained, CoversFrom
    <3> QED  BY <1>2, <1>4, <3>1
  <2>4. CASE a < x /\ x < b
    <3>1. x \in R[p] \/ x \in R[q]
      BY <2>1, <2>4 DEF Adjacent, Beside
    <3> QED  BY <1>2, <1>4, <1>5, <3>1
  <2>5. CASE x = b
    BY <1>2, <1>4, <2>5
  <2> QED  BY <1>12, <2>2, <2>3, <2>4, <2>5
<1>13. CoversFrom(t, R, low)
  BY <1>2, <1>12 DEF CoversFrom
<1>14. Len(t) # 0
  BY <1>1, <1>2
<1> QED  BY <1>2, <1>6, <1>11, <1>13, <1>14 DEF Chained

(* One round of the loop. *)
LEMMA StepAlong ==
  ASSUME Parameters, NEW n, NEW L, NEW R, NEW st, IsTree(pages, n, L, R, st, NoPage, NoPage),
         NEW low \in Int, NEW ids, Chained(ids, n, R, low)
  PROVE  /\ Chained(Along(ids), n, R, low)
         /\ AtEnd(ids) => Along(ids) = ids
         /\ ~AtEnd(ids) => Len(Along(ids)) = Len(ids) + 1
<1>1. /\ IsFile(pages, n) /\ n \in Nat /\ n # 0
      /\ L \in [1..(n - 1) -> Nat] /\ R \in [1..(n - 1) -> SUBSET Int]
      /\ \A q \in 1..(n - 1) : q \in 0..(n - 1) /\ pages[q] \in NodeRecord /\ pages[q].id = q /\ R[q] # {} /\ Convex(R[q])
      /\ \A q \in 1..(n - 1) : pages[q].leaf => IsLeaf(pages, n, L, R, st, q)
  BY TreeShape
<1>2. PICK m : m = Len(ids)
  OBVIOUS
<1>3. /\ ids \in Seq(1..(n - 1)) /\ m # 0 /\ m \in Nat
      /\ \A i \in 1..m : pages[ids[i]].leaf
  BY <1>2 DEF Chained
<1>4. PICK p : p = ids[m]
  OBVIOUS
<1>5. m \in 1..m /\ p \in 1..(n - 1)
  <2>1. m \in 1..m
    BY <1>3
  <2> QED  BY <1>2, <1>3, <1>4, <2>1, ElementOf
<1>6. Last(ids) = p
  BY <1>2, <1>4, LastOf
<1>7. pages[p].leaf
  BY <1>3, <1>4, <1>5
<1>8. IsLinked(pages, n, R, p)
  BY <1>1, <1>5, <1>7 DEF IsLeaf
<1>9. PICK q : q = pages[p].next
  OBVIOUS
<1>10. AtEnd(ids) <=> q = NoPage
  BY <1>2, <1>4, <1>9 DEF AtEnd
<1>11. CASE q = NoPage
  <2>1. Along(ids) = ids
    BY <1>6, <1>9, <1>11 DEF Along
  <2> QED  BY <1>10, <1>11, <2>1
<1>12. CASE q # NoPage
  <2>1. q \in 1..(n - 1) /\ pages[q].leaf /\ Adjacent(R[p], R[q])
    BY <1>8, <1>9, <1>12 DEF IsLinked
  <2>2. PICK t : t = Append(ids, q)
    OBVIOUS
  <2>3. Along(ids) = t
    BY <1>6, <1>9, <1>12, <2>2 DEF Along
  <2>4. R[p] # {}
    BY <1>1, <1>5
  <2>5. Chained(t, n, R, low) /\ Len(t) = m + 1
    <3>1. n \in Nat /\ R \in [1..(n - 1) -> SUBSET Int]
      BY <1>1
    <3>2. LeafAfter(ids, p, q, t) /\ Beside(R, p, q)
      BY <1>2, <1>4, <2>1, <2>2, <2>4 DEF LeafAfter, Beside
    <3> QED  BY <1>2, <2>1, <3>1, <3>2, NextInChain
  <2> QED  BY <1>2, <1>10, <1>12, <2>3, <2>5
<1> QED  BY <1>11, <1>12

(* A chain has no leaf twice, and so not more leaves than there are pages. *)
LEMMA ChainIsShort ==
  ASSUME NEW n \in Nat, n # 0, NEW R, NEW low, NEW ids, Chained(ids, n, R, low),
         R \in [1..(n - 1) -> SUBSET Int], \A q \in 1..(n - 1) : R[q] # {}
  PROVE  Len(ids) <= n - 1
<1>1. PICK m : m = Len(ids)
  OBVIOUS
<1>2. ids \in Seq(1..(n - 1)) /\ m \in Nat /\ \A i, j \in 1..m : i < j => Less(R[ids[i]], R[ids[j]])
  BY <1>1 DEF Chained
<1>3. SUFFICES ASSUME ~(m <= n - 1) PROVE FALSE
  BY <1>1
<1>4. ids \in [1..m -> 1..(n - 1)]
  BY <1>1, <1>2
<1>5. IsFiniteSet(1..m) /\ Cardinality(1..m) = m
  <2>1. m \in Int /\ 1 \in Int /\ ~(1 > m) /\ m - 1 + 1 = m
    BY <1>2, <1>3
  <2> QED  BY <2>1, FS_Interval
<1>6. IsFiniteSet(1..(n - 1)) /\ Cardinality(1..(n - 1)) = n - 1
  BY FS_Interval
<1>7. Cardinality(1..(n - 1)) < Cardinality(1..m)
  BY <1>2, <1>3, <1>5, <1>6
<1>8. PICK i \in 1..m, j \in 1..m : i # j /\ ids[i] = ids[j]
  BY <1>4, <1>5, <1>6, <1>7, FS_PigeonHole
<1>9. PICK c : c = ids[i]
  OBVIOUS
<1>10. c \in 1..(n - 1)
  BY <1>1, <1>2, <1>9, ElementOf
<1>11. PICK a : a \in R[c]
  BY <1>10
<1>12. a \in Int
  BY <1>10, <1>11
<1>13. i < j \/ j < i
  BY <1>8
<1>14. Less(R[c], R[c])
  BY <1>2, <1>8, <1>9, <1>13
<1>15. a < a
  BY <1>11, <1>14 DEF Less
<1> QED  BY <1>12, <1>15

(* The chain from the leaf of `low` has every integer from there on. *)
AllFrom(ids, R, low) == \A x \in Int : low <= x => \E i \in 1..Len(ids) : x \in R[ids[i]]
LEMMA ChainReached ==
  ASSUME Parameters, NEW n, NEW L, NEW R, NEW st, IsTree(pages, n, L, R, st, NoPage, NoPage),
         NEW p \in 1..(n - 1), pages[p].leaf, NEW low \in Int, low \in R[p]
  PROVE  Chained(Chain(p), n, R, low) /\ AllFrom(Chain(p), R, low)
<1>1. /\ IsFile(pages, n) /\ n \in Nat /\ n # 0
      /\ L \in [1..(n - 1) -> Nat] /\ R \in [1..(n - 1) -> SUBSET Int]
      /\ \A q \in 1..(n - 1) : q \in 0..(n - 1) /\ pages[q] \in NodeRecord /\ pages[q].id = q /\ R[q] # {} /\ Convex(R[q])
      /\ \A q \in 1..(n - 1) : pages[q].leaf => IsLeaf(pages, n, L, R, st, q)
  BY TreeShape
<1>2. NextPage = n
  BY <1>1, FileSize DEF NextPage
<1>3. PICK f : Linking(f, p, n) /\ Chain(p) = f[n]
  BY <1>1, <1>2, ChainIs
<1>4. f = [i \in 0..n |-> IF i = 0 THEN <<p>> ELSE Along(f[i - 1])]
  BY <1>3 DEF Linking
<1>5. f[0] = <<p>> /\ \A i \in 1..n : f[i] = Along(f[i - 1])
  <2>1. 0 \in 0..n /\ \A i \in 1..n : i \in 0..n /\ i # 0
    BY <1>1
  <2> QED  BY <1>4, <2>1
<1>6. PICK G : G = {i \in 0..n : Chained(f[i], n, R, low) /\ (Len(f[i]) = i + 1 \/ AtEnd(f[i]))}
  OBVIOUS
<1>7. 0 \in G
  <2>1. Convex(R[p])
    BY <1>1
  <2>2. PICK ids : ids = <<p>>
    OBVIOUS
  <2>3. Chained(ids, n, R, low) /\ Len(ids) = 1
    BY <1>1, <2>1, <2>2, FirstOfChain
  <2>4. 0 \in 0..n /\ 0 + 1 = 1
    BY <1>1
  <2> QED  BY <1>5, <1>6, <2>2, <2>3, <2>4
<1>8. ASSUME NEW i \in 1..n, i - 1 \in G PROVE i \in G
  <2>1. PICK ids : ids = f[i - 1]
    OBVIOUS
  <2>2. Chained(ids, n, R, low) /\ (Len(ids) = i \/ AtEnd(ids))
    BY <1>6, <1>8, <2>1
  <2>3. f[i] = Along(ids)
    BY <1>5, <2>1
  <2>4. /\ Chained(Along(ids), n, R, low)
        /\ AtEnd(ids) => Along(ids) = ids
        /\ ~AtEnd(ids) => Len(Along(ids)) = Len(ids) + 1
    BY <2>2, StepAlong
  <2>5. i \in 0..n
    BY <1>1
  <2>6. CASE AtEnd(ids)
    BY <1>6, <2>3, <2>4, <2>5, <2>6
  <2>7. CASE ~AtEnd(ids)
    BY <1>6, <2>2, <2>3, <2>4, <2>5, <2>7
  <2> QED  BY <2>6, <2>7
<1>9. \A i \in 0..n : i \in G
  BY <1>1, <1>7, <1>8, EveryRound
<1>10. PICK ids : ids = Chain(p)
  OBVIOUS
<1>11. Chained(ids, n, R, low) /\ (Len(ids) = n + 1 \/ AtEnd(ids))
  <2>1. n \in 0..n
    BY <1>1
  <2> QED  BY <1>3, <1>6, <1>9, <1>10, <2>1
<1>12. Len(ids) <= n - 1
  <2>1. \A q \in 1..(n - 1) : R[q] # {}
    BY <1>1
  <2> QED  BY <1>1, <1>11, <2>1, ChainIsShort
<1>13. AtEnd(ids)
  BY <1>1, <1>11, <1>12
<1>14. PICK m : m = Len(ids)
  OBVIOUS
<1>15. ids \in Seq(1..(n - 1)) /\ m # 0 /\ m \in Nat /\ \A i \in 1..m : pages[ids[i]].leaf
  BY <1>11, <1>14 DEF Chained
<1>16. PICK l : l = ids[m]
  OBVIOUS
<1>17. m \in 1..m /\ l \in 1..(n - 1)
  <2>1. m \in 1..m
    BY <1>15
  <2> QED  BY <1>14, <1>15, <1>16, <2>1, ElementOf
<1>18. IsLinked(pages, n, R, l) /\ pages[l].next = NoPage
  <2>1. pages[l].leaf
    BY <1>15, <1>16, <1>17
  <2>2. pages[l].next = NoPage
    BY <1>13, <1>14, <1>16 DEF AtEnd
  <2> QED  BY <1>1, <1>17, <2>1, <2>2 DEF IsLeaf
<1>19. Endless(R[l])
  <2>1. NoPage \notin 1..(n - 1)
    BY <1>1 DEF NoPage
  <2> QED  BY <1>18, <2>1 DEF IsLinked
<1>20. PICK a : a \in R[l]
  BY <1>1, <1>17
<1>21. ASSUME NEW x \in Int, low <= x PROVE \E i \in 1..m : x \in R[ids[i]]
  <2>1. a \in Int
    BY <1>1, <1>17, <1>20
  <2>2. CASE x <= a
    BY <1>11, <1>14, <1>16, <1>20, <1>21, <2>2 DEF Chained, CoversFrom
  <2>3. CASE a < x
    <3>1. x \in R[l]
      BY <1>19, <1>20, <2>3 DEF Endless
    <3> QED  BY <1>16, <1>17, <3>1
  <2> QED  BY <2>1, <2>2, <2>3
<1> QED  BY <1>10, <1>11, <1>14, <1>21 DEF AllFrom

-----------------------------------------------------------------------------
(* The entries of the chain.                                               *)

LEMMA HoldsBoth ==
  ASSUME Parameters, NEW es \in Seq(Entry), NEW fs \in Seq(Entry), NEW st, NEW S, NEW T, NEW U,
         S \subseteq Int, T \subseteq Int, U = S \cup T, Less(S, T), Holds(es, st, S), Holds(fs, st, T)
  PROVE  es \o fs \in Seq(Entry) /\ Holds(es \o fs, st, U)
<1>1. PICK g : g = es \o fs
  OBVIOUS
<1>2. PICK m, l : m = Len(es) /\ l = Len(fs)
  OBVIOUS
<1>3. m \in Nat /\ l \in Nat
  BY <1>2
<1>4. /\ g \in Seq(Entry) /\ Len(g) = m + l
      /\ \A i \in 1..m : g[i] = es[i] /\ \A j \in 1..l : g[m + j] = fs[j]
  BY <1>1, <1>2, Joined
<1>5. \A i \in 1..(m + l) : i \in 1..m \/ (i - m \in 1..l /\ m + (i - m) = i)
  BY <1>3
<1>6. \A j \in 1..l : m + j \in 1..(m + l) /\ m + j > m
  BY <1>3
<1>7. \A i \in 1..m : i \in 1..(m + l)
  BY <1>3
<1>8. \A j \in 1..l : g[m + j] = fs[j]
  BY <1>1, <1>2, Joined
<1>9. \A i \in 1..m : g[i] = es[i]
  BY <1>4
<1>10. /\ \A i \in 1..m : /\ es[i][1] \in S /\ es[i][1] \in DOMAIN st /\ es[i] = <<es[i][1], st[es[i][1]]>>
       /\ \A k \in DOMAIN st : k \in S => \E i \in 1..m : es[i][1] = k
       /\ \A i, j \in 1..m : i < j => es[i][1] < es[j][1]
  BY <1>2 DEF Holds, Ascending
<1>11. /\ \A i \in 1..l : /\ fs[i][1] \in T /\ fs[i][1] \in DOMAIN st /\ fs[i] = <<fs[i][1], st[fs[i][1]]>>
       /\ \A k \in DOMAIN st : k \in T => \E i \in 1..l : fs[i][1] = k
       /\ \A i, j \in 1..l : i < j => fs[i][1] < fs[j][1]
  BY <1>2 DEF Holds, Ascending
<1>12. ASSUME NEW i \in 1..(m + l)
       PROVE  g[i][1] \in U /\ g[i][1] \in DOMAIN st /\ g[i] = <<g[i][1], st[g[i][1]]>>
  <2>1. CASE i \in 1..m
    BY <1>9, <1>10, <2>1
  <2>2. CASE i - m \in 1..l /\ m + (i - m) = i
    <3>1. PICK j \in 1..l : j = i - m
      BY <2>2
    <3>2. g[i] = fs[j]
      BY <1>8, <2>2, <3>1
    <3> QED  BY <1>11, <3>2
  <2> QED  BY <1>5, <2>1, <2>2
<1>13. ASSUME NEW k \in DOMAIN st, k \in U PROVE \E i \in 1..(m + l) : g[i][1] = k
  <2>1. CASE k \in S
    <3>1. PICK i \in 1..m : es[i][1] = k
      BY <1>10, <2>1
    <3> QED  BY <1>7, <1>9, <3>1
  <2>2. CASE k \in T
    <3>1. PICK j \in 1..l : fs[j][1] = k
      BY <1>11, <2>2
    <3> QED  BY <1>6, <1>8, <3>1
  <2> QED  BY <1>13, <2>1, <2>2
<1>14. ASSUME NEW i \in 1..(m + l), NEW j \in 1..(m + l), i < j PROVE g[i][1] < g[j][1]
  <2>1. CASE j \in 1..m
    <3>1. i \in 1..m
      BY <1>3, <1>14, <2>1
    <3> QED  BY <1>9, <1>10, <1>14, <2>1, <3>1
  <2>2. CASE j - m \in 1..l /\ m + (j - m) = j
    <3>1. PICK y \in 1..l : y = j - m
      BY <2>2
    <3>2. g[j] = fs[y]
      BY <1>8, <2>2, <3>1
    <3>3. CASE i \in 1..m
      <4>1. es[i][1] \in S /\ fs[y][1] \in T
        BY <1>10, <1>11, <3>3
      <4>2. es[i][1] < fs[y][1]
        BY <4>1 DEF Less
      <4> QED  BY <1>9, <3>2, <3>3, <4>2
    <3>4. CASE i - m \in 1..l /\ m + (i - m) = i
      <4>1. PICK x \in 1..l : x = i - m
        BY <3>4
      <4>2. g[i] = fs[x]
        BY <1>8, <3>4, <4>1
      <4>3. x < y
        BY <1>3, <1>14, <3>1, <4>1
      <4> QED  BY <1>11, <3>2, <4>2, <4>3
    <3> QED  BY <1>5, <3>3, <3>4
  <2> QED  BY <1>5, <2>1, <2>2
<1>15. Holds(g, st, U)
  <2>1. Ascending(g)
    BY <1>4, <1>14 DEF Ascending
  <2> QED  BY <1>4, <1>12, <1>13, <2>1 DEF Holds
<1> QED  BY <1>1, <1>4, <1>15

(* The integers of the first j pages of a chain. *)
Covered(ids, R, j) == {x \in Int : \E i \in 1..j : x \in R[ids[i]]}

LEMMA ChainRead ==
  ASSUME Parameters, NEW n, NEW L, NEW R, NEW st, IsTree(pages, n, L, R, st, NoPage, NoPage),
         NEW low, NEW ids, Chained(ids, n, R, low)
  PROVE  EntriesOf(ids) \in Seq(Entry) /\ Holds(EntriesOf(ids), st, Covered(ids, R, Len(ids)))
<1>1. /\ IsFile(pages, n) /\ n \in Nat /\ n # 0
      /\ L \in [1..(n - 1) -> Nat] /\ R \in [1..(n - 1) -> SUBSET Int]
      /\ \A q \in 1..(n - 1) : q \in 0..(n - 1) /\ pages[q] \in NodeRecord /\ pages[q].id = q /\ R[q] # {} /\ Convex(R[q])
      /\ \A q \in 1..(n - 1) : pages[q].leaf => IsLeaf(pages, n, L, R, st, q)
  BY TreeShape
<1>2. PICK m : m = Len(ids)
  OBVIOUS
<1>3. /\ ids \in Seq(1..(n - 1)) /\ m \in Nat
      /\ \A i \in 1..m : pages[ids[i]].leaf
      /\ \A i, j \in 1..m : i < j => Less(R[ids[i]], R[ids[j]])
  BY <1>2 DEF Chained
<1>4. PICK f : Reading(f, ids, m) /\ EntriesOf(ids) = f[m]
  BY <1>2, <1>3, EntriesAre
<1>5. f = [i \in 0..m |-> IF i = 0 THEN <<>> ELSE f[i - 1] \o pages[ids[i]].entries]
  BY <1>4 DEF Reading
<1>6. f[0] = <<>> /\ \A i \in 1..m : f[i] = f[i - 1] \o pages[ids[i]].entries
  <2>1. 0 \in 0..m /\ \A i \in 1..m : i \in 0..m /\ i # 0
    BY <1>3
  <2> QED  BY <1>5, <2>1
<1>7. PICK G : G = {i \in 0..m : f[i] \in Seq(Entry) /\ Holds(f[i], st, Covered(ids, R, i))}
  OBVIOUS
<1>8. 0 \in G
  <2>1. Covered(ids, R, 0) = {}
    BY DEF Covered
  <2>2. PICK es : es = f[0]
    OBVIOUS
  <2>3. es = <<>> /\ Len(es) = 0 /\ es \in Seq(Entry) /\ 1..0 = {}
    BY <1>6, <2>2
  <2>4. Ascending(es)
    BY <2>3 DEF Ascending
  <2>5. Holds(es, st, {})
    BY <2>3, <2>4 DEF Holds
  <2>6. 0 \in 0..m
    BY <1>3
  <2>7. f[0] \in Seq(Entry)
    BY <2>2, <2>3
  <2>8. Holds(f[0], st, Covered(ids, R, 0))
    BY <2>1, <2>2, <2>5
  <2> QED  BY <1>7, <2>6, <2>7, <2>8
<1>9. ASSUME NEW i \in 1..m, i - 1 \in G PROVE i \in G
  <2>1. PICK es : es = f[i - 1]
    OBVIOUS
  <2>2. PICK S : S = Covered(ids, R, i - 1)
    OBVIOUS
  <2>3. es \in Seq(Entry) /\ Holds(es, st, S)
    BY <1>7, <1>9, <2>1, <2>2
  <2>4. PICK p : p = ids[i]
    OBVIOUS
  <2>5. p \in 1..(n - 1)
    BY <1>2, <1>3, <2>4, ElementOf
  <2>6. PICK fs : fs = pages[p].entries
    OBVIOUS
  <2>7. fs \in Seq(Entry)
    BY <1>1, <2>5, <2>6 DEF NodeRecord
  <2>8. PICK T : T = R[p]
    OBVIOUS
  <2>9. Holds(fs, st, T)
    <3>1. pages[p].leaf
      BY <1>3, <2>4
    <3> QED  BY <1>1, <2>5, <2>6, <2>8, <3>1 DEF IsLeaf
  <2>10. S \subseteq Int /\ T \subseteq Int
    <3>1. T \in SUBSET Int
      BY <1>1, <2>5, <2>8
    <3> QED  BY <2>2, <3>1 DEF Covered
  <2>11. Less(S, T)
    <3>1. ASSUME NEW a \in S, NEW b \in T PROVE a < b
      <4>1. PICK j \in 1..(i - 1) : a \in R[ids[j]]
        BY <2>2 DEF Covered
      <4>2. j \in 1..m /\ j < i
        BY <1>3
      <4>3. Less(R[ids[j]], R[p])
        BY <1>3, <2>4, <4>2
      <4> QED  BY <2>8, <4>1, <4>3 DEF Less
    <3> QED  BY <3>1 DEF Less
  <2>12. PICK U : U = S \cup T
    OBVIOUS
  <2>13. es \o fs \in Seq(Entry) /\ Holds(es \o fs, st, U)
    BY <2>3, <2>7, <2>9, <2>10, <2>11, <2>12, HoldsBoth
  <2>14. Covered(ids, R, i) = U
    <3>1. \A j \in 1..i : j = i \/ j \in 1..(i - 1)
      BY <1>3
    <3>2. i \in 1..i /\ \A j \in 1..(i - 1) : j \in 1..i
      BY <1>3
    <3>3. ASSUME NEW x \in Covered(ids, R, i) PROVE x \in U
      <4>1. PICK j \in 1..i : x \in R[ids[j]] /\ x \in Int
        BY DEF Covered
      <4>2. CASE j = i
        BY <2>4, <2>8, <2>12, <4>1, <4>2
      <4>3. CASE j \in 1..(i - 1)
        BY <2>2, <2>12, <4>1, <4>3 DEF Covered
      <4> QED  BY <3>1, <4>2, <4>3
    <3>4. ASSUME NEW x \in U PROVE x \in Covered(ids, R, i)
      <4>1. CASE x \in S
        <5>1. PICK j \in 1..(i - 1) : x \in R[ids[j]] /\ x \in Int
          BY <2>2, <4>1 DEF Covered
        <5> QED  BY <3>2, <5>1 DEF Covered
      <4>2. CASE x \in T
        BY <2>4, <2>8, <2>10, <3>2, <4>2 DEF Covered
      <4> QED  BY <2>12, <4>1, <4>2
    <3> QED  BY <3>3, <3>4
  <2>15. i \in 0..m
    BY <1>3
  <2>16. f[i] = es \o fs
    BY <1>6, <2>1, <2>4, <2>6
  <2> QED  BY <1>7, <2>13, <2>14, <2>15, <2>16
<1>10. \A i \in 0..m : i \in G
  BY <1>3, <1>8, <1>9, EveryRound
<1>11. m \in 0..m
  BY <1>3
<1> QED  BY <1>2, <1>4, <1>7, <1>10, <1>11

(* Up to the first key that is greater than the upper bound. *)
Until(S, high) == {x \in S : x <= high}
LEMMA UpToHolds ==
  ASSUME Parameters, NEW es \in Seq(Entry), NEW st, NEW S, Holds(es, st, S), NEW high \in Int
  PROVE  UpTo(es, high) \in Seq(Entry) /\ Holds(UpTo(es, high), st, Until(S, high))
<1>1. PICK past : past = {i \in DOMAIN es : es[i][1] > high}
  OBVIOUS
<1>2. PICK m : m = Len(es)
  OBVIOUS
<1>3. m \in Nat /\ DOMAIN es = 1..m /\ \A i \in 1..m : es[i][1] \in Int
  BY <1>2, KeyOf
<1>4. /\ \A i \in 1..m : /\ es[i][1] \in S /\ es[i][1] \in DOMAIN st /\ es[i] = <<es[i][1], st[es[i][1]]>>
      /\ \A k \in DOMAIN st : k \in S => \E i \in 1..m : es[i][1] = k
      /\ \A i, j \in 1..m : i < j => es[i][1] < es[j][1]
  BY <1>2 DEF Holds, Ascending
<1>5. UpTo(es, high) = IF past = {} THEN es ELSE SubSeq(es, 1, Min(past) - 1)
  BY <1>1 DEF UpTo
<1>6. PICK b : b = IF past = {} THEN m ELSE Min(past) - 1
  OBVIOUS
<1>7. PICK us : us = UpTo(es, high)
  OBVIOUS
<1>8. /\ b \in 0..m /\ us \in Seq(Entry) /\ Len(us) = b /\ \A i \in 1..b : us[i] = es[i]
      /\ \A i \in 1..m : i <= b <=> es[i][1] <= high
  <2>1. CASE past = {}
    <3>1. \A i \in 1..m : ~(es[i][1] > high)
      BY <1>1, <1>3, <2>1
    <3>2. \A i \in 1..m : i <= m /\ es[i][1] <= high
      BY <1>3, <3>1
    <3> QED  BY <1>2, <1>3, <1>5, <1>6, <1>7, <2>1, <3>2
  <2>2. CASE past # {}
    <3>1. past \subseteq Nat
      BY <1>1, <1>3
    <3>2. PICK c : c = Min(past)
      OBVIOUS
    <3>3. c \in past /\ \A y \in past : c <= y
      BY <2>2, <3>1, <3>2, MinOfSet
    <3>4. c \in 1..m /\ es[c][1] > high
      BY <1>1, <1>3, <3>3
    <3>5. b = c - 1 /\ us = SubSeq(es, 1, b)
      BY <1>5, <1>6, <1>7, <2>2, <3>2
    <3>6. b \in 0..m /\ b \in (1 - 1)..Len(es) /\ 1 \in 1..(Len(es) + 1)
      BY <1>2, <1>3, <3>4, <3>5
    <3>7. /\ us \in Seq(Entry) /\ Len(us) = b - 1 + 1
          /\ \A i \in 1..(b - 1 + 1) : us[i] = es[1 + i - 1]
      BY <3>5, <3>6, PartShape
    <3>8. b - 1 + 1 = b /\ \A i \in 1..b : 1 + i - 1 = i
      BY <3>6
    <3>9. ASSUME NEW i \in 1..m PROVE i <= b <=> es[i][1] <= high
      <4>1. es[i][1] \in Int /\ es[c][1] \in Int
        BY <1>3, <3>4
      <4>2. CASE i < c
        <5>1. i \notin past
          BY <1>3, <3>3, <3>4, <4>2
        <5>2. ~(es[i][1] > high)
          BY <1>1, <1>3, <5>1
        <5> QED  BY <3>4, <3>5, <4>1, <4>2, <5>2
      <4>3. CASE i >= c
        <5>1. i = c \/ es[c][1] < es[i][1]
          BY <1>4, <3>4, <4>3
        <5>2. es[i][1] > high
          BY <3>4, <4>1, <5>1
        <5> QED  BY <3>4, <3>5, <4>1, <4>3, <5>2
      <4> QED  BY <3>4, <4>2, <4>3
    <3> QED  BY <3>6, <3>7, <3>8, <3>9
  <2> QED  BY <2>1, <2>2
<1>9. \A i \in 1..b : i \in 1..m /\ i <= b
  BY <1>3, <1>8
<1>10. Ascending(us)
  BY <1>4, <1>8, <1>9 DEF Ascending
<1>11. ASSUME NEW i \in 1..Len(us)
       PROVE  us[i][1] \in Until(S, high) /\ us[i][1] \in DOMAIN st /\ us[i] = <<us[i][1], st[us[i][1]]>>
  <2>1. i \in 1..m /\ i <= b /\ us[i] = es[i]
    BY <1>8, <1>9
  <2> QED  BY <1>4, <1>8, <2>1 DEF Until
<1>12. ASSUME NEW k \in DOMAIN st, k \in Until(S, high) PROVE \E i \in 1..Len(us) : us[i][1] = k
  <2>1. k \in S /\ k <= high
    BY <1>12 DEF Until
  <2>2. PICK i \in 1..m : es[i][1] = k
    BY <1>4, <2>1
  <2>3. i \in 1..b
    BY <1>3, <1>8, <2>1, <2>2
  <2> QED  BY <1>8, <2>2, <2>3
<1> QED  BY <1>7, <1>8, <1>10, <1>11, <1>12 DEF Holds

(* The entries of us from the key `low` on, in their order. *)
Selected(rs, us, m, low) ==
  /\ rs \in Seq(Entry) /\ Ascending(rs)
  /\ \A j \in 1..Len(rs) : \E i \in 1..m : rs[j] = us[i] /\ low <= us[i][1]
  /\ \A i \in 1..m : low <= us[i][1] => \E j \in 1..Len(rs) : rs[j] = us[i]

LEMMA TakeOne ==
  ASSUME Parameters, NEW us \in Seq(Entry), Ascending(us), NEW low \in Int, NEW m \in 1..Len(us),
         NEW rs, Selected(rs, us, m - 1, low)
  PROVE  Selected(Taken(rs, us[m], low), us, m, low)
<1>1. /\ rs \in Seq(Entry) /\ Ascending(rs)
      /\ \A j \in 1..Len(rs) : \E i \in 1..(m - 1) : rs[j] = us[i] /\ low <= us[i][1]
      /\ \A i \in 1..(m - 1) : low <= us[i][1] => \E j \in 1..Len(rs) : rs[j] = us[i]
  BY DEF Selected
<1>2. PICK e : e = us[m]
  OBVIOUS
<1>3. e \in Entry
  BY <1>2, ElementOf
<1>4. \A i \in 1..m : i = m \/ i \in 1..(m - 1)
  OBVIOUS
<1>5. m \in 1..m /\ \A i \in 1..(m - 1) : i \in 1..m /\ i < m /\ i \in 1..Len(us)
  OBVIOUS
<1>6. PICK l : l = Len(rs)
  OBVIOUS
<1>7. l \in Nat
  BY <1>1, <1>6
<1>8. CASE low <= e[1]
  <2>1. PICK t : t = Append(rs, e)
    OBVIOUS
  <2>2. Taken(rs, us[m], low) = t
    BY <1>2, <1>8, <2>1 DEF Taken
  <2>3. /\ t \in Seq(Entry) /\ Len(t) = l + 1 /\ t[l + 1] = e
        /\ \A j \in 1..l : t[j] = rs[j]
    BY <1>1, <1>3, <1>6, <2>1
  <2>4. \A j \in 1..(l + 1) : j = l + 1 \/ j \in 1..l
    BY <1>7
  <2>5. l + 1 \in 1..(l + 1) /\ \A j \in 1..l : j \in 1..(l + 1)
    BY <1>7
  <2>6. ASSUME NEW i \in 1..(l + 1), NEW j \in 1..(l + 1), i < j PROVE t[i][1] < t[j][1]
    <3>1. i \in 1..l
      BY <1>7, <2>6
    <3>2. CASE j = l + 1
      <4>1. PICK x \in 1..(m - 1) : rs[i] = us[x]
        BY <1>1, <1>6, <3>1
      <4>2. us[x][1] < us[m][1]
        BY <1>5 DEF Ascending
      <4> QED  BY <1>2, <2>3, <3>1, <3>2, <4>1, <4>2
    <3>3. CASE j \in 1..l
      BY <1>1, <1>6, <2>3, <2>6, <3>1, <3>3 DEF Ascending
    <3> QED  BY <2>4, <3>2, <3>3
  <2>7. Ascending(t)
    BY <2>3, <2>6 DEF Ascending
  <2>8. ASSUME NEW j \in 1..(l + 1) PROVE \E i \in 1..m : t[j] = us[i] /\ low <= us[i][1]
    <3>1. CASE j = l + 1
      BY <1>2, <1>5, <1>8, <2>3, <3>1
    <3>2. CASE j \in 1..l
      <4>1. PICK i \in 1..(m - 1) : rs[j] = us[i] /\ low <= us[i][1]
        BY <1>1, <1>6, <3>2
      <4> QED  BY <1>5, <2>3, <3>2, <4>1
    <3> QED  BY <2>4, <3>1, <3>2
  <2>9. ASSUME NEW i \in 1..m, low <= us[i][1] PROVE \E j \in 1..(l + 1) : t[j] = us[i]
    <3>1. CASE i = m
      BY <1>2, <2>3, <2>5, <3>1
    <3>2. CASE i \in 1..(m - 1)
      <4>1. PICK j \in 1..l : rs[j] = us[i]
        BY <1>1, <1>6, <2>9, <3>2
      <4> QED  BY <2>3, <2>5, <4>1
    <3> QED  BY <1>4, <3>1, <3>2
  <2>10. PICK h : h = Len(t)
    OBVIOUS
  <2>11. h = l + 1
    BY <2>3, <2>10
  <2>12. \A j \in 1..h : \E i \in 1..m : t[j] = us[i] /\ low <= us[i][1]
    BY <2>8, <2>11
  <2>13. \A i \in 1..m : low <= us[i][1] => \E j \in 1..h : t[j] = us[i]
    BY <2>9, <2>11
  <2>14. Selected(t, us, m, low)
    BY <2>3, <2>7, <2>10, <2>12, <2>13 DEF Selected
  <2> QED  BY <2>2, <2>14
<1>9. CASE ~(low <= e[1])
  <2>1. Taken(rs, us[m], low) = rs
    BY <1>2, <1>9 DEF Taken
  <2>2. ASSUME NEW j \in 1..Len(rs) PROVE \E i \in 1..m : rs[j] = us[i] /\ low <= us[i][1]
    <3>1. PICK i \in 1..(m - 1) : rs[j] = us[i] /\ low <= us[i][1]
      BY <1>1
    <3> QED  BY <1>5, <3>1
  <2>3. ASSUME NEW i \in 1..m, low <= us[i][1] PROVE \E j \in 1..Len(rs) : rs[j] = us[i]
    <3>1. i \in 1..(m - 1)
      BY <1>2, <1>4, <1>9, <2>3
    <3> QED  BY <1>1, <2>3, <3>1
  <2> QED  BY <1>1, <2>1, <2>2, <2>3 DEF Selected
<1> QED  BY <1>8, <1>9

LEMMA FromSelects ==
  ASSUME Parameters, NEW us \in Seq(Entry), Ascending(us), NEW low \in Int
  PROVE  Selected(From(us, low), us, Len(us), low)
<1>1. PICK m \in Nat : m = Len(us)
  OBVIOUS
<1>2. PICK f : Taking(f, us, low, m) /\ From(us, low) = f[m]
  BY <1>1, FromIs
<1>3. f = [i \in 0..m |-> IF i = 0 THEN <<>> ELSE Taken(f[i - 1], us[i], low)]
  BY <1>2 DEF Taking
<1>4. f[0] = <<>> /\ \A i \in 1..m : f[i] = Taken(f[i - 1], us[i], low)
  <2>1. 0 \in 0..m /\ \A i \in 1..m : i \in 0..m /\ i # 0
    OBVIOUS
  <2> QED  BY <1>3, <2>1
<1>5. PICK G : G = {i \in 0..m : Selected(f[i], us, i, low)}
  OBVIOUS
<1>6. 0 \in G
  <2>1. PICK rs : rs = f[0]
    OBVIOUS
  <2>2. rs \in Seq(Entry) /\ Len(rs) = 0 /\ 1..0 = {}
    BY <1>4, <2>1
  <2>3. Ascending(rs)
    BY <2>2 DEF Ascending
  <2>4. Selected(rs, us, 0, low)
    BY <2>2, <2>3 DEF Selected
  <2>5. 0 \in 0..m
    OBVIOUS
  <2> QED  BY <1>5, <2>1, <2>4, <2>5
<1>7. ASSUME NEW i \in 1..m, i - 1 \in G PROVE i \in G
  <2>1. PICK rs : rs = f[i - 1]
    OBVIOUS
  <2>2. Selected(rs, us, i - 1, low)
    BY <1>5, <1>7, <2>1
  <2>3. i \in 1..Len(us) /\ i \in 0..m
    BY <1>1
  <2>4. Selected(Taken(rs, us[i], low), us, i, low)
    BY <2>2, <2>3, TakeOne
  <2>5. f[i] = Taken(rs, us[i], low)
    BY <1>4, <2>1
  <2> QED  BY <1>5, <2>3, <2>4, <2>5
<1>8. \A i \in 0..m : i \in G
  BY <1>6, <1>7, EveryRound
<1>9. m \in 0..m
  OBVIOUS
<1> QED  BY <1>1, <1>2, <1>5, <1>8, <1>9

(* What a range search of a tree returns. *)
InRange(st, low, high) == {<<k, st[k]>> : k \in {x \in DOMAIN st : low <= x /\ x <= high}}
RangeOf(rs, st, low, high) ==
  /\ \A i, j \in DOMAIN rs : i < j => rs[i][1] < rs[j][1]
  /\ ToSet(rs) = InRange(st, low, high)

LEMMA TreeRange ==
  ASSUME Parameters, NEW n, NEW L, NEW R, NEW st, DOMAIN st \subseteq Keys,
         IsTree(pages, n, L, R, st, NoPage, NoPage), NEW low \in Int, NEW high \in Int
  PROVE  RangeOf(RangeSearch(low, high), st, low, high)
<1>1. PICK p \in 1..(n - 1) :
        /\ Root # NoPage /\ LeafOf(low) = pages[p] /\ pages[p].leaf /\ low \in R[p]
  <2>1. PICK p \in 1..(n - 1) :
           /\ Route(Path(low), low, n, L, L[Root]) /\ L[Root] \in Nat /\ p = Path(low)[L[Root] + 1]
           /\ Root # NoPage
           /\ p = Last(Path(low)) /\ LeafOf(low) = pages[p] /\ pages[p].leaf /\ low \in R[p]
    BY LeafReached
  <2>2. pages[p].leaf
    BY <2>1
  <2> QED  BY <2>1, <2>2
<1>2. LeafOf(low).id = p
  <2>1. \A q \in 1..(n - 1) : q \in 0..(n - 1) /\ pages[q] \in NodeRecord /\ pages[q].id = q /\ R[q] # {} /\ Convex(R[q])
    BY TreeShape
  <2> QED  BY <1>1, <2>1
<1>3. PICK ids : ids = Chain(p)
  OBVIOUS
<1>4. pages[p].leaf /\ low \in R[p]
  BY <1>1
<1>5. Chained(ids, n, R, low) /\ AllFrom(ids, R, low)
  BY <1>3, <1>4, ChainReached
<1>6. PICK es : es = EntriesOf(ids)
  OBVIOUS
<1>7. PICK S : S = Covered(ids, R, Len(ids))
  OBVIOUS
<1>8. es \in Seq(Entry) /\ Holds(es, st, S)
  BY <1>5, <1>6, <1>7, ChainRead
<1>9. PICK us : us = UpTo(es, high)
  OBVIOUS
<1>10. us \in Seq(Entry) /\ Holds(us, st, Until(S, high))
  BY <1>8, <1>9, UpToHolds
<1>11. PICK rs : rs = From(us, low)
  OBVIOUS
<1>12. PICK m : m = Len(us)
  OBVIOUS
<1>13. Selected(rs, us, m, low)
  <2>1. Ascending(us)
    BY <1>10 DEF Holds
  <2> QED  BY <1>10, <1>11, <1>12, <2>1, FromSelects
<1>14. RangeSearch(low, high) = rs
  BY <1>1, <1>2, <1>3, <1>6, <1>9, <1>11 DEF RangeSearch
<1>15. /\ rs \in Seq(Entry) /\ Ascending(rs)
       /\ \A j \in 1..Len(rs) : \E i \in 1..m : rs[j] = us[i] /\ low <= us[i][1]
       /\ \A i \in 1..m : low <= us[i][1] => \E j \in 1..Len(rs) : rs[j] = us[i]
  BY <1>13 DEF Selected
<1>16. DOMAIN rs = 1..Len(rs)
  BY <1>15
<1>17. /\ \A i \in 1..m : /\ us[i][1] \in Until(S, high) /\ us[i][1] \in DOMAIN st
                          /\ us[i] = <<us[i][1], st[us[i][1]]>>
       /\ \A k \in DOMAIN st : k \in Until(S, high) => \E i \in 1..m : us[i][1] = k
  BY <1>10, <1>12 DEF Holds
<1>18. ASSUME NEW e \in ToSet(rs) PROVE e \in InRange(st, low, high)
  <2>1. PICK j \in 1..Len(rs) : e = rs[j]
    BY <1>16 DEF ToSet
  <2>2. PICK i \in 1..m : e = us[i] /\ low <= us[i][1]
    BY <1>15, <2>1
  <2>3. PICK k : k = us[i][1]
    OBVIOUS
  <2>4. k \in DOMAIN st /\ e = <<k, st[k]>> /\ low <= k /\ k <= high
    BY <1>17, <2>2, <2>3 DEF Until
  <2> QED  BY <2>4 DEF InRange
<1>19. ASSUME NEW e \in InRange(st, low, high) PROVE e \in ToSet(rs)
  <2>1. PICK k \in DOMAIN st : low <= k /\ k <= high /\ e = <<k, st[k]>>
    BY DEF InRange
  <2>2. k \in Int
    BY DEF Parameters
  <2>3. k \in S
    <3>1. \E i \in 1..Len(ids) : k \in R[ids[i]]
      BY <1>5, <2>1, <2>2 DEF AllFrom
    <3> QED  BY <1>7, <2>2, <3>1 DEF Covered
  <2>4. k \in Until(S, high)
    BY <2>1, <2>3 DEF Until
  <2>5. PICK i \in 1..m : us[i][1] = k
    BY <1>17, <2>4
  <2>6. us[i] = e /\ low <= us[i][1]
    BY <1>17, <2>1, <2>5
  <2>7. PICK j \in 1..Len(rs) : rs[j] = e
    BY <1>15, <2>6
  <2> QED  BY <1>16, <2>7 DEF ToSet
<1>20. ToSet(rs) = InRange(st, low, high)
  BY <1>18, <1>19
<1>21. \A i, j \in DOMAIN rs : i < j => rs[i][1] < rs[j][1]
  BY <1>15, <1>16 DEF Ascending
<1> QED  BY <1>14, <1>20, <1>21 DEF RangeOf

LEMMA SaysRangeExact ==
  ASSUME Parameters, TreeInv
  PROVE  RangeExact
<1>1. SUFFICES ASSUME AtRest, NEW low \in Keys, NEW high \in Keys
               PROVE  RangeOf(RangeSearch(low, high), stored, low, high)
  BY DEF RangeExact, RangeOf, InRange
<1>2. Stands(pages, stored) /\ low \in Int /\ high \in Int
  BY <1>1, FileAtRest DEF Parameters
<1>3. CASE pages[0].id = NoPage /\ DOMAIN stored = {}
  <2>1. PICK rs : rs = RangeSearch(low, high)
    OBVIOUS
  <2>2. rs = <<>>
    BY <1>3, <2>1 DEF RangeSearch, Root
  <2>3. DOMAIN rs = {} /\ ToSet(rs) = {}
    BY <2>2 DEF ToSet
  <2>4. InRange(stored, low, high) = {}
    BY <1>3 DEF InRange
  <2> QED  BY <2>1, <2>3, <2>4 DEF RangeOf
<1>4. CASE \E n, L, R : IsTree(pages, n, L, R, stored, NoPage, NoPage)
  <2>1. PICK n, L, R : IsTree(pages, n, L, R, stored, NoPage, NoPage)
    BY <1>4
  <2>2. DOMAIN stored \subseteq Keys
    BY <1>2 DEF Stands
  <2> QED  BY <1>2, <2>1, <2>2, TreeRange
<1> QED  BY <1>2, <1>3, <1>4 DEF Stands

-----------------------------------------------------------------------------
(* Whatever was torn: nodes that fit in a block, in files without a gap.   *)

(* A node at page p of a file of n pages.  The page of the root id names page
   0 as its child, and so does a page of zeros: no descent that meets them
   ends at a leaf.                                                          *)
OrNone(n) == (0..(n - 1)) \cup {NoPage}
NodeFits(node, p, n) ==
  /\ node \in NodeRecord
  /\ node.id \in OrNone(n) /\ node.next \in OrNone(n) /\ node.prev \in OrNone(n)
  /\ node.leaf => p # 0 /\ node.next # 0 /\ Len(node.entries) <= LeafCapacity
  /\ ~node.leaf => /\ Len(node.keys) <= InternalCapacity
                   /\ Len(node.children) = Len(node.keys) + 1
                   /\ \A i \in 1..Len(node.children) : node.children[i] \in 0..(n - 1)
  /\ p = 0 => node.children = <<0>>
  /\ p # 0 => node = Zero \/ node.id = p
FileFits(f, n) == IsFile(f, n) /\ \A p \in 0..(n - 1) : NodeFits(f[p], p, n)

LEMMA NodeFitsOn ==
  ASSUME NEW n \in Nat, NEW m \in Nat, n <= m, NEW node, NEW p, NodeFits(node, p, n)
  PROVE  NodeFits(node, p, m)
<1>1. \A x \in 0..(n - 1) : x \in 0..(m - 1)
  OBVIOUS
<1>2. \A x \in OrNone(n) : x \in OrNone(m)
  BY <1>1 DEF OrNone
<1> QED  BY <1>1, <1>2 DEF NodeFits

LEMMA ZeroFits ==
  ASSUME Parameters, NEW n \in Nat, n # 0, NEW p
  PROVE  NodeFits(Zero, p, n)
<1>1. Zero \in NodeRecord
  BY ZeroIsNode
<1>2. PICK z : z = Zero
  OBVIOUS
<1>3. z.id = 0 /\ z.leaf = FALSE /\ z.next = 0 /\ z.prev = 0 /\ z.keys = <<>> /\ z.children = <<0>>
  BY <1>2 DEF Zero, Node
<1>4. Len(<<>>) = 0 /\ Len(<<0>>) = 1 /\ 0 \in 0..(n - 1) /\ \A i \in 1..1 : <<0>>[i] = 0
  OBVIOUS
<1>5. 0 \in OrNone(n) /\ InternalCapacity \in Nat
  BY <1>4 DEF OrNone, Parameters
<1> QED  BY <1>1, <1>2, <1>3, <1>4, <1>5 DEF NodeFits

LEMMA MetaFits ==
  ASSUME Parameters, NEW n \in Nat, n # 0, NEW r \in OrNone(n)
  PROVE  NodeFits(Meta(r), 0, n)
<1>1. NodeFits(Zero, 0, n)
  BY ZeroFits
<1>2. r \in Int
  BY DEF OrNone, NoPage
<1>3. PICK z, y : z = Zero /\ y = [z EXCEPT !.id = r]
  OBVIOUS
<1>4. /\ y \in NodeRecord /\ y.id = r /\ y.leaf = z.leaf /\ y.next = z.next /\ y.prev = z.prev
      /\ y.keys = z.keys /\ y.children = z.children
  BY <1>1, <1>2, <1>3 DEF NodeFits, NodeRecord
<1>5. z.leaf = FALSE
  BY <1>3 DEF Zero, Node
<1>6. NodeFits(z, 0, n)
  BY <1>1, <1>3
<1>7. NodeFits(y, 0, n)
  BY <1>4, <1>5, <1>6 DEF NodeFits
<1> QED  BY <1>3, <1>7 DEF Meta

(* A write into a file of a pages, which has b pages then. *)
WriteFits(w, a, b) ==
  /\ b \in Nat /\ NodeFits(w[2], w[1], b)
  /\ (w[1] \in 0..(a - 1) /\ b = a) \/ (w[1] = a /\ b = a + 1)

LEMMA FileWritten ==
  ASSUME NEW f, NEW n, FileFits(f, n), NEW w, NEW b, WriteFits(w, n, b)
  PROVE  FileFits(With(f, w[1], w[2]), b)
<1>1. IsFile(f, n) /\ n \in Nat /\ \A q \in 0..(n - 1) : NodeFits(f[q], q, n)
  BY DEF FileFits, IsFile
<1>2. PICK p, node : p = w[1] /\ node = w[2]
  OBVIOUS
<1>3. /\ node \in NodeRecord /\ NodeFits(node, p, b) /\ (p = 0 => ~node.leaf)
      /\ (p \in 0..(n - 1) /\ b = n) \/ (p = n /\ b = n + 1)
  BY <1>2 DEF WriteFits, NodeFits
<1>4. PICK g : g = With(f, p, node)
  OBVIOUS
<1>5. CASE p \in 0..(n - 1) /\ b = n
  <2>1. Rewritten(f, g, n, p, node)
    BY <1>1, <1>3, <1>4, <1>5, WithinShape
  <2> QED  BY <1>1, <1>2, <1>3, <1>4, <1>5, <2>1 DEF Rewritten, FileFits
<1>6. CASE p = n /\ b = n + 1
  <2>1. Extended(f, g, n, node)
    BY <1>1, <1>3, <1>4, <1>6, BeyondShape
  <2>2. n <= n + 1 /\ n + 1 \in Nat /\ \A q \in 0..((n + 1) - 1) : q = n \/ q \in 0..(n - 1)
    BY <1>1
  <2>3. \A q \in 0..(n - 1) : NodeFits(f[q], q, n + 1)
    BY <1>1, <2>2, NodeFitsOn
  <2>4. IsFile(g, n + 1) /\ \A q \in 0..((n + 1) - 1) : NodeFits(g[q], q, n + 1)
    BY <1>3, <1>6, <2>1, <2>2, <2>3 DEF Extended
  <2> QED  BY <1>2, <1>4, <1>6, <2>4 DEF FileFits
<1> QED  BY <1>3, <1>5, <1>6

-----------------------------------------------------------------------------
(* Writes that take a file of n pages to one of m.                         *)

Sizes(s, ws, n, m) ==
  /\ DOMAIN s = 0..Len(ws) /\ s[0] = n /\ s[Len(ws)] = m
  /\ \A i \in 1..Len(ws) : WriteFits(ws[i], s[i - 1], s[i])
Grows(ws, n, m) ==
  /\ ws \in Seq(Write) /\ n \in Nat /\ m \in Nat /\ n <= m
  /\ \E s : Sizes(s, ws, n, m)

LEMMA GrowsByNone ==
  ASSUME NEW n \in Nat
  PROVE  Grows(<<>>, n, n)
<1>1. PICK s : s = [i \in 0..0 |-> n]
  OBVIOUS
<1>2. <<>> \in Seq(Write) /\ Len(<<>>) = 0 /\ 1..0 = {} /\ DOMAIN s = 0..0 /\ s[0] = n
  BY <1>1
<1>3. Sizes(s, <<>>, n, n)
  BY <1>2 DEF Sizes
<1> QED  BY <1>2, <1>3 DEF Grows

LEMMA GrowsByOne ==
  ASSUME NEW n \in Nat, NEW m, NEW p \in Int, NEW node, WriteFits(<<p, node>>, n, m)
  PROVE  Grows(<<<<p, node>>>>, n, m)
<1>1. PICK w : w = <<p, node>>
  OBVIOUS
<1>2. WriteFits(w, n, m) /\ w[1] = p /\ w[2] = node
  BY <1>1
<1>3. m \in Nat /\ n <= m /\ node \in NodeRecord
  BY <1>2 DEF WriteFits, NodeFits
<1>4. w \in Write
  BY <1>1, <1>3 DEF Write
<1>5. PICK ws : ws = <<w>>
  OBVIOUS
<1>6. ws \in Seq(Write) /\ Len(ws) = 1 /\ ws[1] = w
  BY <1>4, <1>5
<1>7. PICK s : s = [i \in 0..1 |-> IF i = 0 THEN n ELSE m]
  OBVIOUS
<1>8. DOMAIN s = 0..1 /\ s[0] = n /\ s[1] = m
  BY <1>7
<1>9. \A i \in 1..1 : i = 1 /\ i - 1 = 0
  OBVIOUS
<1>10. Sizes(s, ws, n, m)
  BY <1>2, <1>6, <1>8, <1>9 DEF Sizes
<1> QED  BY <1>1, <1>3, <1>5, <1>6, <1>10 DEF Grows

LEMMA GrowsByBoth ==
  ASSUME NEW v, NEW n, NEW m, Grows(v, n, m), NEW w, NEW l, Grows(w, m, l)
  PROVE  Grows(v \o w, n, l)
<1>1. /\ v \in Seq(Write) /\ w \in Seq(Write) /\ n \in Nat /\ m \in Nat /\ l \in Nat
      /\ n <= m /\ m <= l /\ n <= l
  BY DEF Grows
<1>2. PICK a : Sizes(a, v, n, m)
  BY DEF Grows
<1>3. PICK b : Sizes(b, w, m, l)
  BY DEF Grows
<1>4. PICK x \in Nat, y \in Nat : x = Len(v) /\ y = Len(w)
  BY <1>1
<1>5. a[0] = n /\ a[x] = m /\ \A i \in 1..x : WriteFits(v[i], a[i - 1], a[i])
  BY <1>2, <1>4 DEF Sizes
<1>6. b[0] = m /\ b[y] = l /\ \A i \in 1..y : WriteFits(w[i], b[i - 1], b[i])
  BY <1>3, <1>4 DEF Sizes
<1>7. PICK ws : ws = v \o w
  OBVIOUS
<1>8. /\ ws \in Seq(Write) /\ Len(ws) = x + y
      /\ \A i \in 1..x : ws[i] = v[i]
      /\ \A j \in 1..y : ws[x + j] = w[j]
  BY <1>1, <1>4, <1>7, Joined
<1>9. PICK s : s = [i \in 0..(x + y) |-> IF i <= x THEN a[i] ELSE b[i - x]]
  OBVIOUS
<1>10. DOMAIN s = 0..(x + y) /\ \A i \in 0..x : s[i] = a[i]
  BY <1>9
<1>11. \A j \in 0..y : s[x + j] = b[j]
  <2>1. ASSUME NEW j \in 1..y PROVE s[x + j] = b[j]
    <3>1. x + j \in 0..(x + y) /\ ~(x + j <= x) /\ (x + j) - x = j
      OBVIOUS
    <3> QED  BY <1>9, <3>1
  <2>2. s[x + 0] = b[0]
    <3>1. x + 0 = x /\ x \in 0..x
      OBVIOUS
    <3> QED  BY <1>5, <1>6, <1>10, <3>1
  <2>3. \A j \in 0..y : j = 0 \/ j \in 1..y
    OBVIOUS
  <2> QED  BY <2>1, <2>2, <2>3
<1>12. ASSUME NEW i \in 1..(x + y) PROVE WriteFits(ws[i], s[i - 1], s[i])
  <2>1. CASE i <= x
    <3>1. i \in 1..x /\ i \in 0..x /\ i - 1 \in 0..x
      BY <2>1
    <3> QED  BY <1>5, <1>8, <1>10, <3>1
  <2>2. CASE ~(i <= x)
    <3>1. PICK j : j = i - x
      OBVIOUS
    <3>2. j \in 1..y /\ j \in 0..y /\ j - 1 \in 0..y /\ i = x + j /\ i - 1 = x + (j - 1)
      BY <2>2, <3>1
    <3>3. s[i] = b[j] /\ s[i - 1] = b[j - 1] /\ ws[i] = w[j]
      BY <1>8, <1>11, <3>2
    <3> QED  BY <1>6, <3>2, <3>3
  <2> QED  BY <2>1, <2>2
<1>13. s[0] = n /\ s[x + y] = l
  <2>1. 0 \in 0..x /\ y \in 0..y
    OBVIOUS
  <2> QED  BY <1>5, <1>6, <1>10, <1>11, <2>1
<1>14. Sizes(s, ws, n, l)
  BY <1>8, <1>10, <1>12, <1>13 DEF Sizes
<1> QED  BY <1>1, <1>7, <1>8, <1>14 DEF Grows

(* What is left after the first of the writes. *)
LEMMA GrowsOn ==
  ASSUME NEW ws, NEW n, NEW m, Grows(ws, n, m), ws # <<>>
  PROVE  \E b : WriteFits(Head(ws), n, b) /\ Grows(Tail(ws), b, m)
<1>1. ws \in Seq(Write) /\ n \in Nat /\ m \in Nat
  BY DEF Grows
<1>2. PICK s : Sizes(s, ws, n, m)
  BY DEF Grows
<1>3. PICK x \in Nat : x = Len(ws)
  BY <1>1
<1>4. PICK t : t = Tail(ws)
  OBVIOUS
<1>5. /\ x # 0 /\ Head(ws) = ws[1] /\ t \in Seq(Write) /\ Len(t) = x - 1
      /\ \A i \in 1..(x - 1) : t[i] = ws[i + 1]
  BY <1>1, <1>3, <1>4
<1>6. s[0] = n /\ s[x] = m /\ \A i \in 1..x : WriteFits(ws[i], s[i - 1], s[i])
  BY <1>2, <1>3 DEF Sizes
<1>7. \A i \in 1..x : s[i] \in Nat
  BY <1>6 DEF WriteFits
<1>8. WriteFits(ws[1], n, s[1]) /\ s[1] \in Nat
  <2>1. 1 \in 1..x /\ 1 - 1 = 0
    BY <1>5
  <2>2. WriteFits(ws[1], s[1 - 1], s[1])
    BY <1>6, <2>1
  <2> QED  BY <1>6, <1>7, <2>1, <2>2
<1>9. PICK b : b = s[1]
  OBVIOUS
<1>10. b <= m
  <2>1. PICK G : G = {i \in 0..(x - 1) : b <= s[i + 1]}
    OBVIOUS
  <2>2. 0 \in G
    <3>1. 0 + 1 = 1 /\ 0 \in 0..(x - 1)
      BY <1>5
    <3> QED  BY <1>8, <1>9, <2>1, <3>1
  <2>3. ASSUME NEW i \in 1..(x - 1), i - 1 \in G PROVE i \in G
    <3>1. i \in 1..x /\ i + 1 \in 1..x /\ (i + 1) - 1 = i /\ (i - 1) + 1 = i /\ i \in 0..(x - 1)
      OBVIOUS
    <3>2. b <= s[i] /\ s[i] \in Nat /\ s[i + 1] \in Nat
      BY <1>7, <2>1, <2>3, <3>1
    <3>3. WriteFits(ws[i + 1], s[i], s[i + 1])
      BY <1>6, <3>1
    <3>4. s[i] <= s[i + 1]
      BY <3>2, <3>3 DEF WriteFits
    <3>5. b <= s[i + 1]
      BY <1>8, <1>9, <3>2, <3>4
    <3> QED  BY <2>1, <3>1, <3>5
  <2>4. x - 1 \in Nat /\ x - 1 \in 0..(x - 1) /\ (x - 1) + 1 = x
    BY <1>5
  <2>5. \A i \in 0..(x - 1) : i \in G
    BY <2>2, <2>3, <2>4, EveryRound
  <2>6. b <= s[(x - 1) + 1]
    BY <2>1, <2>4, <2>5
  <2> QED  BY <1>6, <2>4, <2>6
<1>11. PICK r : r = [i \in 0..(x - 1) |-> s[i + 1]]
  OBVIOUS
<1>12. DOMAIN r = 0..(x - 1) /\ r[0] = b /\ r[x - 1] = m
  <2>1. 0 \in 0..(x - 1) /\ 0 + 1 = 1 /\ x - 1 \in 0..(x - 1) /\ (x - 1) + 1 = x
    BY <1>5
  <2> QED  BY <1>6, <1>9, <1>11, <2>1
<1>13. ASSUME NEW i \in 1..(x - 1) PROVE WriteFits(t[i], r[i - 1], r[i])
  <2>1. i + 1 \in 1..x /\ (i + 1) - 1 = i /\ (i - 1) + 1 = i /\ i \in 0..(x - 1) /\ i - 1 \in 0..(x - 1)
    OBVIOUS
  <2>2. r[i - 1] = s[i] /\ r[i] = s[i + 1] /\ t[i] = ws[i + 1]
    BY <1>5, <1>11, <2>1
  <2> QED  BY <1>6, <2>1, <2>2
<1>14. Sizes(r, t, b, m)
  BY <1>5, <1>12, <1>13 DEF Sizes
<1>15. Grows(t, b, m)
  BY <1>1, <1>5, <1>8, <1>9, <1>10, <1>14 DEF Grows
<1> QED  BY <1>4, <1>5, <1>8, <1>9, <1>15

LEMMA SameSequence ==
  ASSUME NEW S, NEW s \in Seq(S), NEW t \in Seq(S), Len(s) = Len(t), \A i \in 1..Len(s) : s[i] = t[i]
  PROVE  s = t
OBVIOUS

LEMMA PairJoined ==
  ASSUME NEW S, NEW a \in S, NEW b \in S
  PROVE  <<a>> \o <<b>> = <<a, b>>
<1>1. PICK s, t, v, u : s = <<a>> /\ t = <<b>> /\ v = s \o t /\ u = <<a, b>>
  OBVIOUS
<1>2. s \in Seq(S) /\ t \in Seq(S) /\ Len(s) = 1 /\ Len(t) = 1 /\ s[1] = a /\ t[1] = b
  BY <1>1
<1>3. u \in Seq(S) /\ Len(u) = 2 /\ u[1] = a /\ u[2] = b
  BY <1>1
<1>4. /\ v \in Seq(S) /\ Len(v) = Len(s) + Len(t)
      /\ \A i \in 1..Len(s) : v[i] = s[i]
      /\ \A i \in 1..Len(t) : v[Len(s) + i] = t[i]
  BY <1>1, <1>2, Joined
<1>5. 1 \in 1..1 /\ 1 + 1 = 2 /\ \A i \in 1..2 : i = 1 \/ i = 2
  OBVIOUS
<1>6. v[1] = a /\ v[2] = b /\ Len(v) = 2
  BY <1>2, <1>4, <1>5
<1>7. \A i \in 1..Len(v) : v[i] = u[i]
  BY <1>3, <1>5, <1>6
<1>8. v = u
  BY <1>3, <1>4, <1>6, <1>7, SameSequence
<1> QED  BY <1>1, <1>8

LEMMA TripleJoined ==
  ASSUME NEW S, NEW a \in S, NEW b \in S, NEW c \in S
  PROVE  <<a, b>> \o <<c>> = <<a, b, c>>
<1>1. PICK s, t, v, u : s = <<a, b>> /\ t = <<c>> /\ v = s \o t /\ u = <<a, b, c>>
  OBVIOUS
<1>2. s \in Seq(S) /\ t \in Seq(S) /\ Len(s) = 2 /\ Len(t) = 1 /\ s[1] = a /\ s[2] = b /\ t[1] = c
  BY <1>1
<1>3. u \in Seq(S) /\ Len(u) = 3 /\ u[1] = a /\ u[2] = b /\ u[3] = c
  BY <1>1
<1>4. /\ v \in Seq(S) /\ Len(v) = Len(s) + Len(t)
      /\ \A i \in 1..Len(s) : v[i] = s[i]
      /\ \A i \in 1..Len(t) : v[Len(s) + i] = t[i]
  BY <1>1, <1>2, Joined
<1>5. 1 \in 1..2 /\ 2 \in 1..2 /\ 1 \in 1..1 /\ 2 + 1 = 3 /\ \A i \in 1..3 : i = 1 \/ i = 2 \/ i = 3
  OBVIOUS
<1>6. v[1] = a /\ v[2] = b /\ v[3] = c /\ Len(v) = 3
  BY <1>2, <1>4, <1>5
<1>7. \A i \in 1..Len(v) : v[i] = u[i]
  BY <1>3, <1>5, <1>6
<1>8. v = u
  BY <1>3, <1>4, <1>6, <1>7, SameSequence
<1> QED  BY <1>1, <1>8

LEMMA OfOneWrite ==
  ASSUME NEW w, NEW n, NEW m, Grows(<<w>>, n, m)
  PROVE  w \in Write
<1>1. PICK s : s = <<w>>
  OBVIOUS
<1>2. s \in Seq(Write) /\ Len(s) = 1 /\ s[1] = w
  BY <1>1 DEF Grows
<1>3. 1 \in 1..Len(s)
  BY <1>2
<1> QED  BY <1>2, <1>3, ElementOf

LEMMA GrowsByOneMore ==
  ASSUME NEW v, NEW n, NEW m, Grows(v, n, m), NEW w, NEW l, Grows(<<w>>, m, l)
  PROVE  Grows(Append(v, w), n, l)
<1>1. w \in Write /\ v \in Seq(Write)
  BY OfOneWrite DEF Grows
<1>2. Append(v, w) = v \o <<w>>
  BY <1>1
<1>3. Grows(v \o <<w>>, n, l)
  BY GrowsByBoth
<1> QED  BY <1>2, <1>3

LEMMA GrowsByTwo ==
  ASSUME NEW a, NEW n, NEW m, Grows(<<a>>, n, m), NEW b, NEW l, Grows(<<b>>, m, l)
  PROVE  Grows(<<a, b>>, n, l)
<1>1. Grows(<<a>> \o <<b>>, n, l)
  BY GrowsByBoth
<1>2. a \in Write /\ b \in Write
  BY OfOneWrite
<1>3. <<a>> \o <<b>> = <<a, b>>
  BY <1>2, PairJoined
<1> QED  BY <1>1, <1>3

LEMMA GrowsByThree ==
  ASSUME NEW a, NEW n, NEW m, Grows(<<a>>, n, m), NEW b, NEW l, Grows(<<b>>, m, l),
         NEW c, NEW x, Grows(<<c>>, l, x)
  PROVE  Grows(<<a, b, c>>, n, x)
<1>1. Grows(<<a, b>>, n, l)
  BY GrowsByTwo
<1>2. Grows(<<a, b>> \o <<c>>, n, x)
  BY <1>1, GrowsByBoth
<1>3. a \in Write /\ b \in Write /\ c \in Write
  BY OfOneWrite
<1>4. <<a, b>> \o <<c>> = <<a, b, c>>
  BY <1>3, TripleJoined
<1> QED  BY <1>2, <1>4

LEMMA AllocationGrows ==
  ASSUME Parameters, NEW n \in Nat
  PROVE  Grows(<<Allocated(n)>>, n, n + 1)
<1>1. NodeFits(Zero, n, n + 1)
  BY ZeroFits
<1>2. WriteFits(<<n, Zero>>, n, n + 1)
  BY <1>1 DEF WriteFits
<1>3. Grows(<<<<n, Zero>>>>, n, n + 1)
  BY <1>2, GrowsByOne
<1> QED  BY <1>3 DEF Allocated

LEMMA WriteGrows ==
  ASSUME NEW n \in Nat, NEW p \in 0..(n - 1), NEW node, NodeFits(node, p, n)
  PROVE  Grows(<<<<p, node>>>>, n, n)
<1>1. WriteFits(<<p, node>>, n, n)
  BY DEF WriteFits
<1> QED  BY <1>1, GrowsByOne

LEMMA NodeGrows ==
  ASSUME NEW n \in Nat, NEW node, NEW p \in 0..(n - 1), node.id = p, NodeFits(node, p, n)
  PROVE  Grows(<<Written(node)>>, n, n)
<1>1. Grows(<<<<p, node>>>>, n, n)
  BY WriteGrows
<1> QED  BY <1>1 DEF Written

-----------------------------------------------------------------------------
(* Descents in such a file.                                                *)

(* Page 0 and the pages of zeros lead to page 0. *)
Lost(p) == p = 0 \/ pages[p] = Zero
Way(ids, n) ==
  /\ ids \in Seq(0..(n - 1)) /\ Len(ids) # 0
  /\ \A i \in 1..(Len(ids) - 1) : ~pages[ids[i]].leaf
  /\ \A i \in 1..Len(ids) : Lost(ids[i]) => Lost(ids[Len(ids)])

LEMMA LostIsNoLeaf ==
  ASSUME NEW n, FileFits(pages, n), NEW p \in 0..(n - 1), Lost(p)
  PROVE  ~pages[p].leaf /\ pages[p].children = <<0>>
<1>1. NodeFits(pages[p], p, n)
  BY DEF FileFits
<1>2. Zero.leaf = FALSE /\ Zero.children = <<0>>
  BY DEF Zero, Node
<1> QED  BY <1>1, <1>2 DEF Lost, NodeFits

LEMMA WayDown ==
  ASSUME Parameters, NEW n \in Nat, FileFits(pages, n), NEW k \in Int, NEW ids, Way(ids, n)
  PROVE  Way(Down(ids, k), n)
<1>1. PICK m \in Nat : m = Len(ids)
  BY DEF Way
<1>2. /\ ids \in Seq(0..(n - 1)) /\ m # 0
      /\ \A i \in 1..(m - 1) : ~pages[ids[i]].leaf
      /\ \A i \in 1..m : Lost(ids[i]) => Lost(ids[m])
  BY <1>1 DEF Way
<1>3. PICK p : p = ids[m]
  OBVIOUS
<1>4. m \in 1..m /\ p \in 0..(n - 1) /\ Last(ids) = p
  <2>1. m \in 1..m
    BY <1>2
  <2>2. p \in 0..(n - 1)
    BY <1>1, <1>2, <1>3, <2>1, ElementOf
  <2> QED  BY <1>1, <1>3, <2>1, <2>2, LastOf
<1>5. PICK node : node = pages[p]
  OBVIOUS
<1>6. NodeFits(node, p, n)
  BY <1>4, <1>5 DEF FileFits
<1>7. CASE node.leaf
  <2>1. Down(ids, k) = ids
    BY <1>4, <1>5, <1>7 DEF Down
  <2> QED  BY <2>1
<1>8. CASE ~node.leaf
  <2>1. PICK c : c = node.children[ChildIndex(node, k)]
    OBVIOUS
  <2>2. /\ node \in NodeRecord /\ Len(node.children) = Len(node.keys) + 1
        /\ \A i \in 1..Len(node.children) : node.children[i] \in 0..(n - 1)
    BY <1>6, <1>8 DEF NodeFits
  <2>3. ChildIndex(node, k) \in 1..Len(node.children)
    BY <2>2, ChildTaken
  <2>4. c \in 0..(n - 1)
    BY <2>1, <2>2, <2>3
  <2>5. Lost(p) => Lost(c)
    <3>1. SUFFICES ASSUME Lost(p) PROVE Lost(c)
      OBVIOUS
    <3>2. node.children = <<0>>
      BY <1>4, <1>5, <3>1, LostIsNoLeaf
    <3>3. PICK j : j = ChildIndex(node, k)
      OBVIOUS
    <3>4. PICK cs : cs = node.children
      OBVIOUS
    <3>5. cs = <<0>> /\ j \in 1..Len(cs) /\ c = cs[j]
      BY <2>1, <2>3, <3>2, <3>3, <3>4
    <3>6. c = 0
      BY <3>5
    <3> QED  BY <3>6 DEF Lost
  <2>6. PICK t : t = Append(ids, c)
    OBVIOUS
  <2>7. Down(ids, k) = t
    BY <1>4, <1>5, <1>8, <2>1, <2>6 DEF Down
  <2>8. /\ t \in Seq(0..(n - 1)) /\ Len(t) = m + 1 /\ t[m + 1] = c
        /\ \A i \in 1..m : t[i] = ids[i]
    BY <1>1, <1>2, <2>4, <2>6
  <2>9. ASSUME NEW i \in 1..((m + 1) - 1) PROVE ~pages[t[i]].leaf
    <3>1. i \in 1..m /\ (i = m \/ i \in 1..(m - 1))
      BY <1>2
    <3> QED  BY <1>2, <1>3, <1>5, <1>8, <2>8, <3>1
  <2>10. ASSUME NEW i \in 1..(m + 1), Lost(t[i]) PROVE Lost(t[m + 1])
    <3>1. i = m + 1 \/ i \in 1..m
      OBVIOUS
    <3> QED  BY <1>2, <1>3, <2>5, <2>8, <2>10, <3>1
  <2>11. m + 1 # 0
    OBVIOUS
  <2>12. Way(t, n)
    BY <2>8, <2>9, <2>10, <2>11 DEF Way
  <2> QED  BY <2>7, <2>12
<1> QED  BY <1>7, <1>8

LEMMA PathIsWay ==
  ASSUME Parameters, NEW n \in Nat, n # 0, FileFits(pages, n), Root # NoPage, NEW k \in Int
  PROVE  Way(Path(k), n)
<1>1. Root \in 0..(n - 1)
  <2>1. 0 \in 0..(n - 1)
    OBVIOUS
  <2>2. NodeFits(pages[0], 0, n)
    BY <2>1 DEF FileFits
  <2> QED  BY <2>2 DEF NodeFits, OrNone, Root
<1>2. NextPage = n
  BY FileSize DEF NextPage, FileFits
<1>3. PICK S : S = {ids \in Seq(0..(n - 1)) : Way(ids, n)}
  OBVIOUS
<1>4. PICK b : b = <<Root>>
  OBVIOUS
<1>5. b \in S
  <2>1. b \in Seq(0..(n - 1)) /\ Len(b) = 1
    BY <1>1, <1>4
  <2>2. 1..(1 - 1) = {} /\ \A i \in 1..1 : i = 1
    OBVIOUS
  <2>3. Way(b, n)
    BY <2>1, <2>2 DEF Way
  <2> QED  BY <1>3, <2>1, <2>3
<1>6. ASSUME NEW ids \in S PROVE Down(ids, k) \in S
  <2>1. Way(ids, n)
    BY <1>3, <1>6
  <2>2. Way(Down(ids, k), n)
    BY <2>1, WayDown
  <2>3. Down(ids, k) \in Seq(0..(n - 1))
    BY <2>2 DEF Way
  <2> QED  BY <1>3, <2>2, <2>3
<1>7. PICK step : step = [i \in 1..n |-> [ids \in S |-> Down(ids, k)]]
  OBVIOUS
<1>8. step \in [1..n -> [S -> S]]
  BY <1>6, <1>7
<1>9. PICK a : Loops(a, n, S, b, step)
  BY <1>5, <1>8, LoopRuns
<1>10. a \in [0..n -> S] /\ a[0] = b /\ \A i \in 1..n : a[i] = step[i][a[i - 1]]
  BY <1>9 DEF Loops
<1>11. \A i \in 1..n : a[i] = Down(a[i - 1], k)
  <2>1. ASSUME NEW i \in 1..n PROVE a[i] = Down(a[i - 1], k)
    <3>1. i - 1 \in 0..n
      OBVIOUS
    <3>2. a[i - 1] \in S
      BY <1>10, <3>1
    <3> QED  BY <1>7, <1>10, <3>2
  <2> QED  BY <2>1
<1>12. a = [i \in 0..n |-> IF i = 0 THEN <<Root>> ELSE Down(a[i - 1], k)]
  <2>1. \A i \in 0..n : i = 0 \/ (i # 0 /\ i \in 1..n)
    OBVIOUS
  <2>2. \A i \in 0..n : a[i] = IF i = 0 THEN <<Root>> ELSE Down(a[i - 1], k)
    BY <1>4, <1>10, <1>11, <2>1
  <2> QED  BY <1>10, <2>2
<1> DEFINE after == CHOOSE g : g = [i \in 0..n |-> IF i = 0 THEN <<Root>> ELSE Down(g[i - 1], k)]
<1>13. Path(k) = after[n]
  BY <1>2 DEF Path
<1>14. after = [i \in 0..n |-> IF i = 0 THEN <<Root>> ELSE Down(after[i - 1], k)]
  BY <1>12
<1> HIDE DEF after
<1>15. PICK g : g = after
  OBVIOUS
<1>16. g[0] = b /\ \A i \in 1..n : g[i] = Down(g[i - 1], k)
  <2>1. 0 \in 0..n /\ \A i \in 1..n : i \in 0..n /\ i # 0
    OBVIOUS
  <2> QED  BY <1>4, <1>14, <1>15, <2>1
<1>17. PICK G : G = {i \in 0..n : g[i] \in S}
  OBVIOUS
<1>18. 0 \in G
  <2>1. 0 \in 0..n
    OBVIOUS
  <2> QED  BY <1>5, <1>16, <1>17, <2>1
<1>19. ASSUME NEW i \in 1..n, i - 1 \in G PROVE i \in G
  <2>1. g[i] = Down(g[i - 1], k) /\ g[i - 1] \in S /\ i \in 0..n
    BY <1>16, <1>17, <1>19
  <2> QED  BY <1>6, <1>17, <2>1
<1>20. \A i \in 0..n : i \in G
  BY <1>18, <1>19, EveryRound
<1>21. n \in 0..n
  OBVIOUS
<1>22. g[n] \in S
  BY <1>17, <1>20, <1>21
<1> QED  BY <1>3, <1>13, <1>15, <1>22

(* A descent that ends at a leaf passes through pages that have their own numbers. *)
LeadsDown(path, n) ==
  /\ path \in Seq(0..(n - 1)) /\ Len(path) # 0
  /\ \A i \in 1..Len(path) : path[i] \in 1..(n - 1) /\ pages[path[i]].id = path[i]
  /\ \A i \in 1..(Len(path) - 1) : ~pages[path[i]].leaf
  /\ pages[path[Len(path)]].leaf

LEMMA PathToLeaf ==
  ASSUME Parameters, NEW n \in Nat, n # 0, FileFits(pages, n), Root # NoPage, NEW k \in Int, LeafOf(k).leaf
  PROVE  LeadsDown(Path(k), n)
<1>1. PICK path : path = Path(k)
  OBVIOUS
<1>2. Way(path, n)
  BY <1>1, PathIsWay
<1>3. PICK m \in Nat : m = Len(path)
  BY <1>2 DEF Way
<1>4. /\ path \in Seq(0..(n - 1)) /\ m # 0
      /\ \A i \in 1..(m - 1) : ~pages[path[i]].leaf
      /\ \A i \in 1..m : Lost(path[i]) => Lost(path[m])
  BY <1>2, <1>3 DEF Way
<1>5. Last(path) = path[m] /\ m \in 1..m
  BY <1>3, <1>4, LastOf
<1>6. pages[path[m]].leaf
  BY <1>1, <1>5 DEF LeafOf
<1>7. path[m] \in 0..(n - 1)
  BY <1>3, <1>4, <1>5, ElementOf
<1>8. ~Lost(path[m])
  BY <1>6, <1>7, LostIsNoLeaf
<1>9. ASSUME NEW i \in 1..m PROVE path[i] \in 1..(n - 1) /\ pages[path[i]].id = path[i]
  <2>1. PICK p : p = path[i]
    OBVIOUS
  <2>2. p \in 0..(n - 1)
    BY <1>3, <1>4, <2>1, ElementOf
  <2>3. p # 0 /\ pages[p] # Zero
    BY <1>4, <1>8, <2>1 DEF Lost
  <2>4. NodeFits(pages[p], p, n)
    BY <2>2 DEF FileFits
  <2> QED  BY <2>1, <2>2, <2>3, <2>4 DEF NodeFits
<1> QED  BY <1>1, <1>3, <1>4, <1>6, <1>9 DEF LeadsDown

-----------------------------------------------------------------------------
(* The writes of an insert, as far as pages go.                            *)

LEMMA BeforeBound ==
  ASSUME NEW es \in Seq(Entry), NEW k
  PROVE  Before(es, k) + 1 \in 1..(Len(es) + 1)
<1>1. PICK n \in Nat : n = Len(es)
  OBVIOUS
<1>2. PICK D : D = {i \in DOMAIN es : es[i][1] < k}
  OBVIOUS
<1>3. D \subseteq 1..n /\ IsFiniteSet(1..n) /\ Cardinality(1..n) = n
  <2>1. Cardinality(1..n) = n /\ IsFiniteSet(1..n)
    BY FS_Interval
  <2> QED  BY <1>1, <1>2, <2>1
<1>4. IsFiniteSet(D) /\ Cardinality(D) <= n
  BY <1>3, FS_Subset
<1>5. Cardinality(D) \in Nat
  BY <1>4, FS_CardinalityType
<1>6. Before(es, k) = Cardinality(D)
  BY <1>2 DEF Before
<1> QED  BY <1>1, <1>4, <1>5, <1>6

(* What the insert of one level hands to the level above. *)
HandsFit(below, n) ==
  /\ Grows(below.writes, n, below.next)
  /\ \/ below.split = FALSE
     \/ below.split = TRUE /\ below.key \in Keys /\ below.new \in 0..(below.next - 1)

LEMMA NeighbourGrows ==
  ASSUME NEW n \in Nat, n # 0, FileFits(pages, n), NEW p \in 1..(n - 1), pages[p].leaf
  PROVE  Grows(NeighbourWrite(pages[p], n), n + 1, n + 1)
<1>1. PICK nx : nx = pages[p].next
  OBVIOUS
<1>2. nx \in OrNone(n) /\ nx # 0
  <2>1. p \in 0..(n - 1)
    OBVIOUS
  <2>2. NodeFits(pages[p], p, n)
    BY <2>1 DEF FileFits
  <2> QED  BY <1>1, <2>2 DEF NodeFits
<1>3. CASE nx = NoPage
  <2>1. NeighbourWrite(pages[p], n) = <<>>
    BY <1>1, <1>3 DEF NeighbourWrite
  <2> QED  BY <2>1, GrowsByNone
<1>4. CASE nx # NoPage
  <2>1. nx \in 1..(n - 1) /\ nx \in 0..(n - 1)
    BY <1>2, <1>4 DEF OrNone
  <2>2. PICK old : old = pages[nx]
    OBVIOUS
  <2>3. NodeFits(old, nx, n)
    BY <2>1, <2>2 DEF FileFits
  <2>4. PICK q : q = old.id
    OBVIOUS
  <2>5. q = nx \/ (q = 0 /\ old = Zero)
    <3>1. Zero.id = 0
      BY DEF Zero, Node
    <3> QED  BY <2>1, <2>3, <2>4, <3>1 DEF NodeFits
  <2>6. PICK node : node = [old EXCEPT !.prev = n]
    OBVIOUS
  <2>7. old \in NodeRecord /\ n \in Int
    BY <2>3 DEF NodeFits
  <2>8. /\ node \in NodeRecord /\ node.id = q /\ node.leaf = old.leaf /\ node.next = old.next /\ node.prev = n
        /\ node.keys = old.keys /\ node.children = old.children /\ node.entries = old.entries
    BY <2>4, <2>6, <2>7 DEF NodeRecord
  <2>9. NodeFits(old, q, n)
    <3>1. CASE q = nx
      BY <2>3, <3>1
    <3>2. CASE q = 0 /\ old = Zero
      <4>1. Zero.children = <<0>> /\ Zero.leaf = FALSE
        BY DEF Zero, Node
      <4> QED  BY <2>3, <3>2, <4>1 DEF NodeFits
    <3> QED  BY <2>5, <3>1, <3>2
  <2>10. q \in 0..(n - 1) /\ q \in 0..((n + 1) - 1) /\ n + 1 \in Nat /\ n <= n + 1
    BY <2>1, <2>5
  <2>11. NodeFits(old, q, n + 1)
    BY <2>9, <2>10, NodeFitsOn
  <2>12. n \in OrNone(n + 1)
    BY DEF OrNone
  <2>13. q # 0 => node.id = q
    BY <2>8
  <2>14. NodeFits(node, q, n + 1)
    BY <2>4, <2>8, <2>11, <2>12, <2>13 DEF NodeFits
  <2>15. Grows(<<Written(node)>>, n + 1, n + 1)
    BY <2>8, <2>10, <2>14, NodeGrows
  <2>16. NeighbourWrite(pages[p], n) = <<Written(node)>>
    BY <1>1, <1>4, <2>2, <2>6 DEF NeighbourWrite
  <2> QED  BY <2>15, <2>16
<1> QED  BY <1>3, <1>4

LEMMA LeafHandsFit ==
  ASSUME Parameters, NEW n \in Nat, n # 0, FileFits(pages, n), NEW p \in 1..(n - 1),
         pages[p].leaf, pages[p].id = p, NEW e \in Entry
  PROVE  HandsFit(InsertInLeaf(pages[p], e), n)
<1>1. PICK leaf : leaf = pages[p]
  OBVIOUS
<1>2. NodeFits(leaf, p, n) /\ leaf.leaf /\ leaf.id = p /\ p \in 0..(n - 1)
  <2>1. p \in 0..(n - 1)
    OBVIOUS
  <2> QED  BY <1>1, <2>1 DEF FileFits
<1>3. leaf \in NodeRecord /\ Len(leaf.entries) <= LeafCapacity /\ leaf.next # 0
  BY <1>2 DEF NodeFits
<1>4. NextPage = n
  BY FileSize DEF NextPage, FileFits
<1>5. PICK es : es = leaf.entries
  OBVIOUS
<1>6. es \in Seq(Entry) /\ Len(es) \in Nat
  BY <1>3, <1>5 DEF NodeRecord
<1>7. PICK t : t = InsertAt(es, Before(es, e[1]) + 1, e)
  OBVIOUS
<1>8. t \in Seq(Entry) /\ Len(t) = Len(es) + 1
  <2>1. PICK a \in 1..(Len(es) + 1) : a = Before(es, e[1]) + 1
    BY <1>6, BeforeBound
  <2>2. InsertAt(es, a, e) \in Seq(Entry) /\ Inserted(es, InsertAt(es, a, e), a, e)
    BY <1>6, <2>1, InsertAtShape
  <2> QED  BY <1>7, <2>1, <2>2 DEF Inserted
<1>9. PICK full : full = [leaf EXCEPT !.entries = t]
  OBVIOUS
<1>10. /\ full \in NodeRecord /\ full.leaf = leaf.leaf /\ full.id = p /\ full.entries = t
       /\ full.next = leaf.next /\ full.prev = leaf.prev
  BY <1>2, <1>3, <1>8, <1>9 DEF NodeRecord
<1>11. WithEntry(leaf, e) = full
  BY <1>5, <1>7, <1>9 DEF WithEntry
<1>12. PICK half : half = Len(t) \div 2
  OBVIOUS
<1>13. PICK u, v : u = SubSeq(t, 1, half) /\ v = SubSeq(t, half + 1, Len(t))
  OBVIOUS
<1>14. PICK left, right : left = [leaf EXCEPT !.entries = u, !.next = n] /\ right = RightHalf(leaf, n, v)
  OBVIOUS
<1>15. right.entries = v
  BY <1>14 DEF RightHalf, Leaf, Node
<1>16. PICK ws : ws = <<Allocated(n)>> \o NeighbourWrite(leaf, n) \o <<Written(left), Written(right)>>
  OBVIOUS
<1>17. PICK below : below = InsertInLeaf(leaf, e)
  OBVIOUS
<1>18. below = IF Len(t) <= LeafCapacity THEN NotSplit(<<Written(full)>>, n)
               ELSE Split(ws, n + 1, v[1][1], n)
  BY <1>4, <1>10, <1>11, <1>12, <1>13, <1>14, <1>15, <1>16, <1>17 DEF InsertInLeaf, LeafFits
<1>19. CASE Len(t) <= LeafCapacity
  <2>1. NodeFits(full, p, n)
    BY <1>2, <1>8, <1>10, <1>19 DEF NodeFits
  <2>2. Grows(<<Written(full)>>, n, n)
    BY <1>2, <1>10, <2>1, NodeGrows
  <2>3. below.writes = <<Written(full)>> /\ below.next = n /\ below.split = FALSE
    BY <1>18, <1>19 DEF NotSplit
  <2>4. HandsFit(below, n)
    BY <2>2, <2>3 DEF HandsFit
  <2> QED  BY <1>1, <1>17, <2>4
<1>20. CASE ~(Len(t) <= LeafCapacity)
  <2>1. LeafCapacity \in Nat \ {0}
    BY DEF Parameters
  <2>2. Len(t) \in Nat /\ Len(t) = LeafCapacity + 1 /\ Len(t) >= 2
    BY <1>3, <1>5, <1>6, <1>8, <1>20, <2>1
  <2>3. half \in 1..(Len(t) - 1) /\ half \in Nat
    BY <1>12, <2>2, HalfOf
  <2>4. u \in Seq(Entry) /\ Len(u) = half - 1 + 1
    <3>1. 1 \in 1..(Len(t) + 1) /\ half \in (1 - 1)..Len(t)
      BY <2>2, <2>3
    <3> QED  BY <1>8, <1>13, <3>1, PartShape
  <2>5. v \in Seq(Entry) /\ Len(v) = Len(t) - (half + 1) + 1 /\ v[1] \in Entry
    <3>1. half + 1 \in 1..(Len(t) + 1) /\ Len(t) \in ((half + 1) - 1)..Len(t)
      BY <2>2, <2>3
    <3>2. v \in Seq(Entry) /\ Len(v) = Len(t) - (half + 1) + 1
      BY <1>8, <1>13, <3>1, PartShape
    <3>3. 1 \in 1..Len(v)
      BY <2>2, <2>3, <3>2
    <3> QED  BY <3>2, <3>3, ElementOf
  <2>6. Len(u) <= LeafCapacity /\ Len(v) <= LeafCapacity
    BY <2>1, <2>2, <2>3, <2>4, <2>5
  <2>7. n + 1 \in Nat /\ n <= n + 1 /\ p \in 0..((n + 1) - 1) /\ n \in 0..((n + 1) - 1) /\ n # 0 /\ p # 0
    BY <1>2
  <2>8. NodeFits(leaf, p, n + 1)
    BY <1>2, <2>7, NodeFitsOn
  <2>9. n \in OrNone(n + 1) /\ p \in OrNone(n + 1) /\ n \in Int /\ p \in Int
    BY <2>7 DEF OrNone
  <2>10. /\ left \in NodeRecord /\ left.leaf = leaf.leaf /\ left.id = p /\ left.next = n
         /\ left.prev = leaf.prev /\ left.entries = u
    BY <1>2, <1>3, <1>14, <2>4, <2>9 DEF NodeRecord
  <2>11. NodeFits(left, p, n + 1)
    BY <1>2, <2>6, <2>7, <2>8, <2>9, <2>10 DEF NodeFits
  <2>12. /\ right \in NodeRecord /\ right.leaf = TRUE /\ right.id = n /\ right.next = leaf.next /\ right.prev = p
         /\ right.entries = v
    <3>1. right = Node(n, TRUE, leaf.next, p, <<>>, <<>>, v)
      BY <1>2, <1>14 DEF RightHalf, Leaf
    <3>2. leaf.next \in Int
      BY <1>3 DEF NodeRecord
    <3>3. <<>> \in Seq(Keys) /\ <<>> \in Seq(Int) /\ TRUE \in BOOLEAN
      OBVIOUS
    <3> QED  BY <2>5, <2>9, <3>1, <3>2, <3>3 DEF Node, NodeRecord
  <2>13. NodeFits(right, n, n + 1)
    <3>1. leaf.next \in OrNone(n + 1) /\ leaf.next # 0
      BY <1>3, <2>8 DEF NodeFits
    <3> QED  BY <2>6, <2>7, <2>9, <2>12, <3>1 DEF NodeFits
  <2>14. Grows(<<Allocated(n)>>, n, n + 1)
    BY AllocationGrows
  <2>15. Grows(NeighbourWrite(leaf, n), n + 1, n + 1)
    BY <1>1, <1>2, NeighbourGrows
  <2>16. Grows(<<Written(left), Written(right)>>, n + 1, n + 1)
    <3>1. Grows(<<Written(left)>>, n + 1, n + 1)
      BY <2>7, <2>10, <2>11, NodeGrows
    <3>2. Grows(<<Written(right)>>, n + 1, n + 1)
      BY <2>7, <2>12, <2>13, NodeGrows
    <3> QED  BY <3>1, <3>2, GrowsByTwo
  <2>17. Grows(ws, n, n + 1)
    <3>1. PICK a, b, c : /\ a = <<Allocated(n)>> /\ b = NeighbourWrite(leaf, n)
                         /\ c = <<Written(left), Written(right)>>
      OBVIOUS
    <3>2. Grows(a, n, n + 1) /\ Grows(b, n + 1, n + 1) /\ Grows(c, n + 1, n + 1)
      BY <2>14, <2>15, <2>16, <3>1
    <3>3. Grows(a \o b, n, n + 1)
      BY <3>2, GrowsByBoth
    <3>4. Grows((a \o b) \o c, n, n + 1)
      BY <3>2, <3>3, GrowsByBoth
    <3> QED  BY <1>16, <3>1, <3>4
  <2>18. below.writes = ws /\ below.next = n + 1 /\ below.split = TRUE /\ below.key = v[1][1] /\ below.new = n
    BY <1>18, <1>20 DEF Split
  <2>19. v[1][1] \in Keys
    BY <2>5 DEF Entry
  <2>20. HandsFit(below, n)
    BY <2>7, <2>17, <2>18, <2>19 DEF HandsFit
  <2> QED  BY <1>1, <1>17, <2>20
<1> QED  BY <1>19, <1>20

LEMMA InnerHandsFit ==
  ASSUME Parameters, NEW n \in Nat, n # 0, FileFits(pages, n), NEW p \in 1..(n - 1),
         ~pages[p].leaf, pages[p].id = p, NEW k \in Int, NEW below, HandsFit(below, n)
  PROVE  HandsFit(InsertInInternal(pages[p], k, below), n)
<1>1. PICK node : node = pages[p]
  OBVIOUS
<1>2. NodeFits(node, p, n) /\ ~node.leaf /\ node.id = p /\ p \in 0..(n - 1)
  <2>1. p \in 0..(n - 1)
    OBVIOUS
  <2> QED  BY <1>1, <2>1 DEF FileFits
<1>3. PICK m : m = below.next
  OBVIOUS
<1>4. PICK ws : ws = below.writes
  OBVIOUS
<1>5. Grows(ws, n, m) /\ m \in Nat /\ n <= m
  BY <1>3, <1>4 DEF HandsFit, Grows
<1>6. PICK result : result = InsertInInternal(node, k, below)
  OBVIOUS
<1>7. ASSUME below.split = FALSE PROVE HandsFit(result, n)
  BY <1>6, <1>7 DEF InsertInInternal
<1>8. ASSUME below.split = TRUE PROVE HandsFit(result, n)
  <2>1. PICK s, new : s = below.key /\ new = below.new
    OBVIOUS
  <2>2. s \in Keys /\ new \in 0..(m - 1)
    BY <1>3, <1>8, <2>1 DEF HandsFit
  <2>3. NodeFits(node, p, m)
    BY <1>2, <1>5, NodeFitsOn
  <2>4. PICK ks, cs : ks = node.keys /\ cs = node.children
    OBVIOUS
  <2>5. /\ node \in NodeRecord /\ ks \in Seq(Keys) /\ cs \in Seq(Int) /\ Len(ks) \in Nat
        /\ Len(ks) <= InternalCapacity /\ Len(cs) = Len(ks) + 1
        /\ \A i \in 1..Len(cs) : cs[i] \in 0..(m - 1)
    BY <1>2, <2>3, <2>4 DEF NodeFits, NodeRecord
  <2>6. PICK a : a = ChildIndex(node, k)
    OBVIOUS
  <2>7. a \in 1..Len(cs)
    BY <2>4, <2>5, <2>6, ChildTaken
  <2>8. PICK keys, children : keys = InsertAt(ks, a, s) /\ children = InsertAt(cs, a + 1, new)
    OBVIOUS
  <2>9. keys \in Seq(Keys) /\ Len(keys) = Len(ks) + 1
    <3>1. a \in 1..(Len(ks) + 1)
      BY <2>5, <2>7
    <3> QED  BY <2>2, <2>5, <2>8, <3>1, InsertAtShape DEF Inserted
  <2>10. /\ children \in Seq(Int) /\ Len(children) = Len(cs) + 1
         /\ \A i \in 1..Len(children) : children[i] \in 0..(m - 1)
    <3>1. a + 1 \in 1..(Len(cs) + 1) /\ new \in Int
      BY <2>2, <2>5, <2>7
    <3>2. children \in Seq(Int) /\ Inserted(cs, children, a + 1, new)
      BY <2>5, <2>8, <3>1, InsertAtShape
    <3>3. /\ Len(children) = Len(cs) + 1 /\ children[a + 1] = new
          /\ \A i \in 1..((a + 1) - 1) : children[i] = cs[i]
          /\ \A i \in ((a + 1) + 1)..Len(children) : children[i] = cs[i - 1]
      BY <3>2 DEF Inserted
    <3>4. ASSUME NEW i \in 1..Len(children) PROVE children[i] \in 0..(m - 1)
      <4>1. CASE i = a + 1
        BY <2>2, <3>3, <4>1
      <4>2. CASE i \in 1..a
        <5>1. i \in 1..((a + 1) - 1) /\ i \in 1..Len(cs)
          BY <2>5, <2>7, <4>2
        <5> QED  BY <2>5, <3>3, <5>1
      <4>3. CASE i > a + 1
        <5>1. i \in ((a + 1) + 1)..Len(children) /\ i - 1 \in 1..Len(cs)
          BY <2>5, <2>7, <3>3, <4>3
        <5> QED  BY <2>5, <3>3, <5>1
      <4> QED  BY <2>5, <2>7, <4>1, <4>2, <4>3
    <3> QED  BY <3>2, <3>3, <3>4
  <2>11. Len(keys) \in Nat /\ Len(children) = Len(keys) + 1 /\ Len(keys) <= InternalCapacity + 1
    <3>1. InternalCapacity \in Nat
      BY DEF Parameters
    <3> QED  BY <2>5, <2>9, <2>10, <3>1
  <2>12. PICK half : half = Len(keys) \div 2
    OBVIOUS
  <2>13. PICK u, cu, v, cv :
           /\ u = SubSeq(keys, 1, half) /\ cu = SubSeq(children, 1, half + 1)
           /\ v = SubSeq(keys, half + 2, Len(keys)) /\ cv = SubSeq(children, half + 2, Len(children))
    OBVIOUS
  <2>14. PICK full, left, right :
           /\ full = [node EXCEPT !.keys = keys, !.children = children]
           /\ left = [node EXCEPT !.keys = u, !.children = cu]
           /\ right = Internal(m, v, cv)
    OBVIOUS
  <2>15. result = IF Len(keys) <= InternalCapacity THEN NotSplit(Append(ws, Written(full)), m)
                  ELSE Split(ws \o <<Allocated(m), Written(left), Written(right)>>, m + 1, keys[half + 1], m)
    BY <1>3, <1>4, <1>6, <1>8, <2>1, <2>4, <2>6, <2>8, <2>12, <2>13, <2>14 DEF InsertInInternal
  <2>16. CASE Len(keys) <= InternalCapacity
    <3>1. /\ full \in NodeRecord /\ full.leaf = node.leaf /\ full.id = p /\ full.next = node.next
          /\ full.prev = node.prev /\ full.keys = keys /\ full.children = children
      BY <1>2, <2>5, <2>9, <2>10, <2>14 DEF NodeRecord
    <3>2. p # 0 /\ p \in 0..(m - 1)
      BY <1>2, <1>5
    <3>3. NodeFits(full, p, m)
      BY <1>2, <2>3, <2>10, <2>11, <2>16, <3>1, <3>2 DEF NodeFits
    <3>4. Grows(<<Written(full)>>, m, m)
      BY <1>5, <3>1, <3>2, <3>3, NodeGrows
    <3>5. Grows(Append(ws, Written(full)), n, m)
      BY <1>5, <3>4, GrowsByOneMore
    <3>6. result.writes = Append(ws, Written(full)) /\ result.next = m /\ result.split = FALSE
      BY <2>15, <2>16 DEF NotSplit
    <3> QED  BY <3>5, <3>6 DEF HandsFit
  <2>17. CASE ~(Len(keys) <= InternalCapacity)
    <3>1. InternalCapacity \in Nat \ {0}
      BY DEF Parameters
    <3>2. Len(keys) = InternalCapacity + 1 /\ Len(keys) >= 2
      BY <2>11, <2>17, <3>1
    <3>3. half \in 1..(Len(keys) - 1)
      BY <2>11, <2>12, <3>2, HalfOf
    <3>4. u \in Seq(Keys) /\ Len(u) = half - 1 + 1
      <4>1. 1 \in 1..(Len(keys) + 1) /\ half \in (1 - 1)..Len(keys)
        BY <2>11, <3>3
      <4> QED  BY <2>9, <2>13, <4>1, PartShape
    <3>5. /\ cu \in Seq(Int) /\ Len(cu) = (half + 1) - 1 + 1
          /\ \A i \in 1..((half + 1) - 1 + 1) : cu[i] = children[1 + i - 1]
      <4>1. 1 \in 1..(Len(children) + 1) /\ half + 1 \in (1 - 1)..Len(children)
        BY <2>11, <3>3
      <4> QED  BY <2>10, <2>13, <4>1, PartShape, SMTT(30)
    <3>6. v \in Seq(Keys) /\ Len(v) = Len(keys) - (half + 2) + 1
      <4>1. half + 2 \in 1..(Len(keys) + 1) /\ Len(keys) \in ((half + 2) - 1)..Len(keys)
        BY <2>11, <3>3
      <4> QED  BY <2>9, <2>13, <4>1, PartShape
    <3>7. /\ cv \in Seq(Int) /\ Len(cv) = Len(children) - (half + 2) + 1
          /\ \A i \in 1..(Len(children) - (half + 2) + 1) : cv[i] = children[(half + 2) + i - 1]
      <4>1. half + 2 \in 1..(Len(children) + 1) /\ Len(children) \in ((half + 2) - 1)..Len(children)
        BY <2>11, <3>3
      <4> QED  BY <2>10, <2>13, <4>1, PartShape
    <3>8. /\ Len(u) <= InternalCapacity /\ Len(cu) = Len(u) + 1
          /\ Len(v) <= InternalCapacity /\ Len(cv) = Len(v) + 1
      BY <2>11, <3>1, <3>2, <3>3, <3>4, <3>5, <3>6, <3>7
    <3>9. \A i \in 1..Len(cu) : cu[i] \in 0..(m - 1)
      <4>1. \A i \in 1..Len(cu) : 1 + i - 1 \in 1..Len(children) /\ i \in 1..((half + 1) - 1 + 1)
        BY <2>11, <3>3, <3>5
      <4> QED  BY <2>10, <3>5, <4>1
    <3>10. \A i \in 1..Len(cv) : cv[i] \in 0..(m - 1)
      <4>1. \A i \in 1..Len(cv) : (half + 2) + i - 1 \in 1..Len(children) /\ i \in 1..(Len(children) - (half + 2) + 1)
        BY <2>11, <3>3, <3>7
      <4> QED  BY <2>10, <3>7, <4>1
    <3>11. /\ left \in NodeRecord /\ left.leaf = node.leaf /\ left.id = p /\ left.next = node.next
           /\ left.prev = node.prev /\ left.keys = u /\ left.children = cu
      BY <1>2, <2>5, <2>14, <3>4, <3>5 DEF NodeRecord
    <3>12. /\ m + 1 \in Nat /\ m <= m + 1 /\ p # 0 /\ p \in 0..((m + 1) - 1) /\ m # 0 /\ m \in 0..((m + 1) - 1)
           /\ \A x \in 0..(m - 1) : x \in 0..((m + 1) - 1)
      BY <1>2, <1>5
    <3>13. NodeFits(node, p, m + 1)
      BY <1>5, <2>3, <3>12, NodeFitsOn
    <3>14. NodeFits(left, p, m + 1)
      BY <1>2, <3>8, <3>9, <3>11, <3>12, <3>13 DEF NodeFits
    <3>15. /\ right \in NodeRecord /\ right.leaf = FALSE /\ right.id = m /\ right.next = NoPage /\ right.prev = NoPage
           /\ right.keys = v /\ right.children = cv
      <4>1. right = Node(m, FALSE, NoPage, NoPage, v, cv, <<>>)
        BY <2>14 DEF Internal
      <4>2. m \in Int /\ NoPage \in Int /\ FALSE \in BOOLEAN /\ <<>> \in Seq(Entry)
        BY <1>5 DEF NoPage
      <4> QED  BY <3>6, <3>7, <4>1, <4>2 DEF Node, NodeRecord
    <3>16. m \in OrNone(m + 1) /\ NoPage \in OrNone(m + 1)
      BY <3>12 DEF OrNone
    <3>17. NodeFits(right, m, m + 1)
      BY <3>8, <3>10, <3>12, <3>15, <3>16 DEF NodeFits
    <3>18. Grows(<<Allocated(m)>>, m, m + 1)
      BY <1>5, AllocationGrows
    <3>19. Grows(<<Written(left)>>, m + 1, m + 1)
      BY <3>11, <3>12, <3>14, NodeGrows
    <3>20. Grows(<<Written(right)>>, m + 1, m + 1)
      BY <3>12, <3>15, <3>17, NodeGrows
    <3>21. Grows(<<Allocated(m), Written(left), Written(right)>>, m, m + 1)
      BY <3>18, <3>19, <3>20, GrowsByThree
    <3>22. Grows(ws \o <<Allocated(m), Written(left), Written(right)>>, n, m + 1)
      BY <1>5, <3>21, GrowsByBoth
    <3>23. keys[half + 1] \in Keys
      <4>1. half + 1 \in 1..Len(keys)
        BY <2>11, <3>3
      <4> QED  BY <2>9, <4>1, ElementOf
    <3>24. /\ result.writes = ws \o <<Allocated(m), Written(left), Written(right)>> /\ result.next = m + 1
           /\ result.split = TRUE /\ result.key = keys[half + 1] /\ result.new = m
      BY <2>15, <2>17 DEF Split
    <3> QED  BY <3>12, <3>22, <3>23, <3>24 DEF HandsFit
  <2> QED  BY <2>16, <2>17
<1> QED
  <2>1. below.split = FALSE \/ below.split = TRUE
    BY DEF HandsFit
  <2> QED  BY <1>1, <1>6, <1>7, <1>8, <2>1

LEMMA AlongHandsFit ==
  ASSUME Parameters, NEW n \in Nat, n # 0, FileFits(pages, n), NEW path, LeadsDown(path, n), NEW e \in Entry
  PROVE  HandsFit(InsertAlong(path, e), n)
<1>1. PICK H : H = Len(path) - 1
  OBVIOUS
<1>2. /\ Len(path) = H + 1 /\ H \in Nat
      /\ \A i \in 1..(H + 1) : path[i] \in 1..(n - 1) /\ pages[path[i]].id = path[i]
      /\ \A i \in 1..H : ~pages[path[i]].leaf
      /\ pages[path[H + 1]].leaf
  <2>1. PICK m \in Nat : m = Len(path)
    BY DEF LeadsDown
  <2>2. m # 0 /\ H = m - 1 /\ H \in Nat /\ m = H + 1
    BY <1>1, <2>1 DEF LeadsDown
  <2> QED  BY <2>1, <2>2 DEF LeadsDown
<1>3. PICK f : Ups(f, path, e, H) /\ InsertAlong(path, e) = f[H]
  BY <1>1, <1>2, AlongIs
<1>4. f = [i \in 0..H |-> IF i = 0 THEN InsertInLeaf(pages[Last(path)], e) ELSE LevelAbove(path, e, i, f[i - 1])]
  BY <1>3 DEF Ups
<1>5. PICK G : G = {i \in 0..H : HandsFit(f[i], n)}
  OBVIOUS
<1>6. 0 \in G
  <2>1. 0 \in 0..H /\ H + 1 \in 1..(H + 1)
    BY <1>2
  <2>2. PICK p : p = path[H + 1]
    OBVIOUS
  <2>3. p \in 1..(n - 1) /\ pages[p].leaf /\ pages[p].id = p
    BY <1>2, <2>1, <2>2
  <2>4. Last(path) = p
    BY <1>2, <2>2, LastOf
  <2>5. f[0] = InsertInLeaf(pages[p], e)
    BY <1>4, <2>1, <2>4
  <2>6. HandsFit(InsertInLeaf(pages[p], e), n)
    BY <2>3, LeafHandsFit
  <2> QED  BY <1>5, <2>1, <2>5, <2>6
<1>7. ASSUME NEW i \in 1..H, i - 1 \in G PROVE i \in G
  <2>1. PICK j : j = Len(path) - i
    OBVIOUS
  <2>2. j \in 1..H /\ j \in 1..(H + 1)
    BY <1>2, <2>1
  <2>3. PICK p : p = path[j]
    OBVIOUS
  <2>4. p \in 1..(n - 1) /\ ~pages[p].leaf /\ pages[p].id = p
    BY <1>2, <2>2, <2>3
  <2>5. PICK below, k : below = f[i - 1] /\ k = e[1]
    OBVIOUS
  <2>6. HandsFit(below, n) /\ k \in Int
    <3>1. k \in Keys
      BY <2>5 DEF Entry
    <3> QED  BY <1>5, <1>7, <2>5, <3>1 DEF Parameters
  <2>7. HandsFit(InsertInInternal(pages[p], k, below), n)
    BY <2>4, <2>6, InnerHandsFit
  <2>8. f[i] = InsertInInternal(pages[p], k, below)
    <3>1. i \in 0..H /\ i # 0
      OBVIOUS
    <3>2. f[i] = LevelAbove(path, e, i, f[i - 1])
      BY <1>4, <3>1
    <3> QED  BY <2>1, <2>3, <2>5, <3>2 DEF LevelAbove
  <2>9. i \in 0..H
    OBVIOUS
  <2> QED  BY <1>5, <2>7, <2>8, <2>9
<1>8. \A i \in 0..H : i \in G
  BY <1>2, <1>6, <1>7, EveryRound
<1>9. H \in 0..H
  BY <1>2
<1> QED  BY <1>3, <1>5, <1>8, <1>9

LEMMA NewRootGrows ==
  ASSUME Parameters, NEW n \in Nat, n # 0, FileFits(pages, n), Root # NoPage,
         NEW below, HandsFit(below, n), below.split = TRUE
  PROVE  \E l : Grows(NewRoot(below), below.next, l)
<1>1. PICK m, s, new : m = below.next /\ s = below.key /\ new = below.new
  OBVIOUS
<1>2. m \in Nat /\ n <= m /\ s \in Keys /\ new \in 0..(m - 1)
  BY <1>1 DEF HandsFit, Grows
<1>3. PICK r : r = Root
  OBVIOUS
<1>4. r \in 0..(n - 1)
  <2>1. 0 \in 0..(n - 1)
    OBVIOUS
  <2>2. NodeFits(pages[0], 0, n)
    BY <2>1 DEF FileFits
  <2> QED  BY <1>3, <2>2 DEF NodeFits, OrNone, Root
<1>5. PICK ks, cs : ks = <<s>> /\ cs = <<r, new>>
  OBVIOUS
<1>6. /\ ks \in Seq(Keys) /\ Len(ks) = 1 /\ cs \in Seq(Int) /\ Len(cs) = 2
      /\ \A i \in 1..2 : cs[i] \in 0..((m + 1) - 1)
  <2>1. r \in Int /\ new \in Int /\ r \in 0..((m + 1) - 1) /\ new \in 0..((m + 1) - 1)
    BY <1>2, <1>4
  <2>2. cs \in Seq(Int) /\ Len(cs) = 2 /\ cs[1] = r /\ cs[2] = new
    BY <1>5, <2>1
  <2>3. \A i \in 1..2 : i = 1 \/ i = 2
    OBVIOUS
  <2> QED  BY <1>2, <1>5, <2>1, <2>2, <2>3
<1>7. PICK node : node = Internal(m, ks, cs)
  OBVIOUS
<1>8. /\ node \in NodeRecord /\ node.leaf = FALSE /\ node.id = m /\ node.next = NoPage /\ node.prev = NoPage
      /\ node.keys = ks /\ node.children = cs
  <2>1. node = Node(m, FALSE, NoPage, NoPage, ks, cs, <<>>)
    BY <1>7 DEF Internal
  <2>2. m \in Int /\ NoPage \in Int /\ FALSE \in BOOLEAN /\ <<>> \in Seq(Entry)
    BY <1>2 DEF NoPage
  <2> QED  BY <1>6, <2>1, <2>2 DEF Node, NodeRecord
<1>9. /\ m + 1 \in Nat /\ m # 0 /\ m + 1 # 0 /\ m \in 0..((m + 1) - 1) /\ 0 \in 0..((m + 1) - 1)
      /\ 1 <= InternalCapacity
  BY <1>2 DEF Parameters
<1>10. m \in OrNone(m + 1) /\ NoPage \in OrNone(m + 1)
  BY <1>9 DEF OrNone
<1>11. NodeFits(node, m, m + 1)
  <2>1. Len(node.keys) <= InternalCapacity /\ Len(node.children) = Len(node.keys) + 1
    <3>1. Len(node.keys) = 1 /\ Len(node.children) = 2
      BY <1>6, <1>8
    <3>2. 1 + 1 = 2
      OBVIOUS
    <3> QED  BY <1>9, <3>1, <3>2
  <2>2. \A i \in 1..Len(node.children) : node.children[i] \in 0..((m + 1) - 1)
    BY <1>6, <1>8
  <2> QED  BY <1>8, <1>9, <1>10, <2>1, <2>2 DEF NodeFits
<1>12. Grows(<<Allocated(m)>>, m, m + 1)
  BY <1>2, AllocationGrows
<1>13. Grows(<<Written(node)>>, m + 1, m + 1)
  BY <1>8, <1>9, <1>11, NodeGrows
<1>14. NodeFits(Meta(m), 0, m + 1)
  BY <1>9, <1>10, MetaFits
<1>15. Grows(<<<<0, Meta(m)>>>>, m + 1, m + 1)
  BY <1>9, <1>14, WriteGrows
<1>16. Grows(<<Allocated(m), Written(node), <<0, Meta(m)>>>>, m, m + 1)
  BY <1>12, <1>13, <1>15, GrowsByThree
<1>17. NewRoot(below) = <<Allocated(m), Written(node), <<0, Meta(m)>>>>
  BY <1>1, <1>3, <1>5, <1>7 DEF NewRoot
<1> QED  BY <1>1, <1>16, <1>17

LEMMA FirstInsertGrows ==
  ASSUME Parameters, NEW n \in Nat, n # 0, NEW e \in Entry
  PROVE  Grows(<<Allocated(n), Written(Leaf(n, NoPage, NoPage, <<e>>)), <<0, Meta(n)>>>>, n, n + 1)
<1>1. PICK es : es = <<e>>
  OBVIOUS
<1>2. es \in Seq(Entry) /\ Len(es) = 1
  BY <1>1
<1>3. PICK node : node = Leaf(n, NoPage, NoPage, es)
  OBVIOUS
<1>4. /\ node \in NodeRecord /\ node.leaf = TRUE /\ node.id = n /\ node.next = NoPage /\ node.prev = NoPage
      /\ node.entries = es
  <2>1. node = Node(n, TRUE, NoPage, NoPage, <<>>, <<>>, es)
    BY <1>3 DEF Leaf
  <2>2. n \in Int /\ NoPage \in Int /\ TRUE \in BOOLEAN /\ <<>> \in Seq(Keys) /\ <<>> \in Seq(Int)
    BY DEF NoPage
  <2> QED  BY <1>2, <2>1, <2>2 DEF Node, NodeRecord
<1>5. /\ n + 1 \in Nat /\ n + 1 # 0 /\ n \in 0..((n + 1) - 1) /\ 0 \in 0..((n + 1) - 1)
      /\ 1 <= LeafCapacity /\ NoPage # 0
  BY DEF Parameters, NoPage
<1>6. n \in OrNone(n + 1) /\ NoPage \in OrNone(n + 1)
  BY <1>5 DEF OrNone
<1>7. NodeFits(node, n, n + 1)
  BY <1>2, <1>4, <1>5, <1>6 DEF NodeFits
<1>8. Grows(<<Allocated(n)>>, n, n + 1)
  BY AllocationGrows
<1>9. Grows(<<Written(node)>>, n + 1, n + 1)
  BY <1>4, <1>5, <1>7, NodeGrows
<1>10. NodeFits(Meta(n), 0, n + 1)
  BY <1>5, <1>6, MetaFits
<1>11. Grows(<<<<0, Meta(n)>>>>, n + 1, n + 1)
  BY <1>5, <1>10, WriteGrows
<1>12. Grows(<<Allocated(n), Written(node), <<0, Meta(n)>>>>, n, n + 1)
  BY <1>8, <1>9, <1>11, GrowsByThree
<1> QED  BY <1>1, <1>3, <1>12

LEMMA InsertGrows ==
  ASSUME Parameters, NEW n \in Nat, n # 0, FileFits(pages, n), NEW e \in Entry, Descends(e[1])
  PROVE  \E l : Grows(InsertWrites(e), n, l)
<1>1. NextPage = n
  BY FileSize DEF NextPage, FileFits
<1>2. CASE Root = NoPage
  <2>1. InsertWrites(e) = <<Allocated(n), Written(Leaf(n, NoPage, NoPage, <<e>>)), <<0, Meta(n)>>>>
    BY <1>1, <1>2 DEF InsertWrites
  <2>2. Grows(InsertWrites(e), n, n + 1)
    BY <2>1, FirstInsertGrows
  <2> QED  BY <2>2
<1>3. CASE Root # NoPage
  <2>1. PICK k : k = e[1]
    OBVIOUS
  <2>2. k \in Int /\ LeafOf(k).leaf
    <3>1. k \in Keys
      BY <2>1 DEF Entry
    <3> QED  BY <1>3, <2>1, <3>1 DEF Descends, Parameters
  <2>3. PICK path : path = Path(k)
    OBVIOUS
  <2>4. LeadsDown(path, n)
    BY <1>3, <2>2, <2>3, PathToLeaf
  <2>5. PICK top : top = InsertAlong(path, e)
    OBVIOUS
  <2>6. HandsFit(top, n)
    BY <2>4, <2>5, AlongHandsFit
  <2>7. InsertWrites(e) = IF top.split THEN top.writes \o NewRoot(top) ELSE top.writes
    BY <1>3, <2>1, <2>3, <2>5 DEF InsertWrites
  <2>8. Grows(top.writes, n, top.next)
    BY <2>6 DEF HandsFit
  <2>9. CASE top.split = FALSE
    BY <2>7, <2>8, <2>9
  <2>10. CASE top.split = TRUE
    <3>1. PICK l : Grows(NewRoot(top), top.next, l)
      BY <1>3, <2>6, <2>10, NewRootGrows
    <3>2. Grows(top.writes \o NewRoot(top), n, l)
      BY <2>8, <3>1, GrowsByBoth
    <3> QED  BY <2>7, <2>10, <3>2
  <2> QED  BY <2>6, <2>9, <2>10 DEF HandsFit
<1> QED  BY <1>2, <1>3

LEMMA RemovalFits ==
  ASSUME Parameters, NEW n \in Nat, n # 0, FileFits(pages, n), Root # NoPage, NEW k \in Keys, Descends(k),
         NEW i \in DOMAIN LeafOf(k).entries
  PROVE  FileFits(With(pages, LeafOf(k).id, [LeafOf(k) EXCEPT !.entries = RemoveAt(@, i)]), n)
<1>1. k \in Int /\ LeafOf(k).leaf
  BY DEF Parameters, Descends
<1>2. PICK path : path = Path(k)
  OBVIOUS
<1>3. LeadsDown(path, n)
  BY <1>1, <1>2, PathToLeaf
<1>4. PICK m \in Nat : m = Len(path)
  BY <1>3 DEF LeadsDown
<1>5. PICK p : p = path[m]
  OBVIOUS
<1>6. p \in 1..(n - 1) /\ pages[p].id = p /\ p \in 0..(n - 1) /\ LeafOf(k) = pages[p]
  <2>1. m \in 1..m
    BY <1>3, <1>4 DEF LeadsDown
  <2>2. p \in 1..(n - 1) /\ pages[p].id = p
    BY <1>3, <1>4, <1>5, <2>1 DEF LeadsDown
  <2>3. Last(path) = p
    BY <1>4, <1>5, LastOf
  <2> QED  BY <1>2, <2>2, <2>3 DEF LeafOf
<1>7. PICK leaf, es : leaf = pages[p] /\ es = leaf.entries
  OBVIOUS
<1>8. NodeFits(leaf, p, n) /\ leaf.leaf
  BY <1>1, <1>6, <1>7 DEF FileFits
<1>9. leaf \in NodeRecord /\ es \in Seq(Entry) /\ Len(es) <= LeafCapacity /\ Len(es) \in Nat
  BY <1>7, <1>8 DEF NodeFits, NodeRecord
<1>10. i \in 1..Len(es)
  BY <1>6, <1>7, <1>9
<1>11. PICK t : t = RemoveAt(es, i)
  OBVIOUS
<1>12. t \in Seq(Entry) /\ Len(t) = Len(es) - 1
  BY <1>9, <1>10, <1>11, RemoveAtShape
<1>13. PICK node : node = [leaf EXCEPT !.entries = t]
  OBVIOUS
<1>14. /\ node \in NodeRecord /\ node.leaf = leaf.leaf /\ node.id = p /\ node.entries = t
       /\ node.next = leaf.next /\ node.prev = leaf.prev
  BY <1>6, <1>7, <1>9, <1>12, <1>13 DEF NodeRecord
<1>15. Len(t) <= LeafCapacity
  BY <1>9, <1>12 DEF Parameters
<1>16. NodeFits(node, p, n)
  BY <1>6, <1>7, <1>8, <1>14, <1>15 DEF NodeFits
<1>17. PICK w : w = <<p, node>>
  OBVIOUS
<1>18. w[1] = p /\ w[2] = node
  BY <1>17
<1>19. WriteFits(w, n, n)
  BY <1>6, <1>16, <1>18 DEF WriteFits
<1>20. FileFits(With(pages, w[1], w[2]), n)
  BY <1>19, FileWritten
<1> QED  BY <1>6, <1>7, <1>11, <1>13, <1>18, <1>20

-----------------------------------------------------------------------------
(* In every state, after any stop.                                         *)

(* The file fits, and so it will after each of the writes still to come. *)
Fits(n, m) == FileFits(pages, n) /\ Grows(writes, n, m)
TypeInv ==
  /\ \E n, m : Fits(n, m)
  /\ job \in Entry \cup {NoJob} /\ DOMAIN stored \subseteq Keys /\ stops \in 0..MaxStops

LEMMA FitsInitially ==
  ASSUME Parameters, Init
  PROVE  TypeInv
<1>1. pages = <<>> /\ writes = <<>> /\ job = NoJob /\ stored = <<>> /\ stops = 0
  BY DEF Init
<1>2. 0..(0 - 1) = {} /\ 0 \in Nat
  OBVIOUS
<1>3. IsFile(<<>>, 0)
  <2>1. <<>> \in [{} -> NodeRecord]
    OBVIOUS
  <2> QED  BY <1>2, <2>1 DEF IsFile
<1>4. FileFits(<<>>, 0)
  BY <1>2, <1>3 DEF FileFits
<1>5. Grows(<<>>, 0, 0)
  BY <1>2, GrowsByNone
<1>6. DOMAIN stored = {}
  BY <1>1
<1>7. 0 \in 0..MaxStops
  BY DEF Parameters
<1>8. Fits(0, 0)
  BY <1>1, <1>4, <1>5 DEF Fits
<1> QED  BY <1>1, <1>6, <1>7, <1>8 DEF TypeInv

LEMMA NotEmpty ==
  ASSUME NEW f, NEW n, IsFile(f, n), f # <<>>
  PROVE  n # 0
<1>1. SUFFICES ASSUME n = 0 PROVE f = <<>>
  OBVIOUS
<1>2. 0..(0 - 1) = {}
  OBVIOUS
<1>3. f \in [{} -> NodeRecord]
  BY <1>1, <1>2 DEF IsFile
<1> QED  BY <1>3

LEMMA FitsStep ==
  ASSUME Parameters, TypeInv, [Next]_vars
  PROVE  TypeInv'
<1>1. PICK n, m : FileFits(pages, n) /\ Grows(writes, n, m)
  BY DEF TypeInv, Fits
<1>2. n \in Nat /\ m \in Nat
  BY <1>1 DEF Grows
<1>3. job \in Entry \cup {NoJob} /\ DOMAIN stored \subseteq Keys /\ stops \in 0..MaxStops
  BY DEF TypeInv
<1>4. CASE Create
  <2>1. /\ pages' = pages /\ job' = job /\ stored' = stored /\ stops' = stops
        /\ pages = <<>> /\ writes' = <<Allocated(0), <<0, Meta(NoPage)>>>>
    BY <1>4 DEF Create
  <2>2. n = 0
    <3>1. DOMAIN pages = {} /\ DOMAIN pages = 0..(n - 1)
      BY <1>1, <2>1, FileSize DEF FileFits
    <3>2. n # 0 => 0 \in 0..(n - 1)
      BY <1>2
    <3> QED  BY <3>1, <3>2
  <2>3. Grows(<<Allocated(0)>>, 0, 0 + 1)
    BY AllocationGrows
  <2>4. 0 + 1 = 1 /\ 1 \in Nat /\ 1 # 0 /\ 0 \in 0..(1 - 1)
    OBVIOUS
  <2>5. NoPage \in OrNone(1)
    BY DEF OrNone
  <2>6. NodeFits(Meta(NoPage), 0, 1)
    BY <2>4, <2>5, MetaFits
  <2>7. Grows(<<<<0, Meta(NoPage)>>>>, 1, 1)
    BY <2>4, <2>6, WriteGrows
  <2>8. Grows(<<Allocated(0)>>, 0, 1)
    BY <2>3, <2>4
  <2>9. Grows(<<Allocated(0), <<0, Meta(NoPage)>>>>, 0, 1)
    BY <2>7, <2>8, GrowsByTwo
  <2> QED  BY <1>1, <1>3, <2>1, <2>2, <2>9 DEF TypeInv, Fits
<1>5. ASSUME NEW e \in Entry, StartInsert(e) PROVE TypeInv'
  <2>1. /\ pages' = pages /\ job' = e /\ stored' = stored /\ stops' = stops
        /\ pages # <<>> /\ Descends(e[1]) /\ writes' = InsertWrites(e)
    BY <1>5 DEF StartInsert, Idle
  <2>2. n # 0
    BY <1>1, <2>1, NotEmpty DEF FileFits
  <2>3. PICK l : Grows(InsertWrites(e), n, l)
    BY <1>1, <1>2, <2>1, <2>2, InsertGrows
  <2> QED  BY <1>1, <1>3, <2>1, <2>3 DEF TypeInv, Fits
<1>6. CASE WritePage
  <2>1. PICK w, t : w = Head(writes) /\ t = Tail(writes)
    OBVIOUS
  <2>2. writes # <<>> /\ pages' = With(pages, w[1], w[2]) /\ writes' = t /\ stops' = stops
    BY <1>6, <2>1 DEF WritePage
  <2>3. PICK b : WriteFits(w, n, b) /\ Grows(t, b, m)
    BY <1>1, <2>1, <2>2, GrowsOn
  <2>4. FileFits(With(pages, w[1], w[2]), b)
    BY <1>1, <2>3, FileWritten
  <2>5. job' \in Entry \cup {NoJob} /\ DOMAIN stored' \subseteq Keys
    <3>1. \/ job # NoJob /\ stored' = With(stored, job[1], job[2]) /\ job' = NoJob
          \/ stored' = stored /\ job' = job
      BY <1>6 DEF WritePage
    <3>2. CASE job # NoJob /\ stored' = With(stored, job[1], job[2]) /\ job' = NoJob
      <4>1. job[1] \in Keys
        BY <1>3, <3>2 DEF Entry
      <4>2. DOMAIN stored' = DOMAIN stored \cup {job[1]}
        BY <3>2 DEF With
      <4> QED  BY <1>3, <3>2, <4>1, <4>2
    <3>3. CASE stored' = stored /\ job' = job
      BY <1>3, <3>3
    <3> QED  BY <3>1, <3>2, <3>3
  <2> QED  BY <1>3, <2>2, <2>3, <2>4, <2>5 DEF TypeInv, Fits
<1>7. CASE Stop
  <2>1. pages' = pages /\ writes' = <<>> /\ job' = NoJob /\ stored' = stored /\ stops' = stops + 1 /\ stops < MaxStops
    BY <1>7 DEF Stop
  <2>2. Grows(<<>>, n, n)
    BY <1>2, GrowsByNone
  <2>3. stops' \in 0..MaxStops
    BY <1>3, <2>1 DEF Parameters
  <2> QED  BY <1>1, <1>3, <2>1, <2>2, <2>3 DEF TypeInv, Fits
<1>8. ASSUME NEW k \in Keys, RemoveKey(k) PROVE TypeInv'
  <2>1. /\ pages # <<>> /\ Root # NoPage /\ Descends(k) /\ writes' = writes /\ writes = <<>>
        /\ job' = job /\ stops' = stops /\ stored' = Without(stored, k)
    BY <1>8 DEF RemoveKey, Idle, Without
  <2>2. PICK i \in DOMAIN LeafOf(k).entries :
          pages' = With(pages, LeafOf(k).id, [LeafOf(k) EXCEPT !.entries = RemoveAt(@, i)])
    BY <1>8 DEF RemoveKey
  <2>3. n # 0
    BY <1>1, <2>1, NotEmpty DEF FileFits
  <2>4. FileFits(With(pages, LeafOf(k).id, [LeafOf(k) EXCEPT !.entries = RemoveAt(@, i)]), n)
    BY <1>1, <1>2, <2>1, <2>3, RemovalFits
  <2>5. DOMAIN stored' \subseteq Keys
    BY <1>3, <2>1 DEF Without
  <2> QED  BY <1>1, <1>3, <2>1, <2>2, <2>4, <2>5 DEF TypeInv, Fits
<1>9. CASE UNCHANGED vars
  <2>1. pages' = pages /\ writes' = writes /\ job' = job /\ stored' = stored /\ stops' = stops
    BY <1>9 DEF vars
  <2> QED  BY <1>1, <1>3, <2>1 DEF TypeInv, Fits
<1> QED  BY <1>4, <1>5, <1>6, <1>7, <1>8, <1>9 DEF Next

LEMMA SaysTypes ==
  ASSUME Parameters, TypeInv
  PROVE  TypeOK
<1>1. PICK n, m : FileFits(pages, n)
  BY DEF TypeInv, Fits
<1>2. DOMAIN pages = 0..(n - 1)
  BY <1>1, FileSize DEF FileFits
<1>3. PageIds = 0..(n - 1)
  BY <1>2 DEF PageIds
<1>4. ASSUME NEW p \in PageIds PROVE IsNode(pages[p])
  <2>1. PICK node : node = pages[p]
    OBVIOUS
  <2>2. NodeFits(node, p, n)
    BY <1>1, <1>3, <1>4, <2>1 DEF FileFits
  <2>3. node \in NodeRecord
    BY <2>2 DEF NodeFits
  <2>4. node.leaf \in BOOLEAN /\ node.entries \in Seq(Entry) /\ node.keys \in Seq(Keys) /\ node.children \in Seq(Int)
    BY <2>3 DEF NodeRecord
  <2>5. node.next \in PageIds \cup {NoPage} /\ node.prev \in PageIds \cup {NoPage}
    BY <1>3, <2>2 DEF NodeFits, OrNone
  <2>6. node.leaf => Len(node.entries) <= LeafCapacity
    BY <2>2 DEF NodeFits
  <2>7. ASSUME ~node.leaf
        PROVE  /\ Len(node.keys) <= InternalCapacity /\ node.children \in Seq(PageIds)
               /\ Len(node.children) = Len(node.keys) + 1
    <3>1. /\ Len(node.keys) <= InternalCapacity /\ Len(node.children) = Len(node.keys) + 1
          /\ \A i \in 1..Len(node.children) : node.children[i] \in 0..(n - 1)
      BY <2>2, <2>7 DEF NodeFits
    <3>2. PICK cs, S : cs = node.children /\ S = 0..(n - 1)
      OBVIOUS
    <3>3. cs \in Seq(Int) /\ \A i \in 1..Len(cs) : cs[i] \in S
      BY <2>4, <3>1, <3>2
    <3>4. cs \in Seq(S)
      BY <3>3
    <3> QED  BY <1>3, <3>1, <3>2, <3>4
  <2> QED  BY <2>1, <2>4, <2>5, <2>6, <2>7 DEF IsNode
<1> QED  BY <1>4 DEF TypeInv, TypeOK

-----------------------------------------------------------------------------
(* Theorems.                                                               *)

(* Between calls, until one is cut short, search finds exactly the keys
   inserted and not removed since, at their addresses (BPlusTree::search).  *)
THEOREM TreeSearch ==
  ASSUME Parameters
  PROVE  Spec => []SearchExact
<1>1. TreeInv => SearchExact
  BY SaysSearchExact
<1> QED  BY <1>1, TreeInvariant, PTL

(* At every page write of an insert, each key leads to a leaf, and is found at
   its address or not at all (insert, _insert_rec).                        *)
THEOREM TreeReadable ==
  ASSUME Parameters
  PROVE  Spec => []ReadableAtEveryWrite
<1>1. TreeInv => ReadableAtEveryWrite
  BY SaysReadable
<1> QED  BY <1>1, TreeInvariant, PTL

(* Between calls all keys lead as far down as each other, and the leaves are
   linked both ways (splits of leaves, of inner nodes and of the root).    *)
THEOREM TreeKeepsBalance ==
  ASSUME Parameters
  PROVE  Spec => []TreeBalanced
<1>1. TreeInv => TreeBalanced
  BY SaysBalanced
<1> QED  BY <1>1, TreeInvariant, PTL

(* Between calls the range search finds exactly the keys between the two ends,
   in ascending order (range_search: the leaf of the low end, then next_leaf). *)
THEOREM TreeRangeSearch ==
  ASSUME Parameters
  PROVE  Spec => []RangeExact
<1>1. TreeInv => RangeExact
  BY SaysRangeExact
<1> QED  BY <1>1, TreeInvariant, PTL

(* In every state, also after any stop inside an insert, each page is a node
   that fits in a block and points to pages of the file (_write_node, and the
   order in which insert writes).                                           *)
THEOREM TreeTypeCorrect ==
  ASSUME Parameters
  PROVE  Spec => []TypeOK
<1>1. Init => TypeInv
  BY FitsInitially
<1>2. TypeInv /\ [Next]_vars => TypeInv'
  BY FitsStep
<1>3. TypeInv => TypeOK
  BY SaysTypes
<1> QED  BY <1>1, <1>2, <1>3, PTL DEF Spec

=============================================================================
