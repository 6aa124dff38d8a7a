---------------------------- MODULE EngineProofs ----------------------------
(***************************************************************************)
(* For any keys, any page capacity, both kinds of table and any bounds:    *)
(* what the two lookups of a table on disk find, and what the statements   *)
(* on it and its indexes keep.                                             *)
(*                                                                         *)
(* search_key and range_key rest on what the loop of _locate_page finds in *)
(* sorted pages.  The loop is a recursive function here: that it is        *)
(* defined on every span (DescentTakesSteps) and what it answers are shown *)
(* by the smallest span that would be an exception.                        *)
(*                                                                         *)
(* The statements drive the table only through its own operations, so what *)
(* is proved of a table alone (TableStoreProofs) holds under the engine;   *)
(* only a table of the catalog is open; and a tree has one entry for a key *)
(* at most, whatever file it was loaded over.                              *)
(*                                                                         *)
(* Then the statements and their indexes: a hash never leads to a row with *)
(* another key, a statement that succeeded is on disk, and an index that   *)
(* has the rows of its table keeps having them.  These need what each      *)
(* statement remembers of the rows from one step to the next (RInv).       *)
(***************************************************************************)
EXTENDS Engine, TableStoreProofs, WellFoundedInduction

-----------------------------------------------------------------------------
(* Ordered access to a table on disk.                                      *)

(* A set of naturals has a least element. *)
LEMMA LeastElement ==
  ASSUME NEW T, T \subseteq Nat, T # {}
  PROVE  \E x \in T : \A y \in T : x <= y
<1>1. PICK x \in T : \A y \in T : <<y, x>> \notin OpToRel(<, Nat)
  BY NatLessThanWellFounded, WFMin
<1>2. \A y \in T : ~(y < x)
  BY <1>1 DEF OpToRel
<1> QED  BY <1>2

(* A bounded one has a greatest. *)
LEMMA GreatestElement ==
  ASSUME NEW m \in Nat, NEW T, T \subseteq 0..m, T # {}
  PROVE  \E x \in T : \A y \in T : y <= x
<1> DEFINE U == {u \in 0..m : m - u \in T}
<1>1. U \subseteq Nat
  OBVIOUS
<1>2. U # {}
  <2>1. PICK x \in T : x \in 0..m
    OBVIOUS
  <2>2. m - x \in 0..m /\ m - (m - x) = x
    BY <2>1
  <2> QED  BY <2>1, <2>2
<1>3. PICK u \in U : \A v \in U : u <= v
  <2> HIDE DEF U
  <2> QED  BY <1>1, <1>2, LeastElement
<1>4. m - u \in T /\ u \in 0..m
  BY <1>3
<1>5. ASSUME NEW y \in T PROVE y <= m - u
  <2>1. m - y \in 0..m /\ m - (m - y) = y /\ y \in 0..m
    OBVIOUS
  <2>2. u <= m - y
    BY <1>3, <2>1
  <2> QED  BY <1>4, <2>1, <2>2
<1> QED  BY <1>4, <1>5

-----------------------------------------------------------------------------
(* The keys of a page lie between its first and its last, and those of two
   pages are in the order of the pages.                                    *)
OnPage(p, k) == \E i \in LiveSlots(p) : main[p + 1][i] = k

PagesSpan ==
  /\ \A p \in PageIndexes : ~IsEmptied(p) =>
       /\ OnPage(p, FirstKey(p)) /\ OnPage(p, LastKey(p))
       /\ FirstKey(p) \in Int /\ LastKey(p) \in Int
  /\ \A p \in PageIndexes : \A k : OnPage(p, k) =>
       k \in Int /\ ~IsEmptied(p) /\ FirstKey(p) <= k /\ k <= LastKey(p)
  /\ \A p, q \in PageIndexes : \A k, m : p < q /\ OnPage(p, k) /\ OnPage(q, m) => k <= m

LEMMA SortedPagesSpan ==
  ASSUME IInv, SortedPages(main)
  PROVE  PagesSpan
<1>1. main \in Seq(Page) /\ Len(main) \in Nat
  BY DEF IInv, TypeOK
<1>2. ASSUME NEW p \in PageIndexes
      PROVE  /\ p + 1 \in 1..Len(main) /\ main[p + 1] \in Page
             /\ Len(main[p + 1]) \in Nat /\ DOMAIN main[p + 1] = 1..Len(main[p + 1])
             /\ LiveSlots(p) \subseteq 1..Len(main[p + 1]) /\ LiveSlots(p) \subseteq Nat
             /\ \A i \in LiveSlots(p) : main[p + 1][i] \in Keys /\ main[p + 1][i] \in Int
  <2>1. p + 1 \in 1..Len(main)
    BY <1>1 DEF PageIndexes
  <2>2. main[p + 1] \in Seq(Slot) /\ main[p + 1] \in Page
    BY <1>1, <2>1 DEF Page
  <2>3. Len(main[p + 1]) \in Nat /\ DOMAIN main[p + 1] = 1..Len(main[p + 1])
    BY <2>2
  <2>4. \A i \in 1..Len(main[p + 1]) : main[p + 1][i] \in Slot
    BY <2>2, <2>3
  <2>5. LiveSlots(p) \subseteq 1..Len(main[p + 1])
    BY <2>3 DEF LiveSlots
  <2>6. \A i \in LiveSlots(p) : main[p + 1][i] \in Keys
    BY <2>4, <2>5 DEF LiveSlots, Slot
  <2>7. LiveSlots(p) \subseteq Nat
    BY <2>5
  <2> QED  BY <2>1, <2>2, <2>3, <2>5, <2>6, <2>7, KeysAssumption
<1>3. ASSUME NEW p \in PageIndexes, NEW q \in PageIndexes, NEW i \in LiveSlots(p), NEW j \in LiveSlots(q),
             p < q \/ (p = q /\ i <= j)
      PROVE  main[p + 1][i] <= main[q + 1][j]
  <2>1. PICK a, b : a = p + 1 /\ b = q + 1
    OBVIOUS
  <2>2. a \in 1..Len(main) /\ b \in 1..Len(main) /\ i \in 1..Len(main[a]) /\ j \in 1..Len(main[b])
    BY <1>2, <2>1
  <2>3. main[a][i] # Hole /\ main[b][j] # Hole
    BY <2>1 DEF LiveSlots
  <2>4. SlotBefore(a, i, b, j)
    BY <1>1, <1>3, <2>1 DEF SlotBefore, PageIndexes
  <2> QED  BY <2>1, <2>2, <2>3, <2>4 DEF SortedPages
<1>4. ASSUME NEW p \in PageIndexes, ~IsEmptied(p)
      PROVE  /\ \E i \in LiveSlots(p) : /\ FirstKey(p) = main[p + 1][i]
                                        /\ \A j \in LiveSlots(p) : i <= j
             /\ \E i \in LiveSlots(p) : /\ LastKey(p) = main[p + 1][i]
                                        /\ \A j \in LiveSlots(p) : j <= i
  <2>1. LiveSlots(p) # {} /\ LiveSlots(p) \subseteq Nat
    BY <1>2, <1>4 DEF IsEmptied
  <2>2. PICK m \in Nat : m = Len(main[p + 1])
    BY <1>2
  <2>3. LiveSlots(p) \subseteq 0..m
    BY <1>2, <2>2
  <2>4. \E i \in LiveSlots(p) : \A j \in LiveSlots(p) : i <= j
    BY <2>1, LeastElement
  <2>5. \E i \in LiveSlots(p) : \A j \in LiveSlots(p) : j <= i
    BY <2>1, <2>3, GreatestElement
  <2>6. PICK i : i = CHOOSE x \in LiveSlots(p) : \A y \in LiveSlots(p) : x <= y
    OBVIOUS
  <2>7. i \in LiveSlots(p) /\ \A y \in LiveSlots(p) : i <= y
    BY <2>4, <2>6
  <2>8. PICK j : j = CHOOSE x \in LiveSlots(p) : \A y \in LiveSlots(p) : y <= x
    OBVIOUS
  <2>9. j \in LiveSlots(p) /\ \A y \in LiveSlots(p) : y <= j
    BY <2>5, <2>8
  <2> QED  BY <2>6, <2>7, <2>8, <2>9 DEF FirstKey, LastKey
<1>5. ASSUME NEW p \in PageIndexes, ~IsEmptied(p)
      PROVE  /\ OnPage(p, FirstKey(p)) /\ OnPage(p, LastKey(p))
             /\ FirstKey(p) \in Int /\ LastKey(p) \in Int
  BY <1>2, <1>4, <1>5 DEF OnPage
<1>6. ASSUME NEW p \in PageIndexes, NEW k, OnPage(p, k)
      PROVE  k \in Int /\ ~IsEmptied(p) /\ FirstKey(p) <= k /\ k <= LastKey(p)
  <2>1. PICK i \in LiveSlots(p) : main[p + 1][i] = k
    BY <1>6 DEF OnPage
  <2>2. ~IsEmptied(p) /\ k \in Int
    BY <1>2, <2>1 DEF IsEmptied
  <2>3. FirstKey(p) <= k
    BY <1>3, <1>4, <2>1, <2>2
  <2>4. k <= LastKey(p)
    BY <1>3, <1>4, <2>1, <2>2
  <2> QED  BY <2>2, <2>3, <2>4
<1>7. ASSUME NEW p \in PageIndexes, NEW q \in PageIndexes, NEW k, NEW m,
             p < q, OnPage(p, k), OnPage(q, m)
      PROVE  k <= m
  BY <1>3, <1>7 DEF OnPage
<1> QED  BY <1>5, <1>6, <1>7 DEF PagesSpan

-----------------------------------------------------------------------------
(* The loop of _locate_page. *)
Width(at) == at.high - at.low + 1

(* Every pass of the loop leaves a shorter span of pages. *)
LEMMA PassNarrows ==
  ASSUME IInv, NEW key, NEW floor, NEW at \in Span, at.low <= at.high
  PROVE  /\ Middle(at) \in PageIndexes /\ at.low <= Middle(at) /\ Middle(at) <= at.high
         /\ Narrowed(at, key, floor) \in Span
         /\ Width(Narrowed(at, key, floor)) \in Nat
         /\ Width(Narrowed(at, key, floor)) < Width(at)
<1>1. PICK n \in Nat : n = Len(main)
  BY DEF IInv, TypeOK
<1>2. PICK l \in 0..n, h \in -1..(n - 1), c \in -1..(n - 1) :
        at = [low |-> l, high |-> h, candidate |-> c]
  BY <1>1 DEF Span
<1>3. PICK m : m = Middle(at)
  OBVIOUS
<1>4. at.low = l /\ at.high = h /\ at.candidate = c /\ l <= h
  BY <1>2
<1>5. m = (l + h) \div 2
  BY <1>3, <1>4 DEF Middle
<1>6. m \in Int /\ l <= m /\ m <= h /\ m \in 0..(n - 1)
  BY <1>1, <1>4, <1>5
<1>7. m \in PageIndexes
  BY <1>1, <1>6 DEF PageIndexes
<1> DEFINE left(x) == [low |-> l, high |-> m - 1, candidate |-> x]
           right   == [low |-> m + 1, high |-> h, candidate |-> c]
<1>8. Narrowed(at, key, floor) \in {left(c), left(m), right}
  BY <1>2, <1>3 DEF Narrowed
<1>9. ASSUME NEW b \in {left(c), left(m), right}
      PROVE  b \in Span /\ Width(b) \in Nat /\ Width(b) < Width(at)
  <2>1. CASE b = left(c)
    BY <1>1, <1>4, <1>6, <2>1 DEF Span, Width
  <2>2. CASE b = left(m)
    BY <1>1, <1>4, <1>6, <2>2 DEF Span, Width
  <2>3. CASE b = right
    BY <1>1, <1>4, <1>6, <2>3 DEF Span, Width
  <2> QED  BY <2>1, <2>2, <2>3
<1> HIDE DEF left, right
<1> QED  BY <1>3, <1>4, <1>6, <1>7, <1>8, <1>9

(* Pages and the ends of spans are numbers. *)
LEMMA SpanTypes ==
  ASSUME IInv
  PROVE  /\ \A p \in PageIndexes : p \in Int /\ p # NoPage /\ 0 <= p /\ p <= Len(main) - 1
         /\ \A at \in Span : /\ at.low \in Int /\ at.high \in Int /\ at.candidate \in Int
                             /\ at.candidate # NoPage => at.candidate \in Nat
         /\ Len(main) \in Nat
<1>1. PICK n \in Nat : n = Len(main)
  BY DEF IInv, TypeOK
<1>2. \A p \in PageIndexes : p \in Int /\ p # NoPage /\ 0 <= p /\ p <= n - 1
  BY <1>1 DEF PageIndexes, NoPage
<1>3. ASSUME NEW at \in Span
      PROVE  /\ at.low \in Int /\ at.high \in Int /\ at.candidate \in Int
             /\ at.candidate # NoPage => at.candidate \in Nat
  <2>1. at.low \in 0..n /\ at.high \in -1..(n - 1) /\ at.candidate \in -1..(n - 1)
    BY <1>1 DEF Span
  <2> QED  BY <2>1 DEF NoPage
<1> QED  BY <1>1, <1>2, <1>3

(* One pass, over what a function g says of the spans that follow. *)
Pass(g, at, key, floor) ==
  IF at.low > at.high THEN Missed(at, floor)
  ELSE IF Encloses(Middle(at), key) THEN Middle(at)
  ELSE g[Narrowed(at, key, floor)]

Spans(m) == {at \in Span : Width(at) <= m}
Solves(g, m, key, floor) ==
  DOMAIN g = Spans(m) /\ \A at \in Spans(m) : g[at] = Pass(g, at, key, floor)

(* A function that answers for spans of at most m pages can be extended by one
   page more.                                                              *)
LEMMA OnePageMore ==
  ASSUME IInv, NEW key, NEW floor, NEW m \in Nat, NEW g, Solves(g, m, key, floor)
  PROVE  \E f : Solves(f, m + 1, key, floor)
<1> DEFINE f == [at \in Spans(m + 1) |->
                   IF at \in Spans(m) THEN g[at] ELSE Pass(g, at, key, floor)]
<1>1. \A at \in Span : Width(at) \in Int
  BY DEF Span, Width, IInv, TypeOK
<1>2. Spans(m) \subseteq Spans(m + 1)
  BY <1>1 DEF Spans
<1>3. ASSUME NEW at \in Spans(m + 1) PROVE f[at] = Pass(g, at, key, floor)
  BY <1>3 DEF Solves
<1>4. ASSUME NEW at \in Spans(m + 1) PROVE Pass(g, at, key, floor) = Pass(f, at, key, floor)
  <2>1. at \in Span /\ Width(at) <= m + 1
    BY DEF Spans
  <2>2. CASE at.low > at.high
    BY <2>2 DEF Pass
  <2>3. CASE ~(at.low > at.high)
    <3>1. at.low <= at.high
      BY <2>1, <2>3 DEF Span, IInv, TypeOK
    <3>2. PICK b : b = Narrowed(at, key, floor)
      OBVIOUS
    <3>3. b \in Span /\ Width(b) \in Nat /\ Width(b) < Width(at)
      BY <2>1, <3>1, <3>2, PassNarrows
    <3>4. b \in Spans(m)
      BY <1>1, <2>1, <3>3 DEF Spans
    <3>5. f[b] = g[b]
      BY <1>2, <3>4
    <3> HIDE DEF f
    <3> QED  BY <3>2, <3>5 DEF Pass
  <2> QED  BY <2>2, <2>3
<1>5. DOMAIN f = Spans(m + 1)
  OBVIOUS
<1> HIDE DEF f
<1> QED  BY <1>3, <1>4, <1>5 DEF Solves

LEMMA LoopEnds ==
  ASSUME IInv, NEW key, NEW floor, NEW m \in Nat
  PROVE  \E g : Solves(g, m, key, floor)
<1> DEFINE T == {n \in Nat : ~\E g : Solves(g, n, key, floor)}
<1>1. \E g : Solves(g, 0, key, floor)
  <2> DEFINE g == [at \in Spans(0) |-> Missed(at, floor)]
  <2>1. ASSUME NEW at \in Spans(0) PROVE g[at] = Pass(g, at, key, floor)
    <3>1. at \in Span /\ Width(at) <= 0
      BY DEF Spans
    <3>2. at.low > at.high
      BY <3>1 DEF Span, Width, IInv, TypeOK
    <3> QED  BY <3>2 DEF Pass
  <2>2. DOMAIN g = Spans(0)
    OBVIOUS
  <2> HIDE DEF g
  <2> QED  BY <2>1, <2>2 DEF Solves
<1>2. ASSUME T # {} PROVE FALSE
  <2>1. PICK n \in T : \A y \in T : n <= y
    BY <1>2, LeastElement
  <2>2. n \in Nat /\ n # 0
    BY <1>1, <2>1
  <2>3. n - 1 \in Nat /\ n - 1 \notin T /\ (n - 1) + 1 = n
    BY <2>1, <2>2
  <2>4. PICK g : Solves(g, n - 1, key, floor)
    BY <2>3
  <2>5. \E f : Solves(f, (n - 1) + 1, key, floor)
    <3>1. PICK x \in Nat : x = n - 1
      BY <2>3
    <3> HIDE DEF T
    <3> QED  BY <2>4, <3>1, OnePageMore
  <2> QED  BY <2>1, <2>3, <2>5
<1> QED  BY <1>2

(* The loop answers for every span: at once, or as it does for the next one. *)
LEMMA DescentTakesSteps ==
  ASSUME IInv, NEW key, NEW floor, NEW at \in Span
  PROVE  Descent(key, floor)[at] = Pass(Descent(key, floor), at, key, floor)
<1>1. PICK n \in Nat : n = Len(main)
  BY DEF IInv, TypeOK
<1>2. Spans(n) = Span
  <2>1. ASSUME NEW a \in Span PROVE Width(a) <= n
    BY <1>1 DEF Span, Width
  <2> QED  BY <2>1 DEF Spans
<1>3. PICK g : Solves(g, n, key, floor)
  BY LoopEnds
<1>4. PICK h : h = [a \in Span |-> g[a]]
  OBVIOUS
<1>5. h = [a \in Span |-> Pass(h, a, key, floor)]
  <2>1. ASSUME NEW a \in Span PROVE h[a] = Pass(h, a, key, floor)
    <3>1. h[a] = Pass(g, a, key, floor)
      BY <1>2, <1>3, <1>4 DEF Solves
    <3>2. CASE a.low > a.high
      BY <3>1, <3>2 DEF Pass
    <3>3. CASE ~(a.low > a.high)
      <4>1. a.low <= a.high
        BY <3>3 DEF Span, IInv, TypeOK
      <4>2. Narrowed(a, key, floor) \in Span
        BY <4>1, PassNarrows
      <4> QED  BY <1>4, <3>1, <4>2 DEF Pass
    <3> QED  BY <3>2, <3>3
  <2> QED  BY <1>4, <2>1
<1>6. \E d : d = [a \in Span |-> IF a.low > a.high THEN Missed(a, floor)
                                 ELSE IF Encloses(Middle(a), key) THEN Middle(a)
                                 ELSE d[Narrowed(a, key, floor)]]
  BY <1>5 DEF Pass
<1>7. Descent(key, floor) =
        [a \in Span |-> IF a.low > a.high THEN Missed(a, floor)
                        ELSE IF Encloses(Middle(a), key) THEN Middle(a)
                        ELSE Descent(key, floor)[Narrowed(a, key, floor)]]
  BY <1>6 DEF Descent
<1> QED  BY <1>7 DEF Pass

(* A set of spans that has a span when it has the one the next pass leaves has
   every span.                                                             *)
LEMMA EverySpan ==
  ASSUME IInv, NEW key, NEW floor, NEW S,
         \A at \in Span : /\ Width(at) \in Nat
                          /\ at.low <= at.high => Narrowed(at, key, floor) \in S
                          => at \in S
  PROVE  \A at \in Span : Width(at) \in Nat => at \in S
<1> DEFINE T == {n \in Nat : \E at \in Span : Width(at) = n /\ at \notin S}
<1>1. ASSUME T # {} PROVE FALSE
  <2>1. PICK n \in T : \A y \in T : n <= y
    BY <1>1, LeastElement
  <2>2. PICK at \in Span : Width(at) = n /\ at \notin S
    BY <2>1
  <2>3. n \in Nat /\ at.low <= at.high /\ Narrowed(at, key, floor) \notin S
    BY <2>1, <2>2
  <2>4. PICK b : b = Narrowed(at, key, floor)
    OBVIOUS
  <2>5. b \in Span /\ Width(b) \in Nat /\ Width(b) < n
    BY <2>2, <2>3, <2>4, PassNarrows
  <2>6. Width(b) \in T
    BY <2>3, <2>4, <2>5
  <2> HIDE DEF T
  <2> QED  BY <2>1, <2>3, <2>5, <2>6
<1> QED  BY <1>1

(* What one pass does to the loop's variables, and when. *)
LEMMA PassCases ==
  ASSUME IInv, PagesSpan, NEW key \in Int, NEW floor, NEW at \in Span, at.low <= at.high,
         ~Encloses(Middle(at), key)
  PROVE  LET m == Middle(at)
             b == Narrowed(at, key, floor)
         IN  \/ IsEmptied(m) /\ b.low = at.low /\ b.high = m - 1 /\ b.candidate = at.candidate
             \/ /\ ~IsEmptied(m) /\ key < FirstKey(m) /\ b.low = at.low /\ b.high = m - 1
                /\ b.candidate = IF floor THEN m ELSE at.candidate
             \/ /\ ~IsEmptied(m) /\ LastKey(m) < key /\ b.low = m + 1 /\ b.high = at.high
                /\ b.candidate = at.candidate
<1>1. PICK m : m = Middle(at)
  OBVIOUS
<1>2. m \in PageIndexes
  BY <1>1, PassNarrows
<1>3. ~IsEmptied(m) => FirstKey(m) \in Int /\ LastKey(m) \in Int
  BY <1>2 DEF PagesSpan
<1>4. ~IsEmptied(m) /\ ~(key < FirstKey(m)) => LastKey(m) < key
  BY <1>1, <1>3 DEF Encloses
<1>5. at = [low |-> at.low, high |-> at.high, candidate |-> at.candidate]
  BY DEF Span
<1>6. CASE IsEmptied(m)
  BY <1>1, <1>5, <1>6 DEF Narrowed
<1>7. CASE ~IsEmptied(m) /\ key < FirstKey(m)
  BY <1>1, <1>5, <1>7 DEF Narrowed
<1>8. CASE ~IsEmptied(m) /\ ~(key < FirstKey(m))
  BY <1>1, <1>4, <1>5, <1>8 DEF Narrowed
<1> QED  BY <1>1, <1>6, <1>7, <1>8

(* A page that has the key stays in the span, emptied pages being last. *)
LEMMA KeyStaysInSpan ==
  ASSUME IInv, PagesSpan, EmptiedLast, NEW key \in Int, NEW floor, NEW at \in Span,
         at.low <= at.high, ~Encloses(Middle(at), key),
         NEW p \in PageIndexes, at.low <= p, p <= at.high, NEW k, OnPage(p, k), key = k
  PROVE  /\ Narrowed(at, key, floor).low <= p
         /\ p <= Narrowed(at, key, floor).high
<1>1. PICK m : m = Middle(at)
  OBVIOUS
<1>2. PICK b : b = Narrowed(at, key, floor)
  OBVIOUS
<1>3. m \in PageIndexes /\ m \in Int /\ p \in Int /\ at.low \in Int /\ at.high \in Int
  <2>1. m \in PageIndexes
    BY <1>1, PassNarrows
  <2> QED  BY <2>1, SpanTypes
<1>4. ~IsEmptied(p) /\ FirstKey(p) <= key /\ key <= LastKey(p)
  BY DEF PagesSpan
<1>5. CASE IsEmptied(m) /\ b.low = at.low /\ b.high = m - 1
  <2>1. p # m /\ ~(m < p)
    BY <1>3, <1>4, <1>5 DEF EmptiedLast
  <2> QED  BY <1>2, <1>3, <1>5, <2>1
<1>6. CASE ~IsEmptied(m) /\ key < FirstKey(m) /\ b.low = at.low /\ b.high = m - 1
  <2>1. OnPage(m, FirstKey(m)) /\ FirstKey(m) \in Int
    BY <1>3, <1>6 DEF PagesSpan
  <2>2. m < p => FirstKey(m) <= key
    BY <1>3, <2>1 DEF PagesSpan
  <2>3. p < m
    BY <1>3, <1>4, <1>6, <2>1, <2>2
  <2> QED  BY <1>2, <1>3, <1>6, <2>3
<1>7. CASE ~IsEmptied(m) /\ LastKey(m) < key /\ b.low = m + 1 /\ b.high = at.high
  <2>1. OnPage(m, LastKey(m)) /\ LastKey(m) \in Int
    BY <1>3, <1>7 DEF PagesSpan
  <2>2. p < m => key <= LastKey(m)
    BY <1>3, <2>1 DEF PagesSpan
  <2>3. m < p
    BY <1>3, <1>4, <1>7, <2>1, <2>2
  <2> QED  BY <1>2, <1>3, <1>7, <2>3
<1> QED  BY <1>1, <1>2, <1>5, <1>6, <1>7, PassCases

(* The loop starts with the whole file. *)
LEMMA WholeFileIsSpan ==
  ASSUME IInv
  PROVE  WholeFile \in Span /\ Width(WholeFile) \in Nat
BY DEF IInv, TypeOK, WholeFile, Span, Width, NoPage

(* search_key descends to a page that encloses the key, and to one if any page
   has the key.                                                            *)
LEMMA SearchLocates ==
  ASSUME IInv, PagesSpan, NEW key \in Int
  PROVE  /\ \/ LocatePage(key, FALSE) = NoPage
            \/ LocatePage(key, FALSE) \in PageIndexes /\ Encloses(LocatePage(key, FALSE), key)
         /\ \A p \in PageIndexes :
              EmptiedLast /\ OnPage(p, key) => LocatePage(key, FALSE) # NoPage
<1> DEFINE D == Descent(key, FALSE)
           Answers(at) ==
             /\ D[at] = NoPage \/ (D[at] \in PageIndexes /\ Encloses(D[at], key))
             /\ \A p \in PageIndexes :
                  EmptiedLast /\ OnPage(p, key) /\ at.low <= p /\ p <= at.high => D[at] # NoPage
           S == {at \in Span : Answers(at)}
<1>1. ASSUME NEW at \in Span, Width(at) \in Nat,
             at.low <= at.high => Narrowed(at, key, FALSE) \in S
      PROVE  Answers(at)
  <2>1. D[at] = Pass(D, at, key, FALSE)
    BY DescentTakesSteps
  <2>2. at.low \in Int /\ at.high \in Int
    BY SpanTypes
  <2>3. PICK d : d = D[at]
    OBVIOUS
  <2> SUFFICES /\ d = NoPage \/ (d \in PageIndexes /\ Encloses(d, key))
               /\ \A p \in PageIndexes :
                    EmptiedLast /\ OnPage(p, key) /\ at.low <= p /\ p <= at.high => d # NoPage
    BY <2>3
  <2>4. CASE at.low > at.high
    <3>1. d = NoPage
      BY <2>1, <2>3, <2>4 DEF Pass, Missed
    <3>2. \A p \in PageIndexes : ~(at.low <= p /\ p <= at.high)
      BY <2>2, <2>4, SpanTypes
    <3> QED  BY <3>1, <3>2
  <2>5. CASE at.low <= at.high /\ Encloses(Middle(at), key)
    <3>1. ~(at.low > at.high)
      BY <2>2, <2>5
    <3>2. d = Middle(at)
      BY <2>1, <2>3, <2>5, <3>1 DEF Pass
    <3>3. d \in PageIndexes
      BY <2>5, <3>2, PassNarrows
    <3>4. d # NoPage
      BY <3>3, SpanTypes
    <3> QED  BY <2>5, <3>2, <3>3, <3>4
  <2>6. CASE at.low <= at.high /\ ~Encloses(Middle(at), key)
    <3>1. PICK b : b = Narrowed(at, key, FALSE)
      OBVIOUS
    <3>2. ~(at.low > at.high)
      BY <2>2, <2>6
    <3>3. d = D[b]
      <4> HIDE DEF D
      <4> QED  BY <2>1, <2>3, <2>6, <3>1, <3>2 DEF Pass
    <3>5. Answers(b)
      <4>1. b \in S
        BY <1>1, <2>6, <3>1
      <4> HIDE DEF Answers
      <4> QED  BY <4>1
    <3>6. /\ d = NoPage \/ (d \in PageIndexes /\ Encloses(d, key))
          /\ \A p \in PageIndexes :
               EmptiedLast /\ OnPage(p, key) /\ b.low <= p /\ p <= b.high => d # NoPage
      BY <3>3, <3>5
    <3>4. ASSUME NEW p \in PageIndexes, EmptiedLast, OnPage(p, key), at.low <= p, p <= at.high
          PROVE  b.low <= p /\ p <= b.high
      BY <2>6, <3>1, <3>4, KeyStaysInSpan
    <3> QED  BY <3>6, <3>4
  <2> QED  BY <2>2, <2>4, <2>5, <2>6
<1>2. Answers(WholeFile)
  <2>1. \A at \in Span : /\ Width(at) \in Nat
                         /\ at.low <= at.high => Narrowed(at, key, FALSE) \in S
                         => at \in S
    <3> HIDE DEF Answers
    <3> QED  BY <1>1
  <2>2. WholeFile \in S
    <3> HIDE DEF S
    <3> QED  BY <2>1, EverySpan, WholeFileIsSpan
  <2> QED  BY <2>2
<1>3. \A p \in PageIndexes : WholeFile.low <= p /\ p <= WholeFile.high
  BY SpanTypes DEF WholeFile
<1>4. PICK d : d = D[WholeFile]
  OBVIOUS
<1>5. /\ d = NoPage \/ (d \in PageIndexes /\ Encloses(d, key))
      /\ \A p \in PageIndexes : EmptiedLast /\ OnPage(p, key) => d # NoPage
  BY <1>2, <1>3, <1>4
<1> QED  BY <1>4, <1>5 DEF LocatePage

(* No key is in two pages. *)
DistinctPages ==
  \A p, q \in PageIndexes : \A k : OnPage(p, k) /\ OnPage(q, k) => p = q

(* The pages with a key from `lower` on are in the span, or from its candidate
   on.                                                                     *)
Reaches(at, lower) ==
  \A p \in PageIndexes : \A k : OnPage(p, k) /\ lower <= k =>
    at.low <= p /\ (p <= at.high \/ (at.candidate # NoPage /\ at.candidate <= p))

(* A pass leaves none of them behind. *)
LEMMA PassReaches ==
  ASSUME IInv, PagesSpan, EmptiedLast, NEW lower \in Int, NEW at \in Span, at.low <= at.high,
         ~Encloses(Middle(at), lower), Reaches(at, lower)
  PROVE  Reaches(Narrowed(at, lower, TRUE), lower)
<1>1. PICK m : m = Middle(at)
  OBVIOUS
<1>2. PICK b : b = Narrowed(at, lower, TRUE)
  OBVIOUS
<1>3. /\ m \in PageIndexes /\ m \in Int /\ m # NoPage /\ m <= at.high
      /\ at.low \in Int /\ at.high \in Int /\ at.candidate \in Int
  <2>1. m \in PageIndexes /\ m <= at.high
    BY <1>1, PassNarrows
  <2> QED  BY <2>1, SpanTypes
<1>4. ASSUME NEW p \in PageIndexes, NEW k, OnPage(p, k), lower <= k
      PROVE  b.low <= p /\ (p <= b.high \/ (b.candidate # NoPage /\ b.candidate <= p))
  <2>1. /\ p \in Int /\ k \in Int /\ ~IsEmptied(p) /\ FirstKey(p) <= k /\ k <= LastKey(p)
        /\ at.low <= p /\ (p <= at.high \/ (at.candidate # NoPage /\ at.candidate <= p))
    BY <1>4, SpanTypes DEF PagesSpan, Reaches
  <2>2. CASE IsEmptied(m) /\ b.low = at.low /\ b.high = m - 1 /\ b.candidate = at.candidate
    <3>1. p # m /\ ~(m < p)
      BY <1>3, <2>1, <2>2 DEF EmptiedLast
    <3> QED  BY <1>3, <2>1, <2>2, <3>1
  <2>3. CASE b.low = at.low /\ b.high = m - 1 /\ b.candidate = m
    BY <1>3, <2>1, <2>3
  <2>4. CASE /\ ~IsEmptied(m) /\ LastKey(m) < lower /\ b.low = m + 1 /\ b.high = at.high
             /\ b.candidate = at.candidate
    <3>1. OnPage(m, LastKey(m)) /\ LastKey(m) \in Int
      BY <1>3, <2>4 DEF PagesSpan
    <3>2. p < m => k <= LastKey(m)
      BY <1>3, <1>4, <3>1 DEF PagesSpan
    <3>3. m < p
      BY <1>3, <1>4, <2>1, <2>4, <3>1, <3>2
    <3> QED  BY <1>3, <2>1, <2>4, <3>3
  <2>5. \/ IsEmptied(m) /\ b.low = at.low /\ b.high = m - 1 /\ b.candidate = at.candidate
        \/ b.low = at.low /\ b.high = m - 1 /\ b.candidate = m
        \/ /\ ~IsEmptied(m) /\ LastKey(m) < lower /\ b.low = m + 1 /\ b.high = at.high
           /\ b.candidate = at.candidate
    BY <1>1, <1>2, PassCases
  <2> QED  BY <2>2, <2>3, <2>4, <2>5
<1> QED  BY <1>2, <1>4 DEF Reaches

(* A sweep starts before every page that has a key from its bound on. *)
LEMMA SweepLocates ==
  ASSUME IInv, PagesSpan, EmptiedLast, DistinctPages, NEW lower \in Int
  PROVE  /\ LocatePage(lower, TRUE) \in Nat
         /\ \A p \in PageIndexes : \A k :
              OnPage(p, k) /\ lower <= k => LocatePage(lower, TRUE) <= p
<1> DEFINE D == Descent(lower, TRUE)
           Answers(at) ==
             Reaches(at, lower) =>
               /\ D[at] \in Nat
               /\ \A p \in PageIndexes : \A k : OnPage(p, k) /\ lower <= k => D[at] <= p
           S == {at \in Span : Answers(at)}
<1>1. ASSUME NEW at \in Span, Width(at) \in Nat,
             at.low <= at.high => Narrowed(at, lower, TRUE) \in S
      PROVE  Answers(at)
  <2>0. PICK d : d = D[at]
    OBVIOUS
  <2> SUFFICES ASSUME Reaches(at, lower)
               PROVE  /\ d \in Nat
                      /\ \A p \in PageIndexes : \A k : OnPage(p, k) /\ lower <= k => d <= p
    BY <2>0
  <2>1. d = Pass(D, at, lower, TRUE)
    BY <2>0, DescentTakesSteps
  <2>2. /\ at.low \in Int /\ at.high \in Int /\ at.candidate \in Int
        /\ at.candidate # NoPage => at.candidate \in Nat
    BY SpanTypes
  <2>3. CASE at.low > at.high
    <3>1. d = IF at.candidate # NoPage THEN at.candidate ELSE Larger(0, at.low - 1)
      BY <2>1, <2>3 DEF Pass, Missed
    <3>2. d \in Nat /\ (at.candidate = NoPage => d = 0 \/ d = at.low - 1)
      BY <2>2, <3>1 DEF Larger
    <3>3. ASSUME NEW p \in PageIndexes, NEW k, OnPage(p, k), lower <= k PROVE d <= p
      <4>1. /\ p \in Int /\ 0 <= p /\ at.low <= p
            /\ p <= at.high \/ (at.candidate # NoPage /\ at.candidate <= p)
        BY <3>3, SpanTypes DEF Reaches
      <4> QED  BY <2>2, <2>3, <3>1, <3>2, <4>1
    <3> QED  BY <3>2, <3>3
  <2>4. CASE at.low <= at.high /\ Encloses(Middle(at), lower)
    <3>1. PICK m : m = Middle(at)
      OBVIOUS
    <3>5. ~(at.low > at.high)
      BY <2>2, <2>4
    <3>6. d = m
      BY <2>1, <2>4, <3>1, <3>5 DEF Pass
    <3>7. m \in PageIndexes
      BY <2>4, <3>1, PassNarrows
    <3>2. d = m /\ m \in PageIndexes /\ m \in Nat
      BY <3>6, <3>7, SpanTypes
    <3>3. OnPage(m, FirstKey(m)) /\ FirstKey(m) \in Int /\ FirstKey(m) <= lower
      BY <2>4, <3>1, <3>2 DEF PagesSpan, Encloses
    <3>4. ASSUME NEW p \in PageIndexes, NEW k, OnPage(p, k), lower <= k PROVE m <= p
      <4>1. p \in Int /\ k \in Int
        BY <3>4, SpanTypes DEF PagesSpan
      <4>2. CASE p < m
        <5>1. k <= FirstKey(m)
          BY <3>2, <3>3, <3>4, <4>2 DEF PagesSpan
        <5>2. k = FirstKey(m)
          BY <3>3, <3>4, <4>1, <5>1
        <5>3. p = m
          BY <3>2, <3>3, <3>4, <5>2 DEF DistinctPages
        <5> QED  BY <3>2, <4>2, <5>3
      <4> QED  BY <3>2, <4>1, <4>2
    <3> QED  BY <3>2, <3>4
  <2>5. CASE at.low <= at.high /\ ~Encloses(Middle(at), lower)
    <3>1. PICK b : b = Narrowed(at, lower, TRUE)
      OBVIOUS
    <3>2. ~(at.low > at.high)
      BY <2>2, <2>5
    <3>3. d = D[b]
      <4> HIDE DEF D
      <4> QED  BY <2>1, <2>5, <3>1, <3>2 DEF Pass
    <3>4. Answers(b)
      <4>1. b \in S
        BY <1>1, <2>5, <3>1
      <4> HIDE DEF Answers
      <4> QED  BY <4>1
    <3>5. Reaches(b, lower)
      BY <2>5, <3>1, PassReaches
    <3> QED  BY <3>3, <3>4, <3>5
  <2> QED  BY <2>2, <2>3, <2>4, <2>5
<1>2. Answers(WholeFile)
  <2>1. \A at \in Span : /\ Width(at) \in Nat
                         /\ at.low <= at.high => Narrowed(at, lower, TRUE) \in S
                         => at \in S
    <3> HIDE DEF Answers
    <3> QED  BY <1>1
  <2>2. WholeFile \in S
    <3> HIDE DEF S
    <3> QED  BY <2>1, EverySpan, WholeFileIsSpan
  <2> QED  BY <2>2
<1>3. Reaches(WholeFile, lower)
  BY SpanTypes DEF Reaches, WholeFile
<1>4. PICK d : d = D[WholeFile]
  OBVIOUS
<1>5. /\ d \in Nat
      /\ \A p \in PageIndexes : \A k : OnPage(p, k) /\ lower <= k => d <= p
  BY <1>2, <1>3, <1>4
<1> QED  BY <1>4, <1>5 DEF LocatePage

-----------------------------------------------------------------------------
(* The rows of the main file and those of the overflow area. *)
MainRead ==
  /\ \A r \in Live : Rows[r] = Fetch(r) /\ Rows[r] \in Int /\ (r[1] \in PageIndexes \/ r[1] < 0)
  /\ \A r \in Live : r[1] \in PageIndexes => OnPage(r[1], Rows[r])
  /\ \A p \in PageIndexes : \A k : OnPage(p, k) => \E r \in Live : r[1] = p /\ Rows[r] = k

(* A page of the main file, by its slots. *)
LEMMA MainPage ==
  ASSUME IInv, Ordered, NEW p \in PageIndexes
  PROVE  /\ p \in Int /\ PageAt(p) = main[p + 1]
         /\ Len(main[p + 1]) \in Nat /\ Len(main[p + 1]) <= Capacity
         /\ DOMAIN main[p + 1] = 1..Len(main[p + 1])
<1>1. main \in Seq(Page) /\ Len(main) \in Nat /\ p \in 0..(Len(main) - 1)
  BY DEF IInv, TypeOK, PageIndexes
<1>2. p + 1 \in 1..Len(main) /\ ~IsFill(p)
  BY <1>1 DEF IsFill
<1>3. main[p + 1] \in Page
  BY <1>1, <1>2
<1>4. PageAt(p) = main[p + 1]
  BY <1>1, <1>2 DEF PageAt, ReadPage
<1>5. Len(main[p + 1]) \in Nat /\ Len(main[p + 1]) <= Capacity
      /\ DOMAIN main[p + 1] = 1..Len(main[p + 1])
  BY <1>3 DEF Page
<1> QED  BY <1>1, <1>4, <1>5

(* Each live row is in a slot of a page of the main file, or of the overflow. *)
LEMMA RowsInPages ==
  ASSUME IInv, Ordered
  PROVE  MainRead
<1>1. RowsRead
  BY LiveAreRead
<1>2. ASSUME NEW r \in Live
      PROVE  /\ Rows[r] = Fetch(r) /\ Fetch(r) \in Keys
             /\ r[1] \in PageIndexes \/ r[1] < 0
             /\ Addressed(r)
  <2>1. r \in Issued /\ Fetch(r) # Hole
    BY DEF Live
  <2>2. Addressed(r)
    BY <2>1, IssuedSlots DEF IssuedAreAddressed
  <2>3. PICK page : page = PageAt(r[1])
    OBVIOUS
  <2>4. page \in Seq(Slot) /\ r[2] \in 0..(Len(page) - 1)
    BY <2>2, <2>3, PageAtType DEF Addressed, Page
  <2>5. page[r[2] + 1] \in Slot
    BY <2>4
  <2>6. Fetch(r) = page[r[2] + 1]
    BY <2>3, <2>4 DEF Fetch
  <2>7. ~IsFill(r[1]) => r[1] \in PageIndexes
    BY <2>1, IssuedAddress DEF PageIndexes
  <2>8. IsFill(r[1]) => r[1] < 0
    BY DEF IsFill
  <2> QED  BY <2>1, <2>2, <2>5, <2>6, <2>7, <2>8 DEF Rows, Slot
<1>3. ASSUME NEW r \in Live, r[1] \in PageIndexes PROVE OnPage(r[1], Rows[r])
  <2>1. PICK p, i : p = r[1] /\ i = r[2] + 1
    OBVIOUS
  <2>2. r[2] \in 0..(Len(main[p + 1]) - 1) /\ Len(main[p + 1]) \in Nat
        /\ DOMAIN main[p + 1] = 1..Len(main[p + 1]) /\ PageAt(p) = main[p + 1]
    BY <1>2, <1>3, <2>1, MainPage DEF Addressed
  <2>3. Fetch(r) = main[p + 1][i] /\ i \in DOMAIN main[p + 1]
    BY <2>1, <2>2 DEF Fetch
  <2>4. i \in LiveSlots(p)
    BY <2>3 DEF LiveSlots, Live
  <2> QED  BY <1>2, <2>1, <2>3, <2>4 DEF OnPage
<1>4. ASSUME NEW p \in PageIndexes, NEW k, OnPage(p, k)
      PROVE  \E r \in Live : r[1] = p /\ Rows[r] = k
  <2>1. PICK i \in LiveSlots(p) : main[p + 1][i] = k
    BY <1>4 DEF OnPage
  <2>2. /\ p \in Int /\ PageAt(p) = main[p + 1] /\ Len(main[p + 1]) \in Nat
        /\ i \in 1..Len(main[p + 1]) /\ k # Hole
    BY <2>1, MainPage DEF LiveSlots
  <2>3. PICK s : s = i - 1
    OBVIOUS
  <2>4. s \in 0..(Len(PageAt(p)) - 1) /\ s + 1 = i
    BY <2>2, <2>3
  <2>5. Fetch(<<p, s>>) = k
    BY <2>1, <2>2, <2>4 DEF Fetch
  <2>6. <<p, s>> \in Live
    BY <1>1, <2>2, <2>5 DEF RowsRead, StoredAt
  <2> QED  BY <1>2, <2>5, <2>6
<1>5. \A r \in Live : Rows[r] \in Int
  BY <1>2, KeysAssumption
<1> QED  BY <1>2, <1>3, <1>4, <1>5 DEF MainRead

(* Reading pages of the main file finds their live rows between the bounds. *)
LEMMA PagesRead ==
  ASSUME IInv, Ordered, NEW pages, pages \subseteq PageIndexes, NEW lower, NEW upper
  PROVE  \A r : r \in InPages(pages, lower, upper)
                <=> r \in Live /\ r[1] \in pages /\ Within(Rows[r], lower, upper)
<1>1. RowsRead /\ MainRead
  BY LiveAreRead, RowsInPages
<1>2. ASSUME NEW r, r \in InPages(pages, lower, upper)
      PROVE  r \in Live /\ r[1] \in pages /\ Within(Rows[r], lower, upper)
  <2>1. r \in pages \X (0..(Capacity - 1))
    BY <1>2 DEF InPages
  <2>2. PICK p \in pages, s \in 0..(Capacity - 1) : r = <<p, s>>
    BY <2>1
  <2>3. s < Len(main[p + 1]) /\ main[p + 1][s + 1] # Hole /\ Within(main[p + 1][s + 1], lower, upper)
    BY <1>2, <2>2 DEF InPages
  <2>4. p \in Int /\ PageAt(p) = main[p + 1] /\ Len(main[p + 1]) \in Nat /\ s \in Nat
    BY MainPage
  <2>5. Fetch(r) = main[p + 1][s + 1]
    BY <2>2, <2>3, <2>4 DEF Fetch
  <2>6. r \in Live
    BY <1>1, <2>2, <2>3, <2>4, <2>5 DEF RowsRead, StoredAt
  <2> QED  BY <1>1, <2>2, <2>3, <2>5, <2>6 DEF MainRead
<1>3. ASSUME NEW r \in Live, r[1] \in pages, Within(Rows[r], lower, upper)
      PROVE  r \in InPages(pages, lower, upper)
  <2>1. PICK p, s : p = r[1] /\ s = r[2]
    OBVIOUS
  <2>2. r = <<p, s>> /\ s \in 0..(Len(PageAt(p)) - 1) /\ p \in pages
    BY <1>3, <2>1, IssuedAddress DEF Live
  <2>3. PageAt(p) = main[p + 1] /\ Len(main[p + 1]) \in Nat /\ Len(main[p + 1]) <= Capacity
    BY <2>2, MainPage
  <2>4. Fetch(r) = main[p + 1][s + 1] /\ Fetch(r) # Hole
    BY <2>2, <2>3 DEF Fetch, Live
  <2>5. s \in 0..(Capacity - 1) /\ s < Len(main[p + 1])
    BY <2>2, <2>3, CapacityAssumption
  <2>6. Within(main[p + 1][s + 1], lower, upper)
    BY <1>1, <1>3, <2>4 DEF MainRead
  <2> QED  BY <2>2, <2>4, <2>5, <2>6 DEF InPages
<1> QED  BY <1>2, <1>3

(* Scanning the overflow area finds its live rows between the bounds. *)
LEMMA OverflowRead ==
  ASSUME IInv, Ordered, NEW lower, NEW upper
  PROVE  \A r : r \in InOverflow(lower, upper)
                <=> r \in Live /\ r[1] < 0 /\ Within(Rows[r], lower, upper)
<1>1. RowsRead /\ MainRead
  BY LiveAreRead, RowsInPages
<1>2. FillPages \in Nat /\ Len(FlushedFill) = FillPages
  BY FillPagesType, FlushedReads
<1>3. ASSUME NEW j \in 1..FillPages
      PROVE  /\ -j \in Int /\ IsFill(-j) /\ PageAt(-j) = FlushedFill[j]
             /\ Len(FlushedFill[j]) \in Nat /\ Len(FlushedFill[j]) <= Capacity
  <2>1. j - 1 \in 0..(FillPages - 1) /\ (j - 1) + 1 = j
    BY <1>2
  <2>2. IsFill(-j) /\ FillIndex(-j) = j - 1
    BY DEF IsFill, FillIndex, OverflowIndex
  <2>3. ReadPage(FlushedFill, j - 1) = FillPage(j - 1)
    BY <2>1, FlushedReads
  <2>4. ReadPage(FlushedFill, j - 1) = FlushedFill[j]
    BY <1>2, <2>1 DEF ReadPage
  <2>5. PageAt(-j) = FlushedFill[j]
    BY <2>2, <2>3, <2>4 DEF PageAt
  <2>6. -j \in Int
    OBVIOUS
  <2>7. FlushedFill[j] \in Page
    BY <2>5, <2>6, PageAtType
  <2>8. Len(FlushedFill[j]) \in Nat /\ Len(FlushedFill[j]) <= Capacity
    BY <2>7 DEF Page
  <2> QED  BY <2>2, <2>5, <2>6, <2>8
<1>4. ASSUME NEW r, r \in InOverflow(lower, upper)
      PROVE  r \in Live /\ r[1] < 0 /\ Within(Rows[r], lower, upper)
  <2>1. PICK at \in (1..FillPages) \X (1..Capacity) :
          /\ r = <<OverflowId(at[1] - 1), at[2] - 1>>
          /\ at[2] <= Len(FlushedFill[at[1]]) /\ FlushedFill[at[1]][at[2]] # Hole
          /\ Within(FlushedFill[at[1]][at[2]], lower, upper)
    BY <1>2, <1>4 DEF InOverflow
  <2>2. PICK j \in 1..FillPages, i \in 1..Capacity : at = <<j, i>>
    BY <2>1
  <2>3. /\ i <= Len(FlushedFill[j]) /\ FlushedFill[j][i] # Hole
        /\ Within(FlushedFill[j][i], lower, upper)
    BY <2>1, <2>2
  <2>4. r = <<-j, i - 1>>
    <3>1. -((j - 1) + 1) = -j
      BY <1>2
    <3> QED  BY <2>1, <2>2, <3>1 DEF OverflowId
  <2>5. /\ -j \in Int /\ -j < 0 /\ (i - 1) + 1 = i
        /\ i - 1 \in 0..(Len(FlushedFill[j]) - 1) /\ PageAt(-j) = FlushedFill[j]
    BY <1>2, <1>3, <2>3, CapacityAssumption
  <2>6. PICK p, s : p = -j /\ s = i - 1
    OBVIOUS
  <2>7. r = <<p, s>> /\ p \in Int /\ p < 0 /\ Fetch(r) = FlushedFill[j][i]
    BY <2>4, <2>5, <2>6 DEF Fetch
  <2>8. r \in Live
    BY <1>1, <2>3, <2>7 DEF RowsRead, StoredAt
  <2> QED  BY <1>1, <2>3, <2>7, <2>8 DEF MainRead
<1>5. ASSUME NEW r \in Live, r[1] < 0, Within(Rows[r], lower, upper)
      PROVE  r \in InOverflow(lower, upper)
  <2>1. PICK p, s : p = r[1] /\ s = r[2]
    OBVIOUS
  <2>2. /\ r = <<p, s>> /\ p \in Int /\ p < 0 /\ s \in 0..(Len(PageAt(p)) - 1)
        /\ IsFill(p) /\ FillIndex(p) \in 0..(FillPages - 1)
    BY <1>5, <2>1, IssuedAddress DEF Live, IsFill
  <2>3. PICK j, i : j = -p /\ i = s + 1
    OBVIOUS
  <2>4. j \in 1..FillPages /\ -j = p
    BY <1>2, <2>2, <2>3 DEF FillIndex, OverflowIndex
  <2>5. /\ PageAt(p) = FlushedFill[j] /\ Len(FlushedFill[j]) \in Nat
        /\ Len(FlushedFill[j]) <= Capacity
    BY <1>3, <2>4
  <2>6. i \in 1..Capacity /\ i <= Len(FlushedFill[j]) /\ s = i - 1
    BY <2>2, <2>3, <2>5, CapacityAssumption
  <2>7. Fetch(r) = FlushedFill[j][i] /\ Fetch(r) # Hole
    BY <2>2, <2>3, <2>5 DEF Fetch, Live
  <2>8. Within(FlushedFill[j][i], lower, upper)
    BY <1>1, <1>5, <2>7 DEF MainRead
  <2>9. r = <<OverflowId(j - 1), i - 1>>
    <3>1. -((j - 1) + 1) = p
      BY <1>2, <2>4
    <3> QED  BY <2>2, <2>6, <3>1 DEF OverflowId
  <2>10. PICK at : at = <<j, i>>
    OBVIOUS
  <2>11. /\ at \in (1..Len(FlushedFill)) \X (1..Capacity) /\ at[1] = j /\ at[2] = i
    BY <1>2, <2>4, <2>6, <2>10
  <2> QED  BY <2>6, <2>7, <2>8, <2>9, <2>11 DEF InOverflow
<1> QED  BY <1>4, <1>5

-----------------------------------------------------------------------------
(* What the two lookups find. *)
LEMMA SearchFindsRows ==
  ASSUME IInv, SortedPages(main)
  PROVE  SearchExact
<1> SUFFICES ASSUME Ordered, NEW k \in Keys
             PROVE  LET wanted == RowsWithin(Rows, k, k)
                        found  == SearchKey(k)
                    IN  /\ found \subseteq wanted
                        /\ EmptiedLast /\ wanted # {} => found # {}
                        /\ EmptiedLast /\ DistinctKeys(Rows) => found = wanted
  BY DEF SearchExact
<1>1. PICK wanted, found : wanted = RowsWithin(Rows, k, k) /\ found = SearchKey(k)
  OBVIOUS
<1>2. PagesSpan /\ MainRead
  BY SortedPagesSpan, RowsInPages
<1>3. k \in Int /\ k # NoBound
  BY KeysAssumption, HoleAssumption DEF NoBound
<1>4. PICK P : P = LocatePage(k, FALSE)
  OBVIOUS
<1>5. /\ P = NoPage \/ (P \in PageIndexes /\ Encloses(P, k))
      /\ \A p \in PageIndexes : EmptiedLast /\ OnPage(p, k) => P # NoPage
  BY <1>2, <1>3, <1>4, SearchLocates
<1>6. \A r : r \in wanted <=> r \in Live /\ Rows[r] = k
  <2>1. DOMAIN Rows = Live
    BY DEF Rows
  <2>2. \A r \in Live : Rows[r] \in Int
    BY <1>2 DEF MainRead
  <2>3. \A r \in Live : Within(Rows[r], k, k) <=> Rows[r] = k
    BY <1>3, <2>2 DEF Within
  <2> QED  BY <1>1, <2>1, <2>3 DEF RowsWithin
<1>7. \A r : r \in found <=> r \in wanted /\ (r[1] < 0 \/ (P # NoPage /\ r[1] = P))
  <2>1. PICK pages : pages = {P} \ {NoPage}
    OBVIOUS
  <2>2. pages \subseteq PageIndexes
    BY <1>5, <2>1
  <2>3. found = InPages(pages, k, k) \cup InOverflow(k, k)
    BY <1>1, <1>4, <2>1 DEF SearchKey
  <2>4. \A r : r \in InPages(pages, k, k) <=> r \in Live /\ r[1] \in pages /\ Within(Rows[r], k, k)
    BY <2>2, PagesRead
  <2>5. \A r : r \in InOverflow(k, k) <=> r \in Live /\ r[1] < 0 /\ Within(Rows[r], k, k)
    BY OverflowRead
  <2>6. \A r : r \in wanted <=> r \in Live /\ Within(Rows[r], k, k)
    BY <1>1 DEF RowsWithin, Rows
  <2> QED  BY <2>1, <2>3, <2>4, <2>5, <2>6
<1>8. ASSUME EmptiedLast, wanted # {} PROVE found # {}
  <2>1. PICK r \in Live : r \in wanted /\ Rows[r] = k
    BY <1>6, <1>8
  <2>2. CASE r[1] < 0
    BY <1>7, <2>1, <2>2
  <2>3. CASE r[1] \in PageIndexes
    <3>1. PICK p \in PageIndexes : p = r[1]
      BY <2>3
    <3>2. OnPage(p, k)
      BY <1>2, <2>1, <3>1 DEF MainRead
    <3>3. P \in PageIndexes /\ P # NoPage
      BY <1>5, <1>8, <3>2
    <3>4. ~IsEmptied(P) /\ FirstKey(P) <= k /\ k <= LastKey(P)
      BY <1>5, <3>3 DEF Encloses
    <3>5. /\ OnPage(P, FirstKey(P)) /\ OnPage(P, LastKey(P))
          /\ FirstKey(P) \in Int /\ LastKey(P) \in Int /\ p \in Int /\ P \in Int
      BY <1>2, <3>3, <3>4, SpanTypes DEF PagesSpan
    <3>6. OnPage(P, k)
      <4>1. CASE P = p
        BY <3>2, <4>1
      <4>2. CASE P < p
        <5>1. LastKey(P) <= k
          BY <1>2, <3>2, <3>3, <3>5, <4>2 DEF PagesSpan
        <5>2. LastKey(P) = k
          BY <1>3, <3>4, <3>5, <5>1
        <5> QED  BY <3>5, <5>2
      <4>3. CASE p < P
        <5>1. k <= FirstKey(P)
          BY <1>2, <3>2, <3>3, <3>5, <4>3 DEF PagesSpan
        <5>2. FirstKey(P) = k
          BY <1>3, <3>4, <3>5, <5>1
        <5> QED  BY <3>5, <5>2
      <4> QED  BY <3>5, <4>1, <4>2, <4>3
    <3>7. PICK q \in Live : q[1] = P /\ Rows[q] = k
      BY <1>2, <3>3, <3>6 DEF MainRead
    <3> QED  BY <1>6, <1>7, <3>3, <3>7
  <2> QED  BY <1>2, <2>2, <2>3 DEF MainRead
<1>9. ASSUME EmptiedLast, DistinctKeys(Rows) PROVE found = wanted
  <2>1. DOMAIN Rows = Live
    BY DEF Rows
  <2>2. ASSUME NEW r \in wanted PROVE r \in found
    <3>1. PICK q : q \in found
      BY <1>8, <1>9, <2>2
    <3>2. q \in Live /\ r \in Live /\ Rows[q] = Rows[r]
      BY <1>6, <1>7, <3>1
    <3> QED  BY <1>9, <2>1, <3>1, <3>2 DEF DistinctKeys
  <2> QED  BY <1>7, <2>2
<1> QED  BY <1>1, <1>7, <1>8, <1>9

(* ... and the rows between two bounds. *)
LEMMA RangeFindsRows ==
  ASSUME IInv, SortedPages(main)
  PROVE  RangeExact
<1> SUFFICES ASSUME Ordered, NEW lower \in Keys \cup {NoBound}, NEW upper \in Keys \cup {NoBound}
             PROVE  LET wanted == RowsWithin(Rows, lower, upper)
                        found  == RangeKey(lower, upper)
                    IN  /\ found \subseteq wanted
                        /\ EmptiedLast /\ DistinctKeys(Rows) => found = wanted
  BY DEF RangeExact
<1>1. PICK wanted, found : wanted = RowsWithin(Rows, lower, upper) /\ found = RangeKey(lower, upper)
  OBVIOUS
<1>2. PagesSpan /\ MainRead
  BY SortedPagesSpan, RowsInPages
<1>3. (lower # NoBound => lower \in Int) /\ (upper # NoBound => upper \in Int)
  BY KeysAssumption
<1>4. PICK pages : pages = Swept(lower, upper)
  OBVIOUS
<1>5. DOMAIN Rows = Live
  BY DEF Rows
<1>6. \A r : r \in wanted <=> r \in Live /\ Within(Rows[r], lower, upper)
  BY <1>1, <1>5 DEF RowsWithin
<1>7. \A r : r \in found <=> r \in wanted /\ (r[1] < 0 \/ r[1] \in pages)
  <2>1. pages \subseteq PageIndexes
    BY <1>4 DEF Swept
  <2>2. found = InPages(pages, lower, upper) \cup InOverflow(lower, upper)
    BY <1>1, <1>4 DEF RangeKey
  <2>3. \A r : r \in InPages(pages, lower, upper)
               <=> r \in Live /\ r[1] \in pages /\ Within(Rows[r], lower, upper)
    BY <2>1, PagesRead
  <2>4. \A r : r \in InOverflow(lower, upper)
               <=> r \in Live /\ r[1] < 0 /\ Within(Rows[r], lower, upper)
    BY OverflowRead
  <2> QED  BY <1>6, <2>2, <2>3, <2>4
<1>8. ASSUME EmptiedLast, DistinctKeys(Rows), NEW r \in wanted PROVE r \in found
  <2>1. r \in Live /\ Within(Rows[r], lower, upper)
    BY <1>6, <1>8
  <2>2. CASE r[1] < 0
    BY <1>7, <1>8, <2>2
  <2>3. CASE r[1] \in PageIndexes
    <3>1. PICK p \in PageIndexes : p = r[1]
      BY <2>3
    <3>2. PICK k \in Int : k = Rows[r]
      BY <1>2, <2>1 DEF MainRead
    <3>3. OnPage(p, k) /\ p \in Int
      BY <1>2, <2>1, <3>1, <3>2, SpanTypes DEF MainRead
    <3>4. (lower # NoBound => lower <= k) /\ (upper # NoBound => k <= upper)
      BY <1>3, <2>1, <3>2 DEF Within
    <3>5. DistinctPages
      <4> SUFFICES ASSUME NEW a \in PageIndexes, NEW b \in PageIndexes, NEW m,
                          OnPage(a, m), OnPage(b, m)
                   PROVE  a = b
        BY DEF DistinctPages
      <4>1. PICK x \in Live : x[1] = a /\ Rows[x] = m
        BY <1>2 DEF MainRead
      <4>2. PICK y \in Live : y[1] = b /\ Rows[y] = m
        BY <1>2 DEF MainRead
      <4> QED  BY <1>5, <1>8, <4>1, <4>2 DEF DistinctKeys
    <3>6. PICK start : start = SweepStart(lower)
      OBVIOUS
    <3>7. start \in Nat /\ start <= p
      <4>1. CASE lower = NoBound
        BY <3>3, <3>6, <4>1, SpanTypes DEF SweepStart
      <4>2. CASE lower # NoBound
        <5>1. start = LocatePage(lower, TRUE) /\ lower \in Int /\ lower <= k
          BY <1>3, <3>4, <3>6, <4>2 DEF SweepStart
        <5> QED  BY <1>2, <1>8, <3>3, <3>5, <5>1, SweepLocates
      <4> QED  BY <4>1, <4>2
    <3>8. ASSUME upper # NoBound, NEW q \in start..p PROVE IsEmptied(q) \/ FirstKey(q) <= upper
      <4>1. q \in PageIndexes /\ q \in Int /\ q <= p
        BY <3>3, <3>7, SpanTypes DEF PageIndexes
      <4>2. SUFFICES ASSUME ~IsEmptied(q) PROVE FirstKey(q) <= upper
        OBVIOUS
      <4>3. OnPage(q, FirstKey(q)) /\ FirstKey(q) \in Int
        BY <1>2, <4>1, <4>2 DEF PagesSpan
      <4>4. FirstKey(q) <= k
        <5>1. CASE q = p
          BY <1>2, <3>3, <5>1 DEF PagesSpan
        <5>2. CASE q < p
          BY <1>2, <3>3, <4>1, <4>3, <5>2 DEF PagesSpan
        <5> QED  BY <3>3, <4>1, <5>1, <5>2
      <4> QED  BY <1>3, <3>4, <3>8, <4>3, <4>4
    <3>9. p \in pages
      BY <1>4, <3>3, <3>6, <3>7, <3>8 DEF Swept
    <3> QED  BY <1>7, <1>8, <3>1, <3>9
  <2> QED  BY <1>2, <2>1, <2>2, <2>3 DEF MainRead
<1> QED  BY <1>1, <1>7, <1>8

(* While no page has a live one to the right of an emptied page, search_key
   finds a row of its key whenever there is one and every such row when keys
   are not repeated; it never returns another row (diskstore.py).           *)
THEOREM SearchIsExact == Spec => []SearchExact
  BY SearchFindsRows, PagesAlwaysSorted, InductiveInvariant, PTL

(* Under the same conditions range_key returns exactly the rows between its
   bounds, although its sweep skips pages at both ends (diskstore.py).      *)
THEOREM RangeIsExact == Spec => []RangeExact
  BY RangeFindsRows, PagesAlwaysSorted, InductiveInvariant, PTL

-----------------------------------------------------------------------------
(* Statements over the table.                                              *)

(* What a statement under way remembers: the keys it still has to place, or the
   rows it still has to delete.                                            *)
StatementsTyped ==
  /\ stmt.op \in {"OK", "FAILED", "INSERT", "COPY", "DELETE"}
  /\ Inserting => stmt = [op |-> stmt.op, keys |-> stmt.keys] /\ stmt.keys \in Seq(Keys)
  /\ stmt.op = "DELETE" => stmt = [op |-> "DELETE", doomed |-> stmt.doomed]

(* A table that is open is in the catalog. *)
CatalogKnows ==
  /\ table \in BOOLEAN
  /\ index \subseteq Kinds
  /\ opened \subseteq Kinds
  /\ open => table

(* Index files hold entries for keys, and a tree one for each key at most. *)
FilesKeyed ==
  /\ file = [k \in Kinds |-> file[k]]
  /\ \A k \in Kinds : \A e \in file[k] : e[1] \in Keys
  /\ \A e, f \in file["BTREE"] : e[1] = f[1] => e = f

EInv == IInv /\ StatementsTyped /\ CatalogKnows /\ FilesKeyed

-----------------------------------------------------------------------------
(* Every step is one of the table's or leaves it alone, but for DROP TABLE cut
   short, which removes the main file and not the overflow.                *)
LEMMA StatementsUseTheTable ==
  ASSUME StatementsTyped, EngineNext, ~CrashInDropTable
  PROVE  [Next]_vars
<1>1. CASE CreateTableStatement \/ DropTableStatement \/ Bootstrap \/ Crash \/ ReorganizeTable
             \/ SelectOrdered
  BY <1>1 DEF CreateTableStatement, DropTableStatement, Bootstrap, Crash, ReorganizeTable,
              SelectOrdered, Next
<1>2. CASE \E kind \in Kinds : CreateIndex(kind) \/ CreateIndexFails(kind) \/ DropIndex(kind)
  BY <1>2 DEF CreateIndex, CreateIndexFails, DropIndex, vars
<1>3. CASE \E n \in 1..MaxRowsPerInsert : \E ks \in [1..n -> Keys], op \in {"INSERT", "COPY"} :
             StartInsert(op, ks)
  BY <1>3 DEF StartInsert, vars
<1>4. CASE RejectRow \/ SkipRejectedRow \/ FinishInsert \/ FinishDelete
  BY <1>4 DEF RejectRow, SkipRejectedRow, FinishInsert, FinishDelete, Next, vars
<1>5. CASE \E k \in Keys : DeleteByScan(k) \/ DeleteBySearch(k)
  BY <1>5 DEF DeleteByScan, DeleteBySearch, Next, vars
<1>6. CASE \E kind \in Kinds, k \in Keys : DeleteByIndex(kind, k)
  BY <1>6 DEF DeleteByIndex, vars
<1>7. CASE stmt.op = "DELETE" /\ \E d \in stmt.doomed : DeleteRow(d) \/ SkipRow(d)
  BY <1>7 DEF DeleteRow, SkipRow, Delete, Next, vars
<1>8. CASE InsertRow
  <2>1. Head(stmt.keys) \in Keys
    BY <1>8 DEF InsertRow, StatementsTyped
  <2> QED  BY <1>8, <2>1 DEF InsertRow, Next
<1> QED  BY <1>1, <1>2, <1>3, <1>4, <1>5, <1>6, <1>7, <1>8 DEF EngineNext

(* So the table's invariant holds under the engine. *)
LEMMA TableFollows ==
  ASSUME IInv, StatementsTyped, EngineNext
  PROVE  IInv'
<1>1. CASE CrashInDropTable
  <2>1. main' \in {main, <<>>} /\ fill' = fill /\ tail' = NoTail /\ dirty' = FALSE /\ open' = FALSE
    BY <1>1 DEF CrashInDropTable
  <2> QED  BY <2>1, NoTailType, NoPagesType DEF IInv, TypeOK, TailPlaced
<1>2. CASE ~CrashInDropTable
  BY <1>2, StatementsUseTheTable, NextKeepsIInv
<1> QED  BY <1>1, <1>2

-----------------------------------------------------------------------------
(* Each statement keeps what it remembers well formed. *)
LEMMA StatementsStayTyped ==
  ASSUME StatementsTyped, EngineNext
  PROVE  StatementsTyped'
<1> USE DEF StatementsTyped, Inserting, Ok, Failed
<1>1. CASE CreateTableStatement \/ DropTableStatement \/ CrashInDropTable \/ Bootstrap \/ Crash
             \/ ReorganizeTable \/ SelectOrdered
  BY <1>1 DEF CreateTableStatement, DropTableStatement, CrashInDropTable, Bootstrap, Crash,
              ReorganizeTable, SelectOrdered
<1>2. CASE \E kind \in Kinds : CreateIndex(kind) \/ CreateIndexFails(kind) \/ DropIndex(kind)
  BY <1>2 DEF CreateIndex, CreateIndexFails, DropIndex
<1>3. ASSUME NEW n \in 1..MaxRowsPerInsert, NEW ks \in [1..n -> Keys],
             NEW op \in {"INSERT", "COPY"}, StartInsert(op, ks)
      PROVE  StatementsTyped'
  <2>1. ks \in Seq(Keys)
    OBVIOUS
  <2>2. stmt' = [op |-> op, keys |-> ks]
    BY <1>3 DEF StartInsert
  <2> QED  BY <2>1, <2>2
<1>4. CASE RejectRow \/ FinishInsert \/ FinishDelete
  BY <1>4 DEF RejectRow, FinishInsert, FinishDelete
<1>5. CASE SkipRejectedRow \/ InsertRow
  <2>1. \/ stmt' = [stmt EXCEPT !.keys = Tail(@)] /\ Inserting /\ stmt.keys # <<>>
        \/ stmt' = Failed
    BY <1>5 DEF SkipRejectedRow, InsertRow
  <2>2. CASE stmt' = Failed
    BY <2>2
  <2>3. CASE stmt' = [stmt EXCEPT !.keys = Tail(@)] /\ Inserting /\ stmt.keys # <<>>
    <3>1. stmt' = [op |-> stmt.op, keys |-> Tail(stmt.keys)]
      BY <2>3
    <3>2. Tail(stmt.keys) \in Seq(Keys)
      BY <2>3
    <3> QED  BY <2>3, <3>1, <3>2
  <2> QED  BY <2>1, <2>2, <2>3
<1>6. CASE \E k \in Keys : DeleteByScan(k) \/ DeleteBySearch(k)
  BY <1>6 DEF DeleteByScan, DeleteBySearch, StartDelete
<1>7. CASE \E kind \in Kinds, k \in Keys : DeleteByIndex(kind, k)
  BY <1>7 DEF DeleteByIndex, StartDelete
<1>8. CASE stmt.op = "DELETE" /\ \E d \in stmt.doomed : DeleteRow(d) \/ SkipRow(d)
  <2>1. (\E left : stmt' = [stmt EXCEPT !.doomed = left]) \/ stmt' = Failed
    BY <1>8 DEF DeleteRow, SkipRow
  <2>2. (\E left : stmt' = [op |-> "DELETE", doomed |-> left]) \/ stmt' = Failed
    BY <1>8, <2>1
  <2> QED  BY <2>2
<1> QED  BY <1>1, <1>2, <1>3, <1>4, <1>5, <1>6, <1>7, <1>8 DEF EngineNext

(* Nothing opens a table that the catalog does not have. *)
LEMMA CatalogStaysKnown ==
  ASSUME CatalogKnows, EngineNext
  PROVE  CatalogKnows'
<1> USE DEF CatalogKnows, Kinds
<1>1. CASE CreateTableStatement \/ DropTableStatement \/ CrashInDropTable \/ Bootstrap \/ Crash
  BY <1>1 DEF CreateTableStatement, DropTableStatement, CrashInDropTable, Bootstrap, Crash,
              CreateTable, DropTable, Restart
<1>2. CASE ReorganizeTable \/ SelectOrdered \/ FinishInsert \/ FinishDelete
  BY <1>2 DEF ReorganizeTable, SelectOrdered, FinishInsert, FinishDelete, Reorganize, Flush
<1>3. ASSUME NEW kind \in Kinds, CreateIndex(kind) \/ CreateIndexFails(kind) \/ DropIndex(kind)
      PROVE  CatalogKnows'
  <2>1. /\ table' = table /\ open' = open
        /\ index' \in {index, index \cup {kind}, index \ {kind}}
        /\ opened' \in {opened \cup {kind}, opened \ {kind}}
    BY <1>3 DEF CreateIndex, CreateIndexFails, DropIndex
  <2> QED  BY <2>1
<1>4. CASE \E n \in 1..MaxRowsPerInsert : \E ks \in [1..n -> Keys], op \in {"INSERT", "COPY"} :
             StartInsert(op, ks)
  BY <1>4 DEF StartInsert
<1>5. CASE RejectRow \/ SkipRejectedRow \/ InsertRow
  BY <1>5 DEF RejectRow, SkipRejectedRow, InsertRow, Insert, InsertInTail, InsertInNewTail
<1>6. ASSUME NEW k \in Keys, DeleteByScan(k) \/ DeleteBySearch(k)
      PROVE  CatalogKnows'
  <2>1. table' = table /\ open' = open /\ index' = index /\ opened' = opened
    BY <1>6 DEF DeleteByScan, DeleteBySearch, Flush
  <2> QED  BY <2>1
<1>7. CASE \E kind \in Kinds, k \in Keys : DeleteByIndex(kind, k)
  BY <1>7 DEF DeleteByIndex
<1>8. CASE stmt.op = "DELETE" /\ \E d \in stmt.doomed : DeleteRow(d) \/ SkipRow(d)
  BY <1>8 DEF DeleteRow, SkipRow, Delete
<1> QED  BY <1>1, <1>2, <1>3, <1>4, <1>5, <1>6, <1>7, <1>8 DEF EngineNext

-----------------------------------------------------------------------------
(* The order in which a scan yields rows is total, so of two rows with one key
   a tree is loaded with one.                                              *)
LEMMA ScannedAddress ==
  ASSUME IInv, NEW r \in DOMAIN Scanned
  PROVE  /\ Len(main) \in Nat
         /\ r = <<r[1], r[2]>> /\ r[1] \in Int /\ r[2] \in Int
         /\ r[1] < Len(main) \/ ~Ordered
         /\ ~Ordered => r[1] >= 0
         /\ Scanned[r] \in Keys
<1>0. Len(main) \in Nat /\ main \in Seq(Page) /\ fill \in Seq(Page)
  BY DEF IInv, TypeOK
<1>1. CASE Ordered
  <2>1. r \in DiskRids /\ OnDisk(r) # Hole /\ Scanned[r] = OnDisk(r)
    BY <1>1 DEF Scanned, Durable
  <2>2. PICK p \in DiskPageIds, s \in 0..(Capacity - 1) : r = <<p, s>>
    BY <2>1 DEF DiskRids
  <2>3. p \in Int /\ p < Len(main)
    BY <1>0, <1>1, <2>2 DEF DiskPageIds, FillId, OverflowId
  <2>4. FillIndex(p) \in Int
    BY <2>3 DEF FillIndex, OverflowIndex
  <2>5. ReadPage(fill, FillIndex(p)) \in Page /\ ReadPage(main, p) \in Page
    BY <1>0, <2>3, <2>4, ReadPageType
  <2>6. OnDisk(r) \in Slot
    BY <2>1, <2>2, <2>5 DEF OnDisk, Page
  <2> QED  BY <1>0, <1>1, <2>1, <2>2, <2>3, <2>6, CapacityAssumption DEF Slot
<1>2. CASE ~Ordered
  <2>1. r \in Live /\ Scanned[r] = Fetch(r)
    BY <1>2 DEF Scanned, Rows
  <2>2. r \in Issued /\ Fetch(r) # Hole
    BY <2>1 DEF Live
  <2>3. /\ r[1] \in Int /\ r[2] \in 0..(Len(PageAt(r[1])) - 1) /\ r = <<r[1], r[2]>>
        /\ FillIndex(r[1]) \in 0..(FillPages - 1)
    BY <1>2, <2>2, IssuedAddress DEF IsFill
  <2>4. PageAt(r[1]) \in Page
    BY <2>3, PageAtType
  <2>5. Fetch(r) \in Slot
    BY <2>3, <2>4 DEF Fetch, Page
  <2>6. r[1] >= 0
    BY <1>2, <2>3 DEF FillIndex
  <2>7. r[2] \in Int
    BY <2>3, <2>4 DEF Page
  <2> QED  BY <1>0, <1>2, <2>1, <2>2, <2>3, <2>5, <2>6, <2>7 DEF Slot
<1> QED  BY <1>1, <1>2

(* Two rows that no scan order tells apart are one. *)
LEMMA ScanIsTotal ==
  ASSUME IInv, NEW q \in DOMAIN Scanned, NEW r \in DOMAIN Scanned,
         ~ScannedBefore(q, r), ~ScannedBefore(r, q)
  PROVE  q = r
<1>1. /\ Len(main) \in Nat
      /\ q = <<q[1], q[2]>> /\ q[1] \in Int /\ q[2] \in Int /\ (q[1] < Len(main) \/ ~Ordered)
      /\ r = <<r[1], r[2]>> /\ r[1] \in Int /\ r[2] \in Int /\ (r[1] < Len(main) \/ ~Ordered)
      /\ ~Ordered => q[1] >= 0 /\ r[1] >= 0
  BY ScannedAddress
<1>2. ScanPosition(q[1]) \in Int /\ ScanPosition(r[1]) \in Int
  BY <1>1 DEF ScanPosition, OverflowIndex
<1>3. ScanPosition(q[1]) = ScanPosition(r[1])
  BY <1>2 DEF ScannedBefore
<1>4. q[1] = r[1]
  BY <1>1, <1>3 DEF ScanPosition, OverflowIndex
<1>5. q[2] = r[2]
  BY <1>1, <1>4 DEF ScannedBefore
<1> QED  BY <1>1, <1>4, <1>5

(* CREATE INDEX loads a tree with one entry for a key, over any .idx file. *)
LEMMA LoadedKeyed ==
  ASSUME IInv, FilesKeyed, NEW kind \in Kinds
  PROVE  /\ \A e \in BulkLoaded(kind) : e[1] \in Keys
         /\ kind = "BTREE" => \A e, f \in BulkLoaded(kind) : e[1] = f[1] => e = f
<1>1. \A r \in DOMAIN Scanned : Scanned[r] \in Keys
  BY ScannedAddress
<1>2. CASE kind = "HASH"
  BY <1>1, <1>2 DEF BulkLoaded
<1>3. CASE kind = "BTREE"
  <2> DEFINE chosen == {q \in DOMAIN Scanned :
                          /\ ~HasKey(file["BTREE"], Scanned[q])
                          /\ \A o \in DOMAIN Scanned :
                               Scanned[o] = Scanned[q] => ~ScannedBefore(o, q)}
             added == {<<Scanned[r], r>> : r \in chosen}
  <2>1. BulkLoaded(kind) = file["BTREE"] \cup added
    BY <1>3 DEF BulkLoaded
  <2>2. \A e \in added : e[1] \in Keys /\ ~HasKey(file["BTREE"], e[1])
    BY <1>1
  <2>3. \A q, r \in chosen : Scanned[q] = Scanned[r] => q = r
    BY ScanIsTotal
  <2>4. \A e, f \in added : e[1] = f[1] => e = f
    BY <2>3
  <2>5. \A e \in file["BTREE"] : HasKey(file["BTREE"], e[1]) /\ e[1] \in Keys
    BY DEF HasKey, FilesKeyed, Kinds
  <2>6. \A e, f \in file["BTREE"] : e[1] = f[1] => e = f
    BY DEF FilesKeyed
  <2> HIDE DEF added
  <2> QED  BY <2>1, <2>2, <2>4, <2>5, <2>6
<1> QED  BY <1>2, <1>3 DEF Kinds

(* Taking entries away keeps the files keyed. *)
LEMMA FewerEntries ==
  ASSUME FilesKeyed, file' = [k \in Kinds |-> file'[k]],
         \A k \in Kinds : file'[k] \subseteq file[k]
  PROVE  FilesKeyed'
  BY DEF FilesKeyed, Kinds

(* Every step keeps the files keyed: an insert adds only a key the tree has
   not. *)
LEMMA FilesStayKeyed ==
  ASSUME IInv, StatementsTyped, FilesKeyed, EngineNext
  PROVE  FilesKeyed'
<1>1. ASSUME file' = file PROVE FilesKeyed'
  BY <1>1 DEF FilesKeyed
<1>2. ASSUME NEW kinds, file' = Emptied(kinds) PROVE FilesKeyed'
  <2>1. file' = [k \in Kinds |-> IF k \in kinds THEN {} ELSE file[k]]
    BY <1>2 DEF Emptied
  <2> QED  BY <2>1, FewerEntries
<1>3. CASE CreateTableStatement \/ Bootstrap \/ Crash \/ ReorganizeTable \/ SelectOrdered
  BY <1>1, <1>3 DEF CreateTableStatement, Bootstrap, Crash, ReorganizeTable, SelectOrdered
<1>4. CASE DropTableStatement \/ CrashInDropTable
  BY <1>2, <1>4 DEF DropTableStatement, CrashInDropTable
<1>5. ASSUME NEW kind \in Kinds, CreateIndex(kind) \/ CreateIndexFails(kind)
      PROVE  FilesKeyed'
  <2>1. PICK entries : file' = [file EXCEPT ![kind] = entries] /\ entries \subseteq BulkLoaded(kind)
    BY <1>5 DEF CreateIndex, CreateIndexFails
  <2>2. file' = [k \in Kinds |-> IF k = kind THEN entries ELSE file[k]]
    BY <2>1 DEF FilesKeyed
  <2>3. /\ \A e \in entries : e[1] \in Keys
        /\ kind = "BTREE" => \A e, f \in entries : e[1] = f[1] => e = f
    BY <2>1, LoadedKeyed
  <2> QED  BY <2>2, <2>3 DEF FilesKeyed, Kinds
<1>6. CASE \E kind \in Kinds : DropIndex(kind)
  BY <1>2, <1>6 DEF DropIndex
<1>7. CASE \E n \in 1..MaxRowsPerInsert : \E ks \in [1..n -> Keys], op \in {"INSERT", "COPY"} :
             StartInsert(op, ks)
  BY <1>1, <1>7 DEF StartInsert
<1>8. CASE InsertRow
  <2> DEFINE k   == Head(stmt.keys)
             rid == <<FillId(tail'.id), Len(tail'.slots) - 1>>
  <2>1. k \in Keys
    BY <1>8 DEF InsertRow, StatementsTyped
  <2>2. PICK kinds \in SUBSET index : file' = FileWith(kinds, k, rid)
                                      /\ \A kind \in kinds : ~IndexRefuses(kind, k, rid)
    BY <1>8 DEF InsertRow
  <2>3. file' = [x \in Kinds |-> IF x \in kinds THEN file[x] \cup {<<k, rid>>} ELSE file[x]]
    BY <2>2 DEF FileWith
  <2>4. "BTREE" \in kinds => \A e \in file["BTREE"] : e[1] # k
    BY <2>2 DEF IndexRefuses, HasKey
  <2> HIDE DEF k, rid
  <2>5. \A x \in Kinds : \A e \in file'[x] : e[1] \in Keys
    BY <2>1, <2>3 DEF FilesKeyed
  <2>6. \A e, f \in file'["BTREE"] : e[1] = f[1] => e = f
    BY <2>3, <2>4 DEF FilesKeyed, Kinds
  <2> QED  BY <2>3, <2>5, <2>6 DEF FilesKeyed
<1>9. CASE RejectRow \/ SkipRejectedRow \/ FinishInsert \/ FinishDelete
  BY <1>1, <1>9 DEF RejectRow, SkipRejectedRow, FinishInsert, FinishDelete
<1>10. CASE \E k \in Keys : DeleteByScan(k) \/ DeleteBySearch(k)
  BY <1>1, <1>10 DEF DeleteByScan, DeleteBySearch
<1>11. CASE \E kind \in Kinds, k \in Keys : DeleteByIndex(kind, k)
  BY <1>1, <1>11 DEF DeleteByIndex
<1>12. ASSUME NEW d \in stmt.doomed, DeleteRow(d) \/ SkipRow(d)
       PROVE  FilesKeyed'
  <2>1. file' = file \/ \E asked : file' = FileWithout(asked, d[2], d[1])
    BY <1>12 DEF DeleteRow, SkipRow
  <2>2. ASSUME NEW asked, file' = FileWithout(asked, d[2], d[1])
        PROVE  FilesKeyed'
    <3>1. file' = [x \in Kinds |-> IF x \in asked THEN file[x] \ {<<d[2], d[1]>>} ELSE file[x]]
      BY <2>2 DEF FileWithout
    <3> QED  BY <3>1, FewerEntries
  <2> QED  BY <1>1, <2>1, <2>2
<1> QED  BY <1>3, <1>4, <1>5, <1>6, <1>7, <1>8, <1>9, <1>10, <1>11, <1>12 DEF EngineNext

-----------------------------------------------------------------------------
(* All of it holds at first ... *)
LEMMA EngineInitHasEInv == EngineInit => EInv
<1> SUFFICES ASSUME EngineInit PROVE EInv
  OBVIOUS
<1>1. IInv
  BY InitHasIInv DEF EngineInit
<1> QED  BY <1>1 DEF EngineInit, EInv, StatementsTyped, Inserting, CatalogKnows, FilesKeyed, Ok,
                    Kinds, Init

(* ... and every step keeps it. *)
LEMMA EngineNextKeepsEInv ==
  ASSUME EInv, [EngineNext]_engineVars
  PROVE  EInv'
<1>1. CASE EngineNext
  BY <1>1, TableFollows, StatementsStayTyped, CatalogStaysKnown, FilesStayKeyed DEF EInv
<1>2. CASE UNCHANGED engineVars
  BY <1>2 DEF EInv, engineVars, IInv, TypeOK, TailPlaced, StatementsTyped, Inserting,
              CatalogKnows, FilesKeyed
<1> QED  BY <1>1, <1>2

(* The table's own invariant, the typing of the statement under way, what the
   catalog knows and the keys of the index files, under every statement, every
   failure half way and every crash.                                       *)
THEOREM EngineInvariant == EngineSpec => []EInv
  BY EngineInitHasEInv, EngineNextKeepsEInv, PTL DEF EngineSpec

(* Only a table of the catalog is open, and no key of a tree has two entries:
   not after CREATE INDEX over an .idx file that an earlier process left, nor
   after a statement that an index ends half way (engine.py, loader.py).   *)
THEOREM EngineTypeCorrect == EngineSpec => []EngineTypeOK
<1>1. EInv => EngineTypeOK
  BY DEF EInv, IInv, StatementsTyped, CatalogKnows, FilesKeyed, EngineTypeOK
<1> QED  BY <1>1, EngineInvariant, PTL

(* Whatever the statements do, the page of the table in memory is the last of
   its file or the next one, and a clean one is on disk: what TableStoreProofs
   shows of a table alone holds of the table the engine drives.            *)
THEOREM TailStaysPlaced == EngineSpec => []TailPlaced
<1>1. EInv => TailPlaced
  BY DEF EInv, IInv
<1> QED  BY <1>1, EngineInvariant, PTL

-----------------------------------------------------------------------------
(* A row that a DELETE will remove has the key it was collected with. *)
DoomedKeepKeys ==
  stmt.op = "DELETE" => \A d \in stmt.doomed : d[1] \in Live => Fetch(d[1]) = d[2]

(* Indexes answer only while the table is open. *)
ClosedTogether == ~open => Usable = {}

(* An open hash of a HEAP table has addresses that were handed out, each with
   the key of its row or of one that was deleted.                          *)
HashFollows ==
  open /\ "HASH" \in Usable /\ ~Ordered =>
    \A e \in file["HASH"] : e[2] \in Issued /\ Fetch(e[2]) \in {e[1], Hole}

(* A statement that succeeded left nothing to write. *)
CleanAfterSuccess == stmt.op = "OK" => ~dirty

RInv ==
  /\ EInv
  /\ TailAhead
  /\ DoomedKeepKeys
  /\ ClosedTogether
  /\ HashFollows
  /\ CleanAfterSuccess

-----------------------------------------------------------------------------
(* Every step of the engine keeps the page in memory ahead of its block. *)
LEMMA EngineTailStaysAhead ==
  ASSUME EInv, IInv', TailAhead, EngineNext
  PROVE  TailAhead'
<1>1. CASE CrashInDropTable
  BY <1>1 DEF CrashInDropTable, TailAhead
<1>2. CASE ~CrashInDropTable
  BY <1>2, StatementsUseTheTable, TailStaysAhead DEF EInv
<1> QED  BY <1>1, <1>2

(* Only INSERT, COPY and DELETE leave a change in memory, and those that
   succeed end with a flush. *)
LEMMA StillClean ==
  ASSUME EInv, CleanAfterSuccess, EngineNext
  PROVE  CleanAfterSuccess'
<1> USE DEF CleanAfterSuccess, EInv, StatementsTyped, Inserting, Ok, Failed, Idle
<1>1. CASE CreateTableStatement \/ DropTableStatement \/ CrashInDropTable \/ Bootstrap \/ Crash
             \/ ReorganizeTable \/ SelectOrdered
  BY <1>1 DEF CreateTableStatement, DropTableStatement, CrashInDropTable, Bootstrap, Crash,
              ReorganizeTable, SelectOrdered, CreateTable, DropTable, Restart, Reorganize, Flush
<1>2. CASE \E kind \in Kinds : CreateIndex(kind) \/ CreateIndexFails(kind) \/ DropIndex(kind)
  BY <1>2 DEF CreateIndex, CreateIndexFails, DropIndex
<1>3. CASE \E n \in 1..MaxRowsPerInsert : \E ks \in [1..n -> Keys], op \in {"INSERT", "COPY"} :
             StartInsert(op, ks)
  BY <1>3 DEF StartInsert
<1>4. CASE RejectRow \/ FinishInsert \/ FinishDelete
  BY <1>4 DEF RejectRow, FinishInsert, FinishDelete, Flush
<1>5. CASE SkipRejectedRow \/ InsertRow
  BY <1>5 DEF SkipRejectedRow, InsertRow
<1>6. CASE \E k \in Keys : DeleteByScan(k) \/ DeleteBySearch(k)
  BY <1>6 DEF DeleteByScan, DeleteBySearch, StartDelete
<1>7. CASE \E kind \in Kinds, k \in Keys : DeleteByIndex(kind, k)
  BY <1>7 DEF DeleteByIndex, StartDelete
<1>8. CASE stmt.op = "DELETE" /\ \E d \in stmt.doomed : DeleteRow(d) \/ SkipRow(d)
  BY <1>8 DEF DeleteRow, SkipRow
<1> QED  BY <1>1, <1>2, <1>3, <1>4, <1>5, <1>6, <1>7, <1>8 DEF EngineNext

(* A process that ends takes the routes of the router with it. *)
LEMMA StillClosedTogether ==
  ASSUME ClosedTogether, EngineNext
  PROVE  ClosedTogether'
<1> USE DEF ClosedTogether, Usable
<1>1. CASE CreateTableStatement \/ DropTableStatement \/ CrashInDropTable \/ Bootstrap \/ Crash
  BY <1>1 DEF CreateTableStatement, DropTableStatement, CrashInDropTable, Bootstrap, Crash,
              CreateTable, DropTable, Restart
<1>2. CASE ReorganizeTable \/ SelectOrdered \/ FinishInsert \/ FinishDelete
  BY <1>2 DEF ReorganizeTable, SelectOrdered, FinishInsert, FinishDelete, Reorganize, Flush
<1>3. CASE \E kind \in Kinds : CreateIndex(kind) \/ CreateIndexFails(kind) \/ DropIndex(kind)
  BY <1>3 DEF CreateIndex, CreateIndexFails, DropIndex
<1>4. CASE \E n \in 1..MaxRowsPerInsert : \E ks \in [1..n -> Keys], op \in {"INSERT", "COPY"} :
             StartInsert(op, ks)
  BY <1>4 DEF StartInsert
<1>5. CASE RejectRow \/ SkipRejectedRow \/ InsertRow
  BY <1>5 DEF RejectRow, SkipRejectedRow, InsertRow, Insert, InsertInTail, InsertInNewTail
<1>6. CASE \E k \in Keys : DeleteByScan(k) \/ DeleteBySearch(k)
  BY <1>6 DEF DeleteByScan, DeleteBySearch, Flush
<1>7. CASE \E kind \in Kinds, k \in Keys : DeleteByIndex(kind, k)
  BY <1>7 DEF DeleteByIndex
<1>8. CASE stmt.op = "DELETE" /\ \E d \in stmt.doomed : DeleteRow(d) \/ SkipRow(d)
  BY <1>8 DEF DeleteRow, SkipRow, Delete
<1> QED  BY <1>1, <1>2, <1>3, <1>4, <1>5, <1>6, <1>7, <1>8 DEF EngineNext

-----------------------------------------------------------------------------
(* The rows that stay as they are. *)
SameTable ==
  /\ Issued' = Issued
  /\ Live' = Live
  /\ \A r \in Issued : SameRow(r)

(* A step that leaves the files and the page in memory alone is one. *)
LEMMA UntouchedTable ==
  ASSUME UNCHANGED <<main, fill, tail>>
  PROVE  SameTable
<1>1. \A p : PageAt(p)' = PageAt(p)
  BY DEF PageAt, FillPage, ReadPage, IsFill, FillIndex, OverflowIndex
<1>2. \A r : Fetch(r)' = Fetch(r)
  BY <1>1 DEF Fetch
<1>3. Issued' = Issued
  BY <1>1 DEF Issued, PageIds, FillPages, FillId, OverflowId
<1> QED  BY <1>2, <1>3 DEF SameTable, Live, SameRow

(* A live row has the key that its block on disk has, if that has one. *)
LEMMA BlockHasTheKey ==
  ASSUME IInv, TailAhead, NEW r \in Live, r \in DOMAIN Durable
  PROVE  OnDisk(r) = Fetch(r)
<1>1. PICK p, n : p = r[1] /\ n = r[2]
  OBVIOUS
<1>2. p \in Int /\ n \in 0..(Len(PageAt(p)) - 1) /\ Fetch(r) # Hole /\ Fetch(r) = PageAt(p)[n + 1]
  BY <1>1, IssuedAddress DEF Live, Fetch
<1>3. OnDisk(r) # Hole
  BY DEF Durable
<1>4. CASE IsFill(p) /\ tail # NoTail /\ tail.id = FillIndex(p)
  <2>1. PageAt(p) = tail.slots
    BY <1>4 DEF PageAt, FillPage
  <2>2. OnDisk(r) = ReadPage(fill, tail.id)[n + 1] /\ n \in 0..(Len(ReadPage(fill, tail.id)) - 1)
    BY <1>1, <1>3, <1>4 DEF OnDisk
  <2>3. tail.id \in Nat /\ fill \in Seq(Page) /\ Len(fill) \in Nat
    BY <1>4 DEF IInv, TypeOK, TailPlaced
  <2>4. tail.id < Len(fill) /\ ReadPage(fill, tail.id) = fill[tail.id + 1]
    BY <2>2, <2>3 DEF ReadPage
  <2>5. PageKept(fill[tail.id + 1], tail.slots) /\ fill[tail.id + 1] \in Page
    BY <1>4, <2>3, <2>4 DEF TailAhead
  <2>6. n + 1 \in 1..Len(fill[tail.id + 1])
    BY <2>2, <2>4, <2>5 DEF Page
  <2> QED  BY <1>2, <2>1, <2>2, <2>4, <2>5, <2>6 DEF PageKept
<1>5. CASE ~(IsFill(p) /\ tail # NoTail /\ tail.id = FillIndex(p))
  BY <1>1, <1>5 DEF OnDisk, Fetch, PageAt, FillPage
<1> QED  BY <1>4, <1>5

(* So has a live row that a scan yields. *)
LEMMA ScannedHasTheKey ==
  ASSUME IInv, TailAhead, NEW r \in Live, r \in DOMAIN Scanned
  PROVE  Scanned[r] = Fetch(r)
<1>1. CASE Ordered
  BY <1>1, BlockHasTheKey DEF Scanned, Durable
<1>2. CASE ~Ordered
  BY <1>2 DEF Scanned, Rows
<1> QED  BY <1>1, <1>2

(* What a DELETE has still to remove keeps the keys it was collected with. *)
LEMMA DoomedStillKeepKeys ==
  ASSUME EInv, IInv', TailAhead, DoomedKeepKeys, EngineNext
  PROVE  DoomedKeepKeys'
<1> USE DEF EInv
<1>1. CASE stmt'.op # "DELETE"
  BY <1>1 DEF DoomedKeepKeys
<1>2. ASSUME NEW k \in Keys, DeleteByScan(k) PROVE DoomedKeepKeys'
  <2>1. SameTable
    BY <1>2, UntouchedTable DEF DeleteByScan
  <2>2. stmt'.doomed = {<<r, Scanned[r]>> : r \in ScanRids(k)}
    BY <1>2 DEF DeleteByScan, StartDelete
  <2>3. ASSUME NEW d \in stmt'.doomed, d[1] \in Live' PROVE Fetch(d[1])' = d[2]
    <3>1. d[1] \in Live /\ d[1] \in DOMAIN Scanned /\ d[2] = Scanned[d[1]]
      BY <2>1, <2>2, <2>3 DEF SameTable, ScanRids
    <3> QED  BY <2>1, <3>1, ScannedHasTheKey DEF SameTable, SameRow, Live
  <2> QED  BY <2>3 DEF DoomedKeepKeys
<1>3. ASSUME NEW kind \in Kinds, NEW k \in Keys, DeleteByIndex(kind, k) PROVE DoomedKeepKeys'
  <2>1. SameTable
    BY <1>3, UntouchedTable DEF DeleteByIndex
  <2>2. stmt'.doomed = {<<r, Fetch(r)>> : r \in IndexRids(kind, k)}
    BY <1>3 DEF DeleteByIndex, StartDelete
  <2> QED  BY <2>1, <2>2 DEF DoomedKeepKeys, SameTable, SameRow, Live
<1>4. ASSUME NEW k \in Keys, DeleteBySearch(k) PROVE DoomedKeepKeys'
  <2>1. SameTable
    BY <1>4, FlushKeepsRows DEF DeleteBySearch, SameTable
  <2>2. stmt'.doomed = {<<r, Fetch(r)>> : r \in SearchKey(k)}
    BY <1>4 DEF DeleteBySearch, StartDelete
  <2> QED  BY <2>1, <2>2 DEF DoomedKeepKeys, SameTable, SameRow, Live
<1>5. ASSUME stmt.op = "DELETE", NEW d \in stmt.doomed, DeleteRow(d)
      PROVE  DoomedKeepKeys'
  <2>1. /\ Live' = Live \ {d[1]}
        /\ \A r \in Live : r # d[1] => SameRow(r)
    BY <1>5, DeleteRemovesRow DEF DeleteRow, Delete, Live
  <2>2. stmt'.op = "DELETE" => stmt'.doomed \subseteq stmt.doomed
    BY <1>5 DEF DeleteRow, StatementsTyped, Failed
  <2> QED  BY <1>5, <2>1, <2>2 DEF DoomedKeepKeys, SameRow
<1>6. ASSUME stmt.op = "DELETE", NEW d \in stmt.doomed, SkipRow(d)
      PROVE  DoomedKeepKeys'
  <2>1. SameTable
    BY <1>6, UntouchedTable DEF SkipRow
  <2>2. stmt'.doomed \subseteq stmt.doomed
    BY <1>6 DEF SkipRow, StatementsTyped
  <2> QED  BY <1>6, <2>1, <2>2 DEF DoomedKeepKeys, SameTable, SameRow, Live
<1>7. CASE Bootstrap
  <2>1. SameTable /\ stmt' = stmt
    BY <1>7, UntouchedTable DEF Bootstrap, CreateTable
  <2> QED  BY <2>1 DEF DoomedKeepKeys, SameTable, SameRow, Live
<1>8. CASE CreateTableStatement \/ DropTableStatement \/ CrashInDropTable \/ Crash
             \/ ReorganizeTable \/ SelectOrdered \/ RejectRow \/ FinishInsert \/ FinishDelete
  BY <1>1, <1>8 DEF CreateTableStatement, DropTableStatement, CrashInDropTable, Crash,
                    ReorganizeTable, SelectOrdered, RejectRow, FinishInsert, FinishDelete,
                    Idle, Ok, Failed
<1>9. CASE \E kind \in Kinds : CreateIndex(kind) \/ CreateIndexFails(kind) \/ DropIndex(kind)
  BY <1>1, <1>9 DEF CreateIndex, CreateIndexFails, DropIndex, Idle
<1>10. CASE \E n \in 1..MaxRowsPerInsert : \E ks \in [1..n -> Keys], op \in {"INSERT", "COPY"} :
             StartInsert(op, ks)
  BY <1>1, <1>10 DEF StartInsert
<1>11. CASE SkipRejectedRow \/ InsertRow
  BY <1>1, <1>11 DEF SkipRejectedRow, InsertRow, Inserting, StatementsTyped, Failed
<1> QED  BY <1>2, <1>3, <1>4, <1>5, <1>6, <1>7, <1>8, <1>9, <1>10, <1>11 DEF EngineNext

-----------------------------------------------------------------------------
(* The entries that an exact index has, after each operation.              *)
LEMMA SameTableSameEntries ==
  ASSUME SameTable
  PROVE  RowEntries' = RowEntries
BY DEF RowEntries, SameTable, SameRow, Live

(* An insert adds the entry of its row ... *)
LEMMA InsertAddsEntry ==
  ASSUME IInv, IInv', NEW k \in Keys, Insert(k), NEW place, place = Placed
  PROVE  RowEntries' = RowEntries \cup {<<k, place>>}
<1>1. /\ Live' = Live \cup {place} /\ Fetch(place)' = k
      /\ \A r \in Live : Fetch(r)' = Fetch(r)
  BY InsertAddsRow DEF SameRow, Live
<1> QED  BY <1>1 DEF RowEntries

(* ... and a deletion takes it away. *)
LEMMA DeleteRemovesEntry ==
  ASSUME IInv, IInv', NEW rid \in Live, Delete(rid)
  PROVE  RowEntries' = RowEntries \ {<<Fetch(rid), rid>>}
<1>1. /\ Live' = Live \ {rid}
      /\ \A r \in Live : r # rid => Fetch(r)' = Fetch(r)
  BY DeleteRemovesRow DEF SameRow, Live
<1> QED  BY <1>1 DEF RowEntries

(* Every step keeps an open hash of a HEAP table following its rows. *)
LEMMA HashStillFollows ==
  ASSUME EInv, EInv', ClosedTogether, HashFollows, EngineNext
  PROVE  HashFollows'
<1> SUFFICES ASSUME open', "HASH" \in Usable', ~Ordered, NEW e \in file'["HASH"]
             PROVE  e[2] \in Issued' /\ Fetch(e[2])' \in {e[1], Hole}
  BY DEF HashFollows
<1> DEFINE Goal == e[2] \in Issued' /\ Fetch(e[2])' \in {e[1], Hole}
<1>1. IInv /\ IInv'
  BY DEF EInv
<1>2. ASSUME open, "HASH" \in Usable, SameTable, e \in file["HASH"] PROVE Goal
  BY <1>2 DEF HashFollows, SameTable, SameRow
<1>3. CASE \/ DropTableStatement \/ CrashInDropTable \/ Crash \/ ReorganizeTable \/ SelectOrdered
           \/ \E k \in Keys : DeleteBySearch(k)
  BY <1>3 DEF DropTableStatement, DropTable, CrashInDropTable, Crash, Restart, ReorganizeTable,
              Reorganize, SelectOrdered, DeleteBySearch
<1>4. CASE CreateTableStatement \/ Bootstrap
  BY <1>4 DEF CreateTableStatement, Bootstrap, CreateTable, ClosedTogether, Usable
<1>5. ASSUME NEW kind \in Kinds, CreateIndex(kind) PROVE Goal
  <2>1. SameTable /\ open /\ file' = [file EXCEPT ![kind] = BulkLoaded(kind)]
    BY <1>5, UntouchedTable DEF CreateIndex
  <2>2. CASE kind = "HASH"
    <3>1. PICK r \in DOMAIN Scanned : e = <<Scanned[r], r>>
      BY <1>5, <2>1, <2>2 DEF BulkLoaded, EInv, FilesKeyed
    <3>2. r \in Live /\ Scanned[r] = Fetch(r)
      BY DEF Scanned, Rows
    <3> QED  BY <2>1, <3>1, <3>2 DEF SameTable, SameRow, Live
  <2>3. CASE kind # "HASH"
    <3>1. "HASH" \in Usable
      BY <1>5, <2>3 DEF CreateIndex, Usable
    <3>2. e \in file["HASH"]
      BY <2>1, <2>3 DEF EInv, FilesKeyed
    <3> QED  BY <1>2, <2>1, <3>1, <3>2
  <2> QED  BY <2>2, <2>3
<1>6. ASSUME NEW kind \in Kinds, CreateIndexFails(kind) PROVE Goal
  <2>1. \A r \in DOMAIN Scanned : r[1] >= 0
    BY <1>1, ScannedAddress
  <2> QED  BY <1>6, <2>1 DEF CreateIndexFails, Loadable
<1>7. ASSUME NEW kind \in Kinds, DropIndex(kind) PROVE Goal
  <2>1. SameTable /\ open
    BY <1>7, UntouchedTable DEF DropIndex
  <2>2. kind # "HASH" /\ "HASH" \in Usable
    BY <1>7 DEF DropIndex, Usable
  <2>3. e \in file["HASH"]
    BY <1>7, <2>2 DEF DropIndex, Emptied, Kinds
  <2> QED  BY <1>2, <2>1, <2>2, <2>3
<1>8. CASE \/ \E n \in 1..MaxRowsPerInsert : \E ks \in [1..n -> Keys], op \in {"INSERT", "COPY"} :
                 StartInsert(op, ks)
           \/ RejectRow \/ SkipRejectedRow
           \/ \E k \in Keys : DeleteByScan(k)
           \/ \E kind \in Kinds, k \in Keys : DeleteByIndex(kind, k)
           \/ \E d \in stmt.doomed : SkipRow(d)
  <2>1. UNCHANGED <<main, fill, tail, open, index, opened, file>>
    BY <1>8 DEF StartInsert, RejectRow, SkipRejectedRow, DeleteByScan, DeleteByIndex, SkipRow
  <2> QED  BY <1>2, <2>1, UntouchedTable DEF Usable
<1>9. CASE FinishInsert \/ FinishDelete
  <2>1. Flush /\ UNCHANGED <<open, index, opened, file>>
    BY <1>9 DEF FinishInsert, FinishDelete, Flush
  <2> QED  BY <1>1, <1>2, <2>1, FlushKeepsRows DEF Usable, SameTable
<1>10. CASE InsertRow
  <2>1. PICK k, place : k = Head(stmt.keys) /\ place = Placed
    OBVIOUS
  <2>2. k \in Keys /\ Insert(k) /\ open
    <3>1. k \in Keys /\ Insert(k)
      BY <1>10, <2>1 DEF InsertRow, EInv, StatementsTyped
    <3> QED  BY <3>1 DEF Insert, InsertInTail, InsertInNewTail
  <2>3. "HASH" \in Usable
    BY <1>10 DEF InsertRow, Usable
  <2>4. e \in file["HASH"] \cup {<<k, place>>}
    BY <1>10, <2>1 DEF InsertRow, FileWith, Placed, Kinds
  <2>5. /\ Issued' = Issued \cup {place} /\ Fetch(place)' = k
        /\ \A r \in Issued : Fetch(r)' = Fetch(r)
    BY <1>1, <2>1, <2>2, InsertAddsRow DEF SameRow
  <2> QED  BY <2>2, <2>3, <2>4, <2>5 DEF HashFollows
<1>11. ASSUME NEW d \in stmt.doomed, DeleteRow(d) PROVE Goal
  <2>1. open /\ "HASH" \in Usable /\ Delete(d[1]) /\ d[1] \in Live
    BY <1>11 DEF DeleteRow, Delete, Usable
  <2>2. e \in file["HASH"]
    BY <1>11 DEF DeleteRow, FileWithout, Kinds
  <2>3. /\ Issued' = Issued /\ Fetch(d[1])' = Hole
        /\ \A r \in Issued : r # d[1] => Fetch(r)' = Fetch(r)
    BY <1>1, <2>1, DeleteRemovesRow DEF SameRow
  <2> QED  BY <2>1, <2>2, <2>3 DEF HashFollows
<1> QED  BY <1>3, <1>4, <1>5, <1>6, <1>7, <1>8, <1>9, <1>10, <1>11 DEF EngineNext

(* Every step but a statement that fails and a reorganization keeps an exact
   index exact. *)
LEMMA IndexesFollow ==
  ASSUME EInv, EInv', ClosedTogether, DoomedKeepKeys, [EngineNext]_engineVars
  PROVE  IndexFollows
<1> SUFFICES ASSUME open', NEW kind \in Usable',
                    IF kind \in Usable THEN open /\ IsExact(kind) ELSE kind = "HASH" /\ ~Ordered,
                    stmt'.op # "FAILED" \/ kind \notin Usable, ~ReorganizeTable
             PROVE  IsExact(kind)'
  BY DEF IndexFollows
<1>1. IInv /\ IInv' /\ kind \in Kinds
  BY DEF EInv, CatalogKnows, Usable
<1>2. ASSUME kind \in Usable, SameTable, file'[kind] = file[kind] PROVE IsExact(kind)'
  BY <1>2, SameTableSameEntries DEF IsExact
<1>3. CASE DropTableStatement \/ CrashInDropTable \/ Crash
  BY <1>3 DEF DropTableStatement, DropTable, CrashInDropTable, Crash, Restart
<1>4. CASE CreateTableStatement \/ Bootstrap
  BY <1>4 DEF CreateTableStatement, Bootstrap, CreateTable, ClosedTogether, Usable
<1>5. CASE SelectOrdered \/ FinishInsert \/ FinishDelete \/ \E k \in Keys : DeleteBySearch(k)
  <2>1. Flush /\ UNCHANGED <<index, opened, file>>
    BY <1>5 DEF SelectOrdered, FinishInsert, FinishDelete, DeleteBySearch
  <2>2. SameTable
    BY <1>1, <2>1, FlushKeepsRows DEF SameTable
  <2> QED  BY <1>2, <2>1, <2>2 DEF Usable
<1>6. CASE \/ \E n \in 1..MaxRowsPerInsert : \E ks \in [1..n -> Keys], op \in {"INSERT", "COPY"} :
                 StartInsert(op, ks)
           \/ RejectRow \/ SkipRejectedRow
           \/ \E k \in Keys : DeleteByScan(k)
           \/ \E kin \in Kinds, k \in Keys : DeleteByIndex(kin, k)
           \/ \E d \in stmt.doomed : SkipRow(d)
           \/ UNCHANGED engineVars
  <2>1. UNCHANGED <<main, fill, tail, index, opened, file>>
    BY <1>6 DEF StartInsert, RejectRow, SkipRejectedRow, DeleteByScan, DeleteByIndex, SkipRow,
                engineVars
  <2> QED  BY <1>2, <2>1, UntouchedTable DEF Usable
<1>7. ASSUME NEW made \in Kinds, CreateIndex(made) PROVE IsExact(kind)'
  <2>1. SameTable /\ file' = [file EXCEPT ![made] = BulkLoaded(made)]
    BY <1>7, UntouchedTable DEF CreateIndex
  <2>2. CASE kind = made
    <3>1. kind = "HASH" /\ ~Ordered
      BY <1>7, <2>2 DEF CreateIndex, Usable
    <3>2. file'[kind] = {<<Scanned[r], r>> : r \in DOMAIN Scanned}
      BY <1>1, <2>1, <2>2, <3>1 DEF BulkLoaded, EInv, FilesKeyed
    <3>3. file'[kind] = RowEntries
      BY <3>1, <3>2 DEF Scanned, Rows, RowEntries
    <3> QED  BY <2>1, <3>3, SameTableSameEntries DEF IsExact
  <2>3. CASE kind # made
    <3>1. kind \in Usable
      BY <1>7, <2>3 DEF CreateIndex, Usable
    <3>2. file'[kind] = file[kind]
      BY <1>1, <2>1, <2>3 DEF EInv, FilesKeyed
    <3> QED  BY <1>2, <2>1, <3>1, <3>2
  <2> QED  BY <2>2, <2>3
<1>8. ASSUME NEW other \in Kinds, CreateIndexFails(other) \/ DropIndex(other) PROVE IsExact(kind)'
  <2>1. SameTable
    BY <1>8, UntouchedTable DEF CreateIndexFails, DropIndex
  <2>2. kind # other /\ kind \in Usable
    BY <1>8 DEF CreateIndexFails, DropIndex, Usable
  <2>3. file'[kind] = file[kind]
    BY <1>1, <1>8, <2>2 DEF CreateIndexFails, DropIndex, Emptied, EInv, FilesKeyed
  <2> QED  BY <1>2, <2>1, <2>2, <2>3
<1>9. CASE InsertRow
  <2>1. PICK k, place : k = Head(stmt.keys) /\ place = Placed
    OBVIOUS
  <2>2. k \in Keys /\ Insert(k)
    BY <1>9, <2>1 DEF InsertRow, EInv, StatementsTyped
  <2>3. kind \in Usable /\ IsExact(kind)
    BY <1>9 DEF InsertRow, Usable
  <2>4. file' = FileWith(index, k, place)
    BY <1>9, <2>1, <2>3 DEF InsertRow, Placed, Failed
  <2>5. file'[kind] = file[kind] \cup {<<k, place>>}
    BY <1>1, <2>3, <2>4 DEF FileWith, Usable
  <2>6. RowEntries' = RowEntries \cup {<<k, place>>}
    BY <1>1, <2>1, <2>2, InsertAddsEntry
  <2> QED  BY <2>3, <2>5, <2>6 DEF IsExact
<1>10. ASSUME stmt.op = "DELETE", NEW d \in stmt.doomed, DeleteRow(d) PROVE IsExact(kind)'
  <2>1. kind \in Usable /\ IsExact(kind) /\ Delete(d[1]) /\ d[1] \in Live
    BY <1>10 DEF DeleteRow, Delete, Usable
  <2>2. file' = FileWithout(index, d[2], d[1])
    BY <1>10, <2>1 DEF DeleteRow, Failed
  <2>3. file'[kind] = file[kind] \ {<<d[2], d[1]>>}
    BY <1>1, <2>1, <2>2 DEF FileWithout, Usable
  <2>4. Fetch(d[1]) = d[2]
    BY <1>10, <2>1 DEF DoomedKeepKeys
  <2>5. RowEntries' = RowEntries \ {<<d[2], d[1]>>}
    BY <1>1, <2>1, <2>4, DeleteRemovesEntry
  <2> QED  BY <2>1, <2>3, <2>5 DEF IsExact
<1> QED  BY <1>3, <1>4, <1>5, <1>6, <1>7, <1>8, <1>9, <1>10 DEF EngineNext

-----------------------------------------------------------------------------
(* What the engine remembers about rows, under every statement, every failure
   half way and every crash.                                               *)
THEOREM RowsInvariant == EngineSpec => []RInv
<1>1. EngineInit => RInv
  <2> SUFFICES ASSUME EngineInit PROVE RInv
    OBVIOUS
  <2>1. EInv
    BY EngineInitHasEInv
  <2> QED  BY <2>1 DEF EngineInit, Init, RInv, TailAhead, DoomedKeepKeys, ClosedTogether, Usable,
                      HashFollows, CleanAfterSuccess, Ok
<1>2. RInv /\ [EngineNext]_engineVars => RInv'
  <2> SUFFICES ASSUME RInv, [EngineNext]_engineVars PROVE RInv'
    OBVIOUS
  <2>1. EInv'
    BY EngineNextKeepsEInv DEF RInv
  <2>2. CASE EngineNext
    <3>1. IInv'
      BY <2>1 DEF EInv
    <3> QED  BY <2>1, <2>2, <3>1, EngineTailStaysAhead, DoomedStillKeepKeys, StillClosedTogether,
                HashStillFollows, StillClean DEF RInv, EInv
  <2>3. CASE UNCHANGED engineVars
    <3>1. SameTable /\ UNCHANGED <<fill, tail, dirty, open, index, opened, file, stmt>>
      BY <2>3, UntouchedTable DEF engineVars
    <3>2. DoomedKeepKeys' /\ HashFollows'
      BY <3>1 DEF RInv, DoomedKeepKeys, HashFollows, Usable, SameTable, SameRow, Live
    <3>3. TailAhead' /\ ClosedTogether' /\ CleanAfterSuccess'
      BY <3>1 DEF RInv, TailAhead, ClosedTogether, CleanAfterSuccess, Usable
    <3> QED  BY <2>1, <3>2, <3>3 DEF RInv
  <2> QED  BY <2>2, <2>3
<1> QED  BY <1>1, <1>2, PTL DEF EngineSpec

(* On a HEAP table an open hash never leads to a row with another key, not
   after a statement an index ended half way and not after a crash
   (engine.py, diskhash.py).                                               *)
THEOREM HashesNeverMislead == EngineSpec => []HashNeverMisleads
<1>1. RInv => HashNeverMisleads
  BY DEF RInv, HashFollows, HashNeverMisleads
<1> QED  BY <1>1, RowsInvariant, PTL

(* What a statement that succeeded did, and what an earlier one that failed
   left in memory, is on disk (QueryEngine._flush).                        *)
THEOREM SuccessIsDurable == EngineSpec => []DurableAfterSuccess
<1>1. RInv => DurableAfterSuccess
  BY CleanIsDurable DEF RInv, EInv, CleanAfterSuccess, DurableAfterSuccess
<1> QED  BY <1>1, RowsInvariant, PTL

(* An open index with exactly the rows of the table keeps having them, but for
   a statement that fails and a reorganization (engine.py, loader.py).      *)
THEOREM IndexesStayExact == EngineSpec => IndexKept
<1>1. RInv /\ RInv' /\ [EngineNext]_engineVars => [IndexFollows]_engineVars
  BY IndexesFollow DEF RInv
<1> QED  BY <1>1, RowsInvariant, PTL DEF IndexKept, EngineSpec
=============================================================================
