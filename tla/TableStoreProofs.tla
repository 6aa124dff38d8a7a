-------------------------- MODULE TableStoreProofs --------------------------
(* What TLAPS proves of TableStore, for every page capacity, table kind and *)
(* bound.                                                                   *)
EXTENDS TableStore, FiniteSetTheorems, TLAPS

(* A block of the file, or the empty page beyond its end. *)
LEMMA ReadPageType ==
  ASSUME NEW file \in Seq(Page), NEW i \in Int
  PROVE  ReadPage(file, i) \in Page
  <1>1. CASE i \in 0..(Len(file) - 1)
    BY <1>1 DEF ReadPage
  <1>2. CASE i \notin 0..(Len(file) - 1)
    BY <1>2, CapacityAssumption DEF ReadPage, Page
  <1> QED BY <1>1, <1>2

(* Writing block i replaces it, or extends the file up to it, and leaves the
   other blocks alone.                                                      *)
LEMMA WritePageShape ==
  ASSUME NEW file \in Seq(Page), NEW i \in Nat, NEW page \in Page
  PROVE  /\ WritePage(file, i, page) \in Seq(Page)
         /\ Len(WritePage(file, i, page)) = Larger(Len(file), i + 1)
         /\ WritePage(file, i, page)[i + 1] = page
         /\ \A j \in 1..Len(file) : j # i + 1 => WritePage(file, i, page)[j] = file[j]
  <1> DEFINE n == Larger(Len(file), i + 1)
             content(j) == IF j = i + 1 THEN page ELSE ReadPage(file, j - 1)
  <1>1. n \in Nat /\ n >= i + 1 /\ n >= Len(file)
    BY DEF Larger
  <1>2. \A j \in 1..n : content(j) \in Page
    BY <1>1, ReadPageType
  <1>3. WritePage(file, i, page) = [j \in 1..n |-> content(j)]
    BY DEF WritePage
  <1>4. [j \in 1..n |-> content(j)] \in Seq(Page)
    BY <1>1, <1>2
  <1>5. Len([j \in 1..n |-> content(j)]) = n
    BY <1>1
  <1>6. ASSUME NEW j \in 1..Len(file), j # i + 1
        PROVE  content(j) = file[j]
    BY <1>6 DEF ReadPage
  <1> HIDE DEF n, content
  <1> QED BY <1>1, <1>3, <1>4, <1>5, <1>6 DEF n, content

-----------------------------------------------------------------------------
(* TailPlaced is inductive together with TypeOK: whatever is buffered is the
   last page, so a write never leaves a gap and loses no other page.        *)
IInv == TypeOK /\ TailPlaced

(* No page in memory is the empty page under no id. *)
LEMMA NoTailType == NoTail \in [id : Nat \cup {-1}, slots : Page]
  BY CapacityAssumption DEF NoTail, Page

(* A file that was never written has no pages. *)
LEMMA NoPagesType == <<>> \in Seq(Page)
  OBVIOUS

(* The resident page, or the one inserts would make resident. *)
LEMMA OpenedTailShape ==
  ASSUME IInv
  PROVE  /\ OpenedTail \in [id : Nat, slots : Page]
         /\ OpenedTail.id \in {Len(fill) - 1, Len(fill)}
         /\ tail # NoTail => OpenedTail = tail
         /\ tail = NoTail /\ OpenedTail.id < Len(fill) =>
              OpenedTail.slots = fill[OpenedTail.id + 1]
         /\ tail = NoTail /\ OpenedTail.id = Len(fill) => OpenedTail.slots = <<>>
  <1>1. CASE tail # NoTail
    BY <1>1 DEF OpenedTail, IInv, TypeOK, TailPlaced
  <1>2. CASE tail = NoTail /\ fill # <<>>
    <2>1. Len(fill) \in Nat \ {0} /\ fill[Len(fill)] \in Page
      BY <1>2 DEF IInv, TypeOK
    <2> QED BY <1>2, <2>1 DEF OpenedTail
  <1>3. CASE tail = NoTail /\ fill = <<>>
    BY <1>3, CapacityAssumption DEF OpenedTail, Page
  <1> QED BY <1>1, <1>2, <1>3

(* After a flush the file holds the resident page, and every page it held. *)
LEMMA FlushedFillShape ==
  ASSUME IInv
  PROVE  /\ FlushedFill \in Seq(Page)
         /\ tail = NoTail => FlushedFill = fill
         /\ tail # NoTail => /\ Len(FlushedFill) = tail.id + 1
                             /\ FlushedFill[tail.id + 1] = tail.slots
         /\ Len(FlushedFill) >= Len(fill)
         /\ \A j \in 1..Len(fill) :
              (tail # NoTail => j # tail.id + 1) => FlushedFill[j] = fill[j]
  <1>1. CASE tail # NoTail /\ dirty
    <2>1. tail.id \in Nat /\ tail.slots \in Page /\ fill \in Seq(Page)
      BY <1>1 DEF IInv, TypeOK, TailPlaced
    <2>2. FlushedFill = WritePage(fill, tail.id, tail.slots)
      BY <1>1 DEF FlushedFill
    <2>3. Len(fill) \in Nat /\ tail.id \in {Len(fill) - 1, Len(fill)}
      BY <1>1, <2>1 DEF IInv, TailPlaced
    <2> DEFINE written == WritePage(fill, tail.id, tail.slots)
    <2>4. /\ written \in Seq(Page)
          /\ Len(written) = Larger(Len(fill), tail.id + 1)
          /\ written[tail.id + 1] = tail.slots
          /\ \A j \in 1..Len(fill) : j # tail.id + 1 => written[j] = fill[j]
      BY <2>1, WritePageShape
    <2> HIDE DEF written
    <2>5. Len(written) = tail.id + 1 /\ Len(written) >= Len(fill)
      BY <2>1, <2>3, <2>4 DEF Larger
    <2>6. FlushedFill = written
      BY <2>2 DEF written
    <2> QED BY <1>1, <2>4, <2>5, <2>6
  <1>2. CASE tail # NoTail /\ ~dirty
    <2>1. FlushedFill = fill /\ fill \in Seq(Page) /\ Len(fill) \in Nat
      BY <1>2 DEF FlushedFill, IInv, TypeOK
    <2>2. tail.id = Len(fill) - 1 /\ tail.id \in Nat /\ fill[tail.id + 1] = tail.slots
      BY <1>2, <2>1 DEF IInv, TypeOK, TailPlaced
    <2> QED BY <1>2, <2>1, <2>2
  <1>3. CASE tail = NoTail
    BY <1>3 DEF FlushedFill, IInv, TypeOK
  <1> QED BY <1>1, <1>2, <1>3

(* A tombstone keeps the length of the page, so every other slot its number. *)
LEMMA TombstoneShape ==
  ASSUME NEW page \in Page, NEW s \in 0..(Len(page) - 1)
  PROVE  /\ Tombstone(page, s) \in Page
         /\ Len(Tombstone(page, s)) = Len(page)
         /\ Tombstone(page, s)[s + 1] = Hole
         /\ \A j \in 1..Len(page) : j # s + 1 => Tombstone(page, s)[j] = page[j]
  BY DEF Tombstone, Page, Slot

(* Every page a RID can name is a page, resident or not. *)
LEMMA PageAtType ==
  ASSUME IInv, NEW p \in Int
  PROVE  PageAt(p) \in Page
  <1>1. FillIndex(p) \in Int
    BY DEF FillIndex, OverflowIndex
  <1> QED BY <1>1, ReadPageType DEF PageAt, FillPage, IInv, TypeOK

(* Overflow pages and main pages never share an id. *)
LEMMA FillIdInverse ==
  ASSUME NEW i \in Nat
  PROVE  FillId(i) \in Int /\ IsFill(FillId(i)) /\ FillIndex(FillId(i)) = i
  BY DEF FillId, IsFill, FillIndex, OverflowId, OverflowIndex

(* The page in memory is never missing from the count of pages. *)
LEMMA FillPagesType == IInv => FillPages \in Nat /\ Len(fill) <= FillPages
  BY DEF IInv, TypeOK, TailPlaced, FillPages, Larger

(* The only page beyond the file is the one in memory. *)
LEMMA OtherPagesHaveBlocks ==
  ASSUME IInv, NEW i \in 0..(FillPages - 1), tail # NoTail => i # tail.id
  PROVE  i \in 0..(Len(fill) - 1)
  <1>1. FillPages \in Nat /\ Len(fill) \in Nat
    BY FillPagesType DEF IInv, TypeOK
  <1>2. CASE tail = NoTail
    <2>1. FillPages = Len(fill)
      BY <1>1, <1>2 DEF FillPages, Larger, NoTail
    <2> QED BY <2>1
  <1>3. CASE tail # NoTail
    <2>1. tail.id \in Nat /\ tail.id \in {Len(fill) - 1, Len(fill)} /\ i # tail.id
      BY <1>3 DEF IInv, TailPlaced
    <2>2. FillPages = tail.id + 1
      BY <1>1, <2>1 DEF FillPages, Larger
    <2> QED BY <1>1, <2>1, <2>2
  <1> QED BY <1>2, <1>3

(* An issued RID names an existing slot of an existing page. *)
LEMMA IssuedAddress ==
  ASSUME IInv, NEW rid \in Issued
  PROVE  /\ rid[1] \in Int
         /\ rid[2] \in 0..(Len(PageAt(rid[1])) - 1)
         /\ rid = <<rid[1], rid[2]>>
         /\ IsFill(rid[1]) => FillIndex(rid[1]) \in 0..(FillPages - 1)
         /\ ~IsFill(rid[1]) => Ordered /\ rid[1] \in 0..(Len(main) - 1)
  <1>1. PICK p \in PageIds : \E s \in 0..(Len(PageAt(p)) - 1) : rid = <<p, s>>
    BY DEF Issued
  <1>2. Len(main) \in Nat
    BY DEF IInv, TypeOK
  <1>3. ASSUME NEW i \in 0..(FillPages - 1), p = FillId(i)
        PROVE  p \in Int /\ IsFill(p) /\ FillIndex(p) \in 0..(FillPages - 1)
    <2>1. i \in Nat
      BY FillPagesType
    <2> QED BY <1>3, <2>1, FillIdInverse
  <1>4. CASE Ordered /\ p \in 0..(Len(main) - 1)
    BY <1>1, <1>2, <1>4 DEF IsFill
  <1> QED BY <1>1, <1>3, <1>4 DEF PageIds

(* Only finitely many RIDs are ever issued, so the live rows can be counted. *)
LEMMA LiveFinite ==
  ASSUME IInv
  PROVE  IsFiniteSet(Live) /\ Cardinality(Live) \in Nat
  <1> DEFINE n == Larger(FillPages, Len(main))
             box == (-n..n) \X (0..Capacity)
  <1>1. n \in Nat /\ FillPages <= n /\ Len(main) <= n
    BY FillPagesType DEF Larger, IInv, TypeOK
  <1>2. ASSUME NEW rid \in Issued
        PROVE  rid \in box
    <2>1. rid[2] \in 0..Capacity
      BY IssuedAddress, PageAtType, CapacityAssumption DEF Page
    <2>2. CASE IsFill(rid[1])
      BY <1>1, <2>1, <2>2, IssuedAddress, FillPagesType DEF FillIndex, OverflowIndex
    <2>3. CASE ~IsFill(rid[1])
      BY <1>1, <2>1, <2>3, IssuedAddress DEF IInv, TypeOK
    <2> QED BY <2>2, <2>3
  <1>3. IsFiniteSet(-n..n) /\ IsFiniteSet(0..Capacity)
    <2>1. \A a, b \in Int : IsFiniteSet(a..b)
      BY FS_Interval
    <2>2. -n \in Int /\ n \in Int /\ 0 \in Int /\ Capacity \in Int
      BY <1>1, CapacityAssumption
    <2> HIDE DEF n
    <2> QED BY <2>1, <2>2
  <1>4. IsFiniteSet(box)
    BY <1>3, FS_Product
  <1>5. Live \in SUBSET box
    BY <1>2 DEF Live
  <1> QED BY <1>4, <1>5, FS_Subset, FS_CardinalityType

(* ... also after a step. *)
LEMMA LiveFiniteNext == IInv' => IsFiniteSet(Live')
<1> DEFINE finite == IsFiniteSet(Live)
<1>1. IInv => finite
  BY LiveFinite
<1>2. IInv' => finite'
  BY <1>1, PTL
<1> QED  BY <1>2

(* The blocks reorganize writes are pages: PerPage records fit in one. *)
LEMMA RewrittenShape ==
  ASSUME NEW n \in Nat, NEW t \in [1..n -> Keys]
  PROVE  Rewritten(t) \in Seq(Page)
  <1>1. PerPage \in Nat \ {0} /\ PerPage <= Capacity
    BY CapacityAssumption DEF PerPage, Larger
  <1>2. t \in Seq(Slot) /\ Len(t) = n
    BY DEF Slot
  <1>3. PagesFor(t) \in Nat
    BY <1>1, <1>2 DEF PagesFor, Larger
  <1>4. ASSUME NEW p \in 1..PagesFor(t)
        PROVE  SubSeq(t, (p - 1) * PerPage + 1, Smaller(p * PerPage, Len(t))) \in Page
    <2> DEFINE c == (p - 1) * PerPage
               b == Smaller(c + PerPage, n)
    <2>1. c \in Nat /\ p * PerPage = c + PerPage
      BY <1>1, <1>3
    <2> HIDE DEF c
    <2>2. b \in Nat /\ b <= n /\ b <= c + PerPage
      BY <1>1, <2>1 DEF Smaller
    <2> HIDE DEF b
    <2>3. SubSeq(t, c + 1, b) \in Seq(Slot)
      BY <1>2, <2>1, <2>2
    <2>4. Len(SubSeq(t, c + 1, b)) <= Capacity
      BY <1>1, <1>2, <2>1, <2>2, CapacityAssumption
    <2> QED BY <1>2, <2>1, <2>3, <2>4 DEF Page, b, c
  <1> DEFINE m == PagesFor(t)
             block(p) == SubSeq(t, (p - 1) * PerPage + 1, Smaller(p * PerPage, Len(t)))
  <1>5. Rewritten(t) = [p \in 1..m |-> block(p)]
    BY DEF Rewritten
  <1>6. m \in Nat /\ \A p \in 1..m : block(p) \in Page
    BY <1>3, <1>4
  <1> HIDE DEF m, block
  <1> QED BY <1>5, <1>6

(* A row appended to a page with room leaves a page. *)
LEMMA AppendShape ==
  ASSUME NEW page \in Page, HasRoom(page), NEW k \in Keys
  PROVE  Append(page, k) \in Page /\ <<k>> \in Page
  BY CapacityAssumption DEF Page, Slot, HasRoom

(* The row goes to the page in memory or starts the next one. *)
LEMMA InsertKeepsIInv ==
  ASSUME IInv, NEW k \in Keys, Insert(k)
  PROVE  IInv'
  <1> USE DEF IInv
  <1>1. CASE InsertInTail(k)
    <2>1. /\ tail' = [id |-> OpenedTail.id, slots |-> Append(OpenedTail.slots, k)]
          /\ dirty' = TRUE /\ open' = open /\ open
          /\ main' = main /\ fill' = fill
      BY <1>1, OpenedTailShape DEF InsertInTail
    <2>2. tail'.id \in Nat /\ tail'.slots \in Page
      BY <1>1, <2>1, OpenedTailShape, AppendShape DEF InsertInTail
    <2>3. tail'.id \in {Len(fill) - 1, Len(fill)} \cap Nat
      BY <2>1, <2>2, OpenedTailShape
    <2>4. TypeOK'
      BY <2>1, <2>2 DEF TypeOK
    <2> QED BY <2>1, <2>3, <2>4 DEF TailPlaced, NoTail, TypeOK
  <1>2. CASE InsertInNewTail(k)
    <2>1. /\ tail' = [id |-> OpenedTail.id + 1, slots |-> <<k>>]
          /\ fill' = FlushedFill /\ main' = main
          /\ dirty' = TRUE /\ open' = open /\ open
          /\ ~HasRoom(OpenedTail.slots)
      BY <1>2 DEF InsertInNewTail
    <2>2. <<k>> \in Page
      BY CapacityAssumption DEF Page, Slot
    <2>3. Len(fill') = OpenedTail.id + 1
      <3>1. CASE tail # NoTail
        BY <2>1, <3>1, OpenedTailShape, FlushedFillShape
      <3>2. CASE tail = NoTail
        \* with no page resident the full page is the last one on disk
        <4>1. OpenedTail.id # Len(fill)
          BY <2>1, <3>2, OpenedTailShape, CapacityAssumption DEF HasRoom
        <4> QED BY <2>1, <3>2, <4>1, OpenedTailShape, FlushedFillShape DEF TypeOK
      <3> QED BY <3>1, <3>2
    <2>4. TypeOK'
      BY <2>1, <2>2, OpenedTailShape, FlushedFillShape DEF TypeOK
    <2> QED BY <2>1, <2>3, <2>4, OpenedTailShape DEF TailPlaced, NoTail, TypeOK
  <1> QED BY <1>1, <1>2 DEF Insert

(* The page in memory becomes the last block. *)
LEMMA FlushKeepsIInv ==
  ASSUME IInv, Flush
  PROVE  IInv'
  <1> USE DEF IInv, Flush
  <1>1. TypeOK'
    BY FlushedFillShape DEF TypeOK
  <1>w. UNCHANGED <<main, tail, open>> /\ dirty' = FALSE /\ fill' = FlushedFill
    OBVIOUS
  <1>2. ASSUME tail # NoTail
        PROVE  tail.id = Len(fill') - 1 /\ tail.id \in Nat /\ fill'[tail.id + 1] = tail.slots
    BY <1>2, FlushedFillShape DEF TypeOK, TailPlaced
  <1> QED BY <1>1, <1>2 DEF TypeOK, TailPlaced

(* A deletion empties a slot in memory or in a block. *)
LEMMA DeleteKeepsIInv ==
  ASSUME IInv, NEW rid \in Live, Delete(rid)
  PROVE  IInv'
  <1> USE DEF IInv
  <1>1. rid \in Issued
    BY DEF Live
  <1> DEFINE page == PageAt(rid[1])
             new  == Tombstone(page, rid[2])
  <1>2. page \in Page /\ new \in Page /\ Len(new) = Len(page)
    BY <1>1, IssuedAddress, PageAtType, TombstoneShape
  <1>3. CASE DeleteInTail(rid)
    <2>1. page = tail.slots
      BY <1>3 DEF DeleteInTail, PageAt, FillPage
    <2>2. tail' = [tail EXCEPT !.slots = new] /\ dirty' = TRUE /\ open' = open
      BY <1>3, <2>1 DEF DeleteInTail, Delete
    <2>3. TypeOK'
      BY <1>2, <1>3, <2>2 DEF DeleteInTail, TypeOK
    <2> HIDE DEF new
    <2> QED BY <1>3, <2>2, <2>3 DEF DeleteInTail, TypeOK, TailPlaced, NoTail
  <1>4. CASE DeleteInFill(rid)
    <2> DEFINE i == FillIndex(rid[1])
    <2>1. i \in Nat /\ i < FillPages
      BY <1>1, <1>4, IssuedAddress, FillPagesType DEF DeleteInFill
    <2>2. /\ fill' = WritePage(fill, i, new)
          /\ main' = main /\ tail' = tail /\ dirty' = dirty /\ open' = open
          /\ tail # NoTail => i # tail.id
      BY <1>4 DEF DeleteInFill, Delete
    <2> HIDE DEF i, new
    <2>3. i < Len(fill)
      BY <2>1, <2>2, FillPagesType, OtherPagesHaveBlocks DEF TypeOK
    <2>4. /\ fill' \in Seq(Page) /\ Len(fill') = Len(fill)
          /\ \A j \in 1..Len(fill) : j # i + 1 => fill'[j] = fill[j]
      <3>1. /\ fill \in Seq(Page) /\ Len(fill) \in Nat
            /\ fill' \in Seq(Page)
            /\ Len(fill') = Larger(Len(fill), i + 1)
            /\ \A j \in 1..Len(fill) : j # i + 1 => fill'[j] = fill[j]
        <4> HIDE DEF page
        <4>1. fill \in Seq(Page) /\ new \in Page
          BY <1>2 DEF TypeOK
        <4>2. /\ WritePage(fill, i, new) \in Seq(Page)
              /\ Len(WritePage(fill, i, new)) = Larger(Len(fill), i + 1)
              /\ \A j \in 1..Len(fill) : j # i + 1 => WritePage(fill, i, new)[j] = fill[j]
          BY <2>1, <4>1, WritePageShape
        <4> QED BY <2>2, <4>1, <4>2
      <3> QED BY <2>1, <2>3, <3>1 DEF Larger
    <2>5. TypeOK'
      BY <2>2, <2>4 DEF TypeOK
    <2> QED BY <2>1, <2>2, <2>4, <2>5 DEF TypeOK, TailPlaced
  <1>5. CASE DeleteInMain(rid)
    <2>1. rid[1] \in Nat /\ Ordered
      BY <1>1, <1>5, IssuedAddress DEF DeleteInMain
    <2>2. main' \in Seq(Page)
      BY <1>2, <1>5, <2>1, WritePageShape DEF DeleteInMain, TypeOK
    <2> QED BY <1>5, <2>1, <2>2 DEF DeleteInMain, Delete, TypeOK, TailPlaced
  <1> QED BY <1>3, <1>4, <1>5 DEF Delete

(* The rewritten file is pages, however much of it was written. *)
LEMMA ReorganizeKeepsIInv ==
  ASSUME IInv, Reorganize \/ CrashInReorganize
  PROVE  IInv'
  <1> USE DEF IInv
  <1>1. main' \in Seq(Page)
    <2> DEFINE count == Cardinality(Live)
    <2>w. count \in Nat
      BY LiveFinite
    <2> HIDE DEF count
    <2>1. ASSUME NEW t \in [1..count -> Keys]
          PROVE  /\ Rewritten(t) \in Seq(Page)
                 /\ \A n \in 0..PagesFor(t) : SubSeq(Rewritten(t), 1, n) \in Seq(Page)
      <3>1. Rewritten(t) \in Seq(Page)
        BY <2>w, RewrittenShape
      <3>2. PagesFor(t) = Len(Rewritten(t))
        <4>1. PagesFor(t) \in Nat
          <5>1. Len(t) \in Nat
            BY <2>w
          <5>2. PerPage \in Nat \ {0}
            BY CapacityAssumption DEF PerPage, Larger
          <5> QED BY <5>1, <5>2 DEF PagesFor, Larger
        <4> QED BY <4>1 DEF Rewritten
      <3> QED BY <3>1, <3>2
    <2> QED BY <2>1 DEF Reorganize, CrashInReorganize, SortedRows, count
  <1>2. fill' \in Seq(Page)
    <2>1. CASE Reorganize
      BY <2>1 DEF Reorganize
    <2>2. CASE CrashInReorganize
      BY <2>2, FlushedFillShape DEF CrashInReorganize
    <2> QED BY <2>1, <2>2
  <1>3. tail' = NoTail /\ dirty' = FALSE /\ open' \in BOOLEAN /\ Ordered
    BY DEF Reorganize, CrashInReorganize, TypeOK
  <1> QED BY <1>1, <1>2, <1>3, NoTailType DEF TypeOK, TailPlaced

(* It holds of a table that was never created ... *)
LEMMA InitHasIInv == Init => IInv
  <1> SUFFICES ASSUME Init
               PROVE  IInv
    OBVIOUS
  <1>1. TypeOK
    BY NoTailType, NoPagesType, Zenon DEF Init, TypeOK
  <1> QED BY <1>1 DEF Init, IInv, TailPlaced

(* ... and every operation and every crash keeps it. *)
LEMMA NextKeepsIInv ==
  ASSUME IInv, [Next]_vars
  PROVE  IInv'
  <1>1. CASE CreateTable
    BY <1>1 DEF CreateTable, IInv, TypeOK, TailPlaced
  <1>2. CASE DropTable
    <2>1. TypeOK'
      BY <1>2, NoTailType, NoPagesType, Zenon DEF DropTable, TypeOK
    <2> QED BY <1>2, <2>1 DEF DropTable, IInv, TailPlaced
  <1>3. ASSUME NEW k \in Keys, Insert(k)
        PROVE  IInv'
    BY <1>3, InsertKeepsIInv
  <1>4. CASE Flush
    BY <1>4, FlushKeepsIInv
  <1>5. ASSUME NEW rid \in Live, Delete(rid)
        PROVE  IInv'
    BY <1>5, DeleteKeepsIInv
  <1>6. CASE Reorganize \/ CrashInReorganize
    BY <1>6, ReorganizeKeepsIInv
  <1>7. CASE Restart
    BY <1>7, NoTailType DEF Restart, IInv, TypeOK, TailPlaced
  <1>8. CASE UNCHANGED vars
    BY <1>8 DEF vars, IInv, TypeOK, TailPlaced
  <1> QED BY <1>1, <1>2, <1>3, <1>4, <1>5, <1>6, <1>7, <1>8 DEF Next

(* The store never corrupts its buffer: in every reachable state the page in
   memory is the last of its file, or the next, and clean means written.    *)
THEOREM InductiveInvariant == Spec => []IInv
  BY InitHasIInv, NextKeepsIInv, PTL DEF Spec

(* No page ever holds more slots than its capacity, and the page in memory is
   a page (page.py, diskstore.py). *)
THEOREM TypeCorrect == Spec => []TypeOK
  BY InductiveInvariant, PTL DEF IInv

(* The page in memory is the last block of its file or the next one, and when
   it is clean the block equals it (diskstore.py: insert, flush, _open_tail). *)
THEOREM TailAlwaysPlaced == Spec => []TailPlaced
  BY InductiveInvariant, PTL DEF IInv

-----------------------------------------------------------------------------
(* The pages of the fill file as readers see them survive a flush. *)
LEMMA FlushedReads ==
  ASSUME IInv
  PROVE  /\ Len(FlushedFill) = FillPages
         /\ \A i \in 0..(FillPages - 1) : ReadPage(FlushedFill, i) = FillPage(i)
  <1> USE DEF IInv
  <1>1. fill \in Seq(Page) /\ Len(fill) \in Nat
    BY DEF TypeOK
  <1>2. CASE tail # NoTail
    <2>1. /\ tail.id \in Nat /\ tail.id \in {Len(fill) - 1, Len(fill)}
          /\ FillPages = tail.id + 1
      BY <1>1, <1>2 DEF TypeOK, TailPlaced, FillPages, Larger
    <2>2. Len(FlushedFill) = FillPages
      BY <1>2, <2>1, FlushedFillShape
    <2>3. ASSUME NEW i \in 0..(FillPages - 1)
          PROVE  ReadPage(FlushedFill, i) = FillPage(i)
      <3>1. ReadPage(FlushedFill, i) = FlushedFill[i + 1]
        BY <2>1, <2>2 DEF ReadPage
      <3>2. CASE i = tail.id
        BY <1>2, <3>1, <3>2, FlushedFillShape DEF FillPage
      <3>3. CASE i # tail.id
        <4>1. i + 1 \in 1..Len(fill) /\ i + 1 # tail.id + 1
          BY <1>1, <2>1, <3>3
        <4>2. FlushedFill[i + 1] = fill[i + 1]
          BY <4>1, FlushedFillShape
        <4> QED BY <3>1, <3>3, <4>1, <4>2 DEF FillPage, ReadPage
      <3> QED BY <3>2, <3>3
    <2> QED BY <2>2, <2>3
  <1>3. CASE tail = NoTail
    BY <1>1, <1>3, FlushedFillShape DEF FillPages, FillPage, Larger, NoTail
  <1> QED BY <1>2, <1>3

(* A page of the fill file, resident or not, is a page. *)
LEMMA FillPageType ==
  ASSUME IInv, NEW i \in Nat
  PROVE  FillPage(i) \in Page
  BY ReadPageType DEF FillPage, IInv, TypeOK

-----------------------------------------------------------------------------
(* Pages and addresses.                                                    *)

(* The addresses handed out are the slots of the pages. *)
Addressed(r) ==
  /\ r = <<r[1], r[2]>>
  /\ r[1] \in Int
  /\ r[2] \in 0..(Len(PageAt(r[1])) - 1)

IssuedAreAddressed ==
  /\ \A p \in Int : PageAt(p) \in Page
  /\ \A r : r \in Issued <=> Addressed(r)

(* Beyond the last page of the table there is nothing to read. *)
LEMMA NoPageBeyond ==
  ASSUME IInv, NEW i \in Int, i \notin 0..(FillPages - 1)
  PROVE  FillPage(i) = <<>>
<1>1. Len(fill) \in Nat /\ FillPages \in Nat /\ Len(fill) <= FillPages
  BY FillPagesType DEF IInv, TypeOK
<1>2. tail # NoTail => tail.id \in 0..(FillPages - 1)
  BY <1>1 DEF IInv, TypeOK, TailPlaced, FillPages, Larger
<1> QED  BY <1>1, <1>2 DEF FillPage, ReadPage

(* So they are in every state that the table reaches ... *)
LEMMA IssuedSlots == IInv => IssuedAreAddressed
<1> SUFFICES ASSUME IInv PROVE IssuedAreAddressed
  OBVIOUS
<1>1. \A p \in Int : PageAt(p) \in Page
  BY PageAtType
<1>2. ASSUME NEW r, r \in Issued PROVE Addressed(r)
  BY <1>2, IssuedAddress DEF Addressed
<1>3. ASSUME NEW r, Addressed(r) PROVE r \in Issued
  <2> DEFINE p == r[1]
             s == r[2]
  <2>1. p \in Int /\ s \in 0..(Len(PageAt(p)) - 1) /\ r = <<p, s>>
    BY <1>3 DEF Addressed
  <2> HIDE DEF p, s
  <2>2. PageAt(p) \in Page /\ PageAt(p) # <<>>
    BY <1>1, <2>1 DEF Page
  <2>3. CASE IsFill(p)
    <3>1. FillIndex(p) \in Int /\ FillPage(FillIndex(p)) # <<>>
      BY <2>1, <2>2, <2>3 DEF FillIndex, OverflowIndex, PageAt
    <3>2. FillIndex(p) \in 0..(FillPages - 1)
      BY <3>1, NoPageBeyond
    <3>3. p = FillId(FillIndex(p))
      BY <2>1 DEF FillId, FillIndex, OverflowId, OverflowIndex
    <3>4. p \in PageIds
      BY <3>2, <3>3 DEF PageIds
    <3> QED  BY <2>1, <3>4 DEF Issued
  <2>4. CASE ~IsFill(p)
    <3>1. Ordered /\ p \in 0..(Len(main) - 1)
      BY <2>1, <2>2, <2>4 DEF IsFill, PageAt, ReadPage
    <3>2. p \in PageIds
      BY <3>1 DEF PageIds
    <3> QED  BY <2>1, <3>2 DEF Issued
  <2> QED  BY <2>3, <2>4
<1> QED  BY <1>1, <1>2, <1>3 DEF IssuedAreAddressed

(* ... and after every step. *)
LEMMA IssuedSlotsNext == IInv' => IssuedAreAddressed'
  BY IssuedSlots, PTL

-----------------------------------------------------------------------------
(* What each operation does to the pages.                                  *)

SamePageAt(p) == PageAt(p)' = PageAt(p)

(* A flush changes no page as readers see it. *)
LEMMA FlushKeepsAllPages ==
  ASSUME IInv, Flush, NEW p \in Int
  PROVE  SamePageAt(p)
<1>1. main' = main /\ tail' = tail /\ fill' = FlushedFill
  BY DEF Flush
<1>2. FillIndex(p) \in Int /\ FillPages \in Nat
  BY FillPagesType DEF FillIndex, OverflowIndex
<1>3. ASSUME NEW i \in Int PROVE FillPage(i)' = FillPage(i)
  <2>1. CASE i \in 0..(FillPages - 1)
    BY <1>1, <2>1, FlushedReads DEF FillPage, ReadPage
  <2>2. CASE i \notin 0..(FillPages - 1)
    <3>1. FillPage(i) = <<>>
      BY <2>2, NoPageBeyond
    <3>2. ReadPage(fill', i) = <<>>
      BY <1>1, <2>2, FlushedReads DEF ReadPage
    <3> QED  BY <1>1, <3>1, <3>2 DEF FillPage
  <2> QED  BY <2>1, <2>2
<1> QED  BY <1>1, <1>2, <1>3 DEF SamePageAt, PageAt, ReadPage

(* The address of the row that was just placed. *)
Placed == <<FillId(tail'.id), Len(tail'.slots) - 1>>

(* An insert appends to one page, in memory or new, and changes no other. *)
LEMMA InsertAppends ==
  ASSUME IInv, IInv', NEW k \in Keys, Insert(k), NEW place, place = Placed
  PROVE  /\ place[1] \in Int
         /\ place = <<place[1], Len(PageAt(place[1]))>>
         /\ PageAt(place[1])' = Append(PageAt(place[1]), k)
         /\ \A p \in Int : p # place[1] => SamePageAt(p)
<1>1. /\ fill \in Seq(Page) /\ Len(fill) \in Nat
      /\ FillPages \in Nat /\ Len(fill) <= FillPages /\ main' = main
  BY FillPagesType DEF IInv, TypeOK, Insert, InsertInTail, InsertInNewTail
<1>2. /\ OpenedTail.id \in Nat /\ OpenedTail.slots \in Page
      /\ OpenedTail.id \in {Len(fill) - 1, Len(fill)}
      /\ tail # NoTail => OpenedTail = tail
      /\ tail = NoTail /\ OpenedTail.id < Len(fill) => OpenedTail.slots = fill[OpenedTail.id + 1]
      /\ tail = NoTail /\ OpenedTail.id = Len(fill) => OpenedTail.slots = <<>>
  BY OpenedTailShape
<1>3. PICK i : i = tail'.id
  OBVIOUS
<1>4. /\ i \in Nat /\ tail' # NoTail
      /\ tail'.slots = Append(FillPage(i), k)
      /\ \A j \in Int : j # i => FillPage(j)' = FillPage(j)
  <2>1. CASE InsertInTail(k)
    <3>1. /\ tail' = [id |-> OpenedTail.id, slots |-> Append(OpenedTail.slots, k)]
          /\ fill' = fill
      BY <2>1, OpenedTailShape DEF InsertInTail
    <3>2. FillPage(OpenedTail.id) = OpenedTail.slots
      BY <1>1, <1>2 DEF FillPage, ReadPage
    <3>3. i = OpenedTail.id /\ tail' # NoTail
      BY <1>2, <1>3, <3>1 DEF NoTail
    <3>4. ASSUME NEW j \in Int, j # i PROVE FillPage(j)' = FillPage(j)
      <4>1. FillPage(j)' = ReadPage(fill, j)
        BY <1>3, <3>1, <3>4 DEF FillPage, ReadPage
      <4>2. FillPage(j) = ReadPage(fill, j)
        BY <1>2, <3>3, <3>4 DEF FillPage
      <4> QED  BY <4>1, <4>2
    <3> QED  BY <1>2, <3>1, <3>2, <3>3, <3>4
  <2>2. CASE InsertInNewTail(k)
    <3>1. tail' = [id |-> OpenedTail.id + 1, slots |-> <<k>>] /\ fill' = FlushedFill
      BY <2>2 DEF InsertInNewTail
    <3>2. Len(fill') = FillPages
      BY <3>1, FlushedReads
    <3>3. i = FillPages /\ tail' # NoTail
      <4>1. i \in {Len(fill') - 1, Len(fill')} /\ tail' # NoTail
        BY <1>2, <1>3, <3>1 DEF IInv, TailPlaced, NoTail
      <4>2. OpenedTail.id + 1 >= FillPages
        BY <1>1, <1>2 DEF FillPages, Larger, NoTail
      <4> QED  BY <1>1, <1>2, <1>3, <3>1, <3>2, <4>1, <4>2
    <3>4. FillPage(i) = <<>>
      BY <1>1, <3>3, NoPageBeyond
    <3>5. tail'.slots = Append(FillPage(i), k)
      BY <3>1, <3>4
    <3>6. ASSUME NEW j \in Int, j # i PROVE FillPage(j)' = FillPage(j)
      <4>1. FillPage(j)' = ReadPage(fill', j)
        BY <1>3, <3>3, <3>6 DEF FillPage, ReadPage
      <4>2. CASE j \in 0..(FillPages - 1)
        BY <3>1, <4>1, <4>2, FlushedReads
      <4>3. CASE j \notin 0..(FillPages - 1)
        BY <1>1, <3>2, <4>1, <4>3, NoPageBeyond DEF ReadPage
      <4> QED  BY <4>2, <4>3
    <3> QED  BY <1>1, <3>3, <3>5, <3>6
  <2> QED  BY <2>1, <2>2 DEF Insert
<1>5. PICK p : p = FillId(i)
  OBVIOUS
<1>6. p \in Int /\ IsFill(p) /\ FillIndex(p) = i
  BY <1>4, <1>5, FillIdInverse
<1>7. FillPage(i) \in Page /\ place = <<p, Len(tail'.slots) - 1>>
  BY <1>3, <1>4, <1>5, FillPageType DEF Placed
<1>8. PageAt(p) = FillPage(i) /\ PageAt(p)' = tail'.slots
  <2>1. FillPage(i)' = tail'.slots
    BY <1>3, <1>4 DEF FillPage
  <2> QED  BY <1>6, <2>1 DEF PageAt
<1>9. ASSUME NEW q \in Int, q # p PROVE SamePageAt(q)
  <2>1. CASE IsFill(q)
    <3>1. FillIndex(q) \in Int /\ FillIndex(q) # i
      BY <1>4, <1>5, <1>9 DEF FillIndex, FillId, OverflowIndex, OverflowId
    <3> QED  BY <1>4, <2>1, <3>1 DEF SamePageAt, PageAt
  <2>2. CASE ~IsFill(q)
    BY <1>1, <2>2 DEF SamePageAt, PageAt, ReadPage
  <2> QED  BY <2>1, <2>2
<1>10. Len(Append(FillPage(i), k)) - 1 = Len(FillPage(i))
  BY <1>7 DEF Page
<1> QED  BY <1>4, <1>6, <1>7, <1>8, <1>9, <1>10

-----------------------------------------------------------------------------
(* A deletion makes a hole in the page of its row and changes no other. *)
LEMMA DeleteEmptiesSlot ==
  ASSUME IInv, NEW rid \in Live, Delete(rid)
  PROVE  /\ PageAt(rid[1])' = Tombstone(PageAt(rid[1]), rid[2])
         /\ \A p \in Int : p # rid[1] => SamePageAt(p)
<1> DEFINE q   == rid[1]
           new == Tombstone(PageAt(q), rid[2])
           f   == FillIndex(q)
<1>1. /\ q \in Int /\ rid[2] \in 0..(Len(PageAt(q)) - 1)
      /\ IsFill(q) => f \in 0..(FillPages - 1)
      /\ ~IsFill(q) => q \in 0..(Len(main) - 1)
  BY IssuedAddress DEF Live
<1>2. PageAt(q) \in Page /\ new \in Page /\ f \in Int
  BY <1>1, PageAtType, TombstoneShape DEF FillIndex, OverflowIndex
<1>3. /\ FillPages \in Nat /\ fill \in Seq(Page) /\ Len(fill) \in Nat
      /\ main \in Seq(Page) /\ Len(main) \in Nat
  BY FillPagesType DEF IInv, TypeOK
<1>4. IsFill(q) => PageAt(q) = FillPage(f)
  BY DEF PageAt
<1>5. PageAt(q)' = IF IsFill(q) THEN FillPage(f)' ELSE ReadPage(main', q)
  BY DEF PageAt, ReadPage, IsFill, FillIndex, OverflowIndex, FillPage
<1>6. \A p \in Int : p # q /\ IsFill(p) => FillIndex(p) \in Int /\ (IsFill(q) => FillIndex(p) # f)
  BY <1>1 DEF FillIndex, OverflowIndex
<1>7. \A p \in Int : SamePageAt(p) \/ ~(IF IsFill(p) THEN FillPage(FillIndex(p))' = FillPage(FillIndex(p))
                                      ELSE ReadPage(main', p) = ReadPage(main, p))
  BY DEF SamePageAt, PageAt, ReadPage, IsFill, FillIndex, OverflowIndex, FillPage
<1> HIDE DEF q, new, f
<1>8. CASE DeleteInTail(rid)
  <2>1. /\ tail' = [tail EXCEPT !.slots = new] /\ fill' = fill /\ main' = main
        /\ IsFill(q) /\ f = tail.id /\ tail # NoTail
    BY <1>4, <1>8 DEF DeleteInTail, FillPage, new, f, q
  <2>2. tail'.id = tail.id /\ tail'.slots = new /\ tail' # NoTail
    BY <2>1, <1>1 DEF IInv, TypeOK, TailPlaced, NoTail
  <2>3. FillPage(f)' = new
    BY <2>1, <2>2 DEF FillPage
  <2>4. ASSUME NEW j \in Int, j # f PROVE FillPage(j)' = FillPage(j)
    BY <2>1, <2>2, <2>4 DEF FillPage, ReadPage
  <2> QED  BY <1>5, <1>6, <1>7, <2>1, <2>3, <2>4 DEF q, new
<1>9. CASE DeleteInFill(rid)
  <2>1. /\ fill' = WritePage(fill, f, new) /\ tail' = tail /\ main' = main
        /\ IsFill(q) /\ (tail # NoTail => f # tail.id)
    BY <1>9 DEF DeleteInFill, new, f, q
  <2>2. f \in 0..(Len(fill) - 1)
    BY <1>1, <2>1, OtherPagesHaveBlocks
  <2>3. /\ Len(WritePage(fill, f, new)) = Larger(Len(fill), f + 1)
        /\ WritePage(fill, f, new)[f + 1] = new
        /\ \A j \in 1..Len(fill) : j # f + 1 => WritePage(fill, f, new)[j] = fill[j]
    <3>1. fill \in Seq(Page) /\ f \in Nat /\ new \in Page
      BY <1>2, <1>3, <2>2
    <3> QED  BY <3>1, WritePageShape
  <2>4. Len(fill') = Len(fill)
    BY <1>3, <2>1, <2>2, <2>3 DEF Larger
  <2>5. FillPage(f)' = new
    BY <1>3, <2>1, <2>2, <2>3, <2>4 DEF FillPage, ReadPage
  <2>6. ASSUME NEW j \in Int, j # f PROVE FillPage(j)' = FillPage(j)
    <3>1. j \in 0..(Len(fill) - 1) => fill'[j + 1] = fill[j + 1]
      BY <1>3, <2>1, <2>2, <2>3, <2>6
    <3>2. ReadPage(fill', j) = ReadPage(fill, j)
      BY <2>4, <3>1 DEF ReadPage
    <3> QED  BY <2>1, <3>2 DEF FillPage
  <2> QED  BY <1>5, <1>6, <1>7, <2>1, <2>5, <2>6 DEF q, new
<1>10. CASE DeleteInMain(rid)
  <2>1. /\ main' = WritePage(main, q, new) /\ UNCHANGED <<fill, tail>>
        /\ ~IsFill(q)
    BY <1>10 DEF DeleteInMain, new, q
  <2>2. q \in 0..(Len(main) - 1)
    BY <1>1, <2>1
  <2>3. /\ Len(WritePage(main, q, new)) = Larger(Len(main), q + 1)
        /\ WritePage(main, q, new)[q + 1] = new
        /\ \A j \in 1..Len(main) : j # q + 1 => WritePage(main, q, new)[j] = main[j]
    <3>1. main \in Seq(Page) /\ q \in Nat /\ new \in Page
      BY <1>2, <1>3, <2>2
    <3> QED  BY <3>1, WritePageShape
  <2>4. Len(main') = Len(main)
    BY <1>3, <2>1, <2>2, <2>3 DEF Larger
  <2>5. ReadPage(main', q) = new
    BY <1>3, <2>1, <2>2, <2>3, <2>4 DEF ReadPage
  <2>6. ASSUME NEW p \in Int, p # q PROVE ReadPage(main', p) = ReadPage(main, p)
    <3>1. p \in 0..(Len(main) - 1) => main'[p + 1] = main[p + 1]
      BY <1>3, <2>1, <2>2, <2>3, <2>6
    <3> QED  BY <2>4, <3>1 DEF ReadPage
  <2>7. \A j \in Int : FillPage(j)' = FillPage(j)
    BY <2>1 DEF FillPage, ReadPage
  <2> QED  BY <1>5, <1>6, <1>7, <2>1, <2>5, <2>6, <2>7 DEF q, new
<1> QED  BY <1>8, <1>9, <1>10 DEF Delete

-----------------------------------------------------------------------------
(* What each operation does to the rows.                                   *)

SameRow(r) == Fetch(r)' = Fetch(r)

(* A flush changes no row. *)
LEMMA FlushKeepsRows ==
  ASSUME IInv, IInv', Flush
  PROVE  /\ Issued' = Issued /\ Live' = Live
         /\ \A r \in Issued : SameRow(r)
<1>1. IssuedAreAddressed /\ IssuedAreAddressed'
  BY IssuedSlots, IssuedSlotsNext
<1>2. \A p \in Int : PageAt(p)' = PageAt(p)
  BY FlushKeepsAllPages DEF SamePageAt
<1>3. \A r : Addressed(r)' <=> Addressed(r)
  BY <1>2 DEF Addressed
<1>4. Issued' = Issued
  BY <1>1, <1>3 DEF IssuedAreAddressed
<1>5. \A r \in Issued : Fetch(r)' = Fetch(r)
  BY <1>1, <1>2 DEF IssuedAreAddressed, Addressed, Fetch
<1> QED  BY <1>4, <1>5 DEF Live, SameRow

(* An insert adds one row under an address never handed out before. *)
LEMMA InsertAddsRow ==
  ASSUME IInv, IInv', NEW k \in Keys, Insert(k), NEW place, place = Placed
  PROVE  /\ place \notin Issued
         /\ Issued' = Issued \cup {place}
         /\ Fetch(place)' = k
         /\ \A r \in Issued : SameRow(r)
         /\ Live' = Live \cup {place}
<1>1. IssuedAreAddressed /\ IssuedAreAddressed'
  BY IssuedSlots, IssuedSlotsNext
<1>2. PICK p, n : p = place[1] /\ n = Len(PageAt(p))
  OBVIOUS
<1>3. /\ p \in Int /\ place = <<p, n>>
      /\ PageAt(p)' = Append(PageAt(p), k)
      /\ \A q \in Int : q # p => PageAt(q)' = PageAt(q)
  BY <1>2, InsertAppends DEF SamePageAt
<1>4. /\ PageAt(p) \in Page /\ n \in Nat
      /\ Len(PageAt(p)') = n + 1 /\ PageAt(p)'[n + 1] = k
      /\ \A j \in 1..n : PageAt(p)'[j] = PageAt(p)[j]
  <2>1. ASSUME NEW page \in Page
        PROVE  /\ Len(page) \in Nat
               /\ Len(Append(page, k)) = Len(page) + 1
               /\ Append(page, k)[Len(page) + 1] = k
               /\ \A j \in 1..Len(page) : Append(page, k)[j] = page[j]
    BY DEF Page
  <2>2. PageAt(p) \in Page
    BY <1>1, <1>3 DEF IssuedAreAddressed
  <2> QED  BY <1>2, <1>3, <2>1, <2>2
<1>5. ~Addressed(place)
  BY <1>2, <1>3, <1>4 DEF Addressed
<1>6. ASSUME NEW r PROVE Addressed(r)' <=> Addressed(r) \/ r = place
  <2>1. CASE r[1] = p
    <3>1. Addressed(r) <=> r = <<p, r[2]>> /\ r[2] \in 0..(n - 1)
      BY <1>2, <1>3, <2>1 DEF Addressed
    <3>2. Addressed(r)' <=> r = <<p, r[2]>> /\ r[2] \in 0..n
      BY <1>3, <1>4, <2>1 DEF Addressed
    <3>3. \A s : s \in 0..n <=> s \in 0..(n - 1) \/ s = n
      BY <1>4
    <3> QED  BY <1>3, <3>1, <3>2, <3>3
  <2>2. CASE r[1] # p
    BY <1>3, <2>2 DEF Addressed
  <2> QED  BY <2>1, <2>2
<1>7. Issued' = Issued \cup {place} /\ place \notin Issued
  BY <1>1, <1>5, <1>6 DEF IssuedAreAddressed
<1>8. Fetch(place)' = k
  BY <1>3, <1>4 DEF Fetch
<1>9. ASSUME NEW r \in Issued PROVE Fetch(r)' = Fetch(r)
  <2>1. Addressed(r) /\ Addressed(r)'
    BY <1>1, <1>6 DEF IssuedAreAddressed
  <2>2. CASE r[1] = p
    <3>1. r[2] \in 0..(n - 1) /\ r[2] + 1 \in 1..n /\ r[2] \in 0..n
      BY <1>2, <1>4, <2>1, <2>2 DEF Addressed
    <3> QED  BY <1>2, <1>4, <2>2, <3>1 DEF Fetch
  <2>3. CASE r[1] # p
    BY <1>3, <2>1, <2>3 DEF Fetch, Addressed
  <2> QED  BY <2>2, <2>3
<1> QED  BY <1>7, <1>8, <1>9, HoleAssumption DEF Live, SameRow

(* A deletion removes its row, and its address is not handed out again. *)
LEMMA DeleteRemovesRow ==
  ASSUME IInv, IInv', NEW rid \in Live, Delete(rid)
  PROVE  /\ Issued' = Issued
         /\ Fetch(rid)' = Hole
         /\ \A r \in Issued : r # rid => SameRow(r)
         /\ Live' = Live \ {rid}
<1>1. IssuedAreAddressed /\ IssuedAreAddressed'
  BY IssuedSlots, IssuedSlotsNext
<1>2. PICK p, s : p = rid[1] /\ s = rid[2]
  OBVIOUS
<1>3. /\ PageAt(p)' = Tombstone(PageAt(p), s)
      /\ \A q \in Int : q # p => PageAt(q)' = PageAt(q)
  BY <1>2, DeleteEmptiesSlot DEF SamePageAt
<1>4. p \in Int /\ PageAt(p) \in Page /\ s \in 0..(Len(PageAt(p)) - 1) /\ rid = <<p, s>>
  BY <1>1, <1>2 DEF IssuedAreAddressed, Addressed, Live
<1>5. /\ Len(PageAt(p)') = Len(PageAt(p)) /\ PageAt(p)'[s + 1] = Hole
      /\ \A j \in 1..Len(PageAt(p)) : j # s + 1 => PageAt(p)'[j] = PageAt(p)[j]
  BY <1>3, <1>4, TombstoneShape
<1>6. ASSUME NEW q \in Int PROVE Len(PageAt(q)') = Len(PageAt(q))
  BY <1>3, <1>5
<1>7. \A r : Addressed(r)' <=> Addressed(r)
  BY <1>6 DEF Addressed
<1>8. Issued' = Issued
  BY <1>1, <1>7 DEF IssuedAreAddressed
<1>9. Fetch(rid)' = Hole
  BY <1>4, <1>5 DEF Fetch
<1>10. ASSUME NEW r \in Issued, r # rid PROVE Fetch(r)' = Fetch(r)
  <2>1. Addressed(r)
    BY <1>1 DEF IssuedAreAddressed
  <2>2. CASE r[1] = p
    <3>1. r[2] \in 0..(Len(PageAt(p)) - 1) /\ r[2] # s
      BY <1>4, <1>10, <2>1, <2>2 DEF Addressed
    <3>2. r[2] + 1 \in 1..Len(PageAt(p)) /\ r[2] + 1 # s + 1
      BY <1>4, <3>1 DEF Page
    <3> QED  BY <1>5, <2>2, <3>1, <3>2 DEF Fetch
  <2>3. CASE r[1] # p
    BY <1>3, <2>1, <2>3 DEF Fetch, Addressed
  <2> QED  BY <2>2, <2>3
<1> QED  BY <1>8, <1>9, <1>10 DEF Live, SameRow

-----------------------------------------------------------------------------
(* What is on disk.                                                        *)

(* With nothing left to write, a restart would find exactly the rows there are. *)
LEMMA CleanIsDurable ==
  ASSUME IInv, ~dirty
  PROVE  Rows = Durable
<1>1. IssuedAreAddressed
  BY IssuedSlots
<1>2. FillPages = Len(fill) /\ FillPages \in Nat /\ Len(main) \in Nat
  BY FlushedReads, FillPagesType DEF FlushedFill, IInv, TypeOK
<1>3. ASSUME NEW i \in Int PROVE FillPage(i) = ReadPage(fill, i)
  <2>1. CASE i \in 0..(FillPages - 1)
    BY <2>1, FlushedReads DEF FlushedFill
  <2>2. CASE i \notin 0..(FillPages - 1)
    BY <1>2, <2>2, NoPageBeyond DEF ReadPage
  <2> QED  BY <2>1, <2>2
<1>4. ASSUME NEW r, r[1] \in Int PROVE OnDisk(r) = Fetch(r)
  <2>1. FillIndex(r[1]) \in Int
    BY <1>4 DEF FillIndex, OverflowIndex
  <2> QED  BY <1>3, <2>1 DEF OnDisk, Fetch, PageAt
<1>5. ASSUME NEW r \in Live PROVE r \in DiskRids
  <2>1. PICK p, n : p = r[1] /\ n = r[2]
    OBVIOUS
  <2>2. /\ p \in Int /\ r = <<p, n>> /\ n \in 0..(Len(PageAt(p)) - 1)
        /\ IsFill(p) => FillIndex(p) \in 0..(FillPages - 1)
        /\ ~IsFill(p) => Ordered /\ p \in 0..(Len(main) - 1)
    BY <2>1, IssuedAddress DEF Live
  <2>3. n \in 0..(Capacity - 1)
    BY <1>1, <2>2, CapacityAssumption DEF IssuedAreAddressed, Page
  <2>4. CASE IsFill(p)
    <3>1. FillIndex(p) + 1 \in DOMAIN fill
      BY <1>2, <2>2, <2>4 DEF IInv, TypeOK
    <3>2. p = FillId((FillIndex(p) + 1) - 1)
      BY <1>2, <2>2, <2>4 DEF FillId, FillIndex, OverflowId, OverflowIndex
    <3>3. p \in {FillId(i - 1) : i \in DOMAIN fill}
      BY <3>1, <3>2, Zenon
    <3> QED  BY <2>2, <2>3, <3>3 DEF DiskRids, DiskPageIds
  <2>5. CASE ~IsFill(p)
    <3>1. p + 1 \in DOMAIN main /\ p = (p + 1) - 1
      BY <1>2, <2>2, <2>5 DEF IInv, TypeOK
    <3> QED  BY <2>2, <2>3, <2>5, <3>1 DEF DiskRids, DiskPageIds
  <2> QED  BY <2>4, <2>5
<1>6. ASSUME NEW r \in DiskRids PROVE r = <<r[1], r[2]>> /\ r[1] \in Int
  BY <1>2 DEF DiskRids, DiskPageIds, FillId, OverflowId, IInv, TypeOK
<1>7. ASSUME NEW r \in DiskRids, OnDisk(r) # Hole PROVE r \in Live
  <2>1. r = <<r[1], r[2]>> /\ r[1] \in Int /\ Fetch(r) # Hole
    BY <1>4, <1>6, <1>7
  <2>2. Addressed(r)
    BY <2>1 DEF Addressed, Fetch
  <2> QED  BY <1>1, <2>1, <2>2 DEF IssuedAreAddressed, Live
<1>8. Live = {r \in DiskRids : OnDisk(r) # Hole}
  BY <1>4, <1>5, <1>6, <1>7 DEF Live
<1> QED  BY <1>4, <1>6, <1>8 DEF Rows, Durable

-----------------------------------------------------------------------------
(* RIDs are stable: as long as the table is neither closed nor reorganized,
   an RID names the same row until the row is deleted and no row after.     *)
THEOREM RidsAreStable == Spec => RidsStable
  <1>1. IInv /\ IInv' /\ [Next]_vars =>
          [RidsKept]_vars
    <2> SUFFICES ASSUME IInv, IInv', Next, open, open', ~Reorganize, NEW rid \in Issued
                 PROVE  Kept(rid)
      BY DEF RidsKept
    <2>1. CASE CreateTable \/ DropTable \/ CrashInReorganize \/ Restart
      BY <2>1 DEF CreateTable, DropTable, CrashInReorganize, Restart
    <2>2. ASSUME NEW k \in Keys, Insert(k)
          PROVE  Kept(rid)
      BY <2>2, InsertAddsRow DEF Kept, SameRow
    <2>3. ASSUME NEW r \in Live, Delete(r)
          PROVE  Kept(rid)
      BY <2>3, DeleteRemovesRow DEF Kept, SameRow
    <2>4. CASE Flush
      BY <2>4, FlushKeepsRows DEF Kept, SameRow
    <2> QED BY <2>1, <2>2, <2>3, <2>4 DEF Next
  <1> QED BY <1>1, InductiveInvariant, PTL DEF RidsStable, Spec

-----------------------------------------------------------------------------
(* The page in memory and its block.  Changes to a page only add slots or make
   holes.                                                                   *)
PageKept(old, new) ==
  /\ Len(old) <= Len(new)
  /\ \A j \in 1..Len(old) : new[j] \in {old[j], Hole}

(* A page nothing writes keeps its slots. *)
LEMMA SamePageKept == ASSUME NEW page \in Page PROVE PageKept(page, page)
  BY DEF PageKept, Page

(* A tombstone empties one slot and keeps the others. *)
LEMMA TombstoneKept ==
  ASSUME NEW page \in Page, NEW s \in 0..(Len(page) - 1)
  PROVE  PageKept(page, Tombstone(page, s))
  BY TombstoneShape DEF PageKept, Page

(* An append keeps the slots there are. *)
LEMMA AppendKept ==
  ASSUME NEW page \in Page, NEW k \in Keys
  PROVE  PageKept(page, Append(page, k))
  BY DEF PageKept, Page

(* A page kept by each of two changes is kept by both. *)
LEMMA PageKeptTwice ==
  ASSUME NEW a \in Page, NEW b \in Page, NEW c \in Page, PageKept(a, b), PageKept(b, c)
  PROVE  PageKept(a, c)
BY DEF PageKept, Page

(* The page in memory has the rows of its block, or deleted them since, and
   those that were appended.                                               *)
TailAhead ==
  tail # NoTail /\ tail.id < Len(fill) => PageKept(fill[tail.id + 1], tail.slots)

(* Every step keeps the page in memory ahead of its block. *)
LEMMA TailStaysAhead ==
  ASSUME IInv, IInv', TailAhead, [Next]_vars
  PROVE  TailAhead'
<1>1. /\ fill \in Seq(Page) /\ Len(fill) \in Nat
      /\ tail.slots \in Page
      /\ \A i \in Nat : i < Len(fill) => fill[i + 1] \in Page
  BY DEF IInv, TypeOK
<1>2. CASE tail' = NoTail
  BY <1>2 DEF TailAhead
<1>3. ASSUME NEW k \in Keys, Insert(k) PROVE TailAhead'
  <2>1. /\ OpenedTail.id \in Nat /\ OpenedTail.slots \in Page
        /\ tail # NoTail => OpenedTail = tail
        /\ tail = NoTail /\ OpenedTail.id < Len(fill) => OpenedTail.slots = fill[OpenedTail.id + 1]
    BY OpenedTailShape
  <2>2. CASE InsertInTail(k)
    <3>1. /\ tail' = [id |-> OpenedTail.id, slots |-> Append(OpenedTail.slots, k)]
          /\ fill' = fill
      BY <2>2, OpenedTailShape DEF InsertInTail
    <3>2. OpenedTail.id < Len(fill) => PageKept(fill[OpenedTail.id + 1], OpenedTail.slots)
      BY <1>1, <2>1, SamePageKept DEF TailAhead
    <3>3. /\ Append(OpenedTail.slots, k) \in Page
          /\ PageKept(OpenedTail.slots, Append(OpenedTail.slots, k))
      BY <2>1, <2>2, AppendKept, AppendShape DEF InsertInTail
    <3> QED  BY <1>1, <2>1, <3>1, <3>2, <3>3, PageKeptTwice DEF TailAhead
  <2>3. CASE InsertInNewTail(k)
    <3>1. tail'.id = OpenedTail.id + 1 /\ fill' = FlushedFill /\ tail'.id \in {Len(fill') - 1, Len(fill')}
      BY <2>1, <2>3 DEF InsertInNewTail, IInv, TailPlaced, NoTail
    <3>2. Len(fill') = FillPages /\ FillPages <= OpenedTail.id + 1
      BY <1>1, <2>1, <3>1, FlushedReads, OpenedTailShape DEF FillPages, Larger, NoTail
    <3> QED  BY <2>1, <3>1, <3>2 DEF TailAhead
  <2> QED  BY <1>3, <2>2, <2>3 DEF Insert
<1>4. CASE Flush
  <2>1. tail # NoTail => fill'[tail.id + 1] = tail.slots
    BY <1>4, FlushedFillShape DEF Flush
  <2> QED  BY <1>1, <1>4, <2>1, SamePageKept DEF Flush, TailAhead
<1>5. ASSUME NEW rid \in Live, Delete(rid) PROVE TailAhead'
  <2>1. /\ rid[1] \in Int /\ rid[2] \in 0..(Len(PageAt(rid[1])) - 1)
        /\ IsFill(rid[1]) => FillIndex(rid[1]) \in 0..(FillPages - 1)
    BY IssuedAddress DEF Live
  <2>2. PageAt(rid[1]) \in Page
    BY <2>1, PageAtType
  <2>3. CASE DeleteInTail(rid)
    <3>1. PageAt(rid[1]) = tail.slots
      BY <2>3 DEF DeleteInTail, PageAt, FillPage
    <3>2. PICK new : new = Tombstone(tail.slots, rid[2])
      OBVIOUS
    <3>3. new \in Page /\ PageKept(tail.slots, new)
      BY <2>1, <2>2, <3>1, <3>2, TombstoneShape, TombstoneKept
    <3>4. tail' = [tail EXCEPT !.slots = new] /\ fill' = fill /\ tail # NoTail
      BY <2>3, <3>2 DEF DeleteInTail
    <3>5. tail'.id = tail.id /\ tail'.slots = new /\ tail.id \in Nat
      BY <3>4 DEF IInv, TypeOK, TailPlaced
    <3> QED  BY <1>1, <3>3, <3>4, <3>5, PageKeptTwice DEF TailAhead
  <2>4. CASE DeleteInFill(rid)
    <3>1. PICK f, new : f = FillIndex(rid[1]) /\ new = Tombstone(PageAt(rid[1]), rid[2])
      OBVIOUS
    <3>2. /\ fill' = WritePage(fill, f, new) /\ tail' = tail
          /\ tail # NoTail => f # tail.id
          /\ f \in 0..(FillPages - 1) /\ new \in Page
      BY <2>1, <2>2, <2>4, <3>1, TombstoneShape DEF DeleteInFill
    <3>3. f \in 0..(Len(fill) - 1)
      BY <3>2, OtherPagesHaveBlocks
    <3>4. /\ Len(fill') = Larger(Len(fill), f + 1)
          /\ \A j \in 1..Len(fill) : j # f + 1 => fill'[j] = fill[j]
      <4>1. fill \in Seq(Page) /\ f \in Nat /\ new \in Page
        BY <1>1, <3>2
      <4> QED  BY <3>2, <4>1, WritePageShape
    <3>5. Len(fill') = Len(fill)
      BY <1>1, <3>3, <3>4 DEF Larger
    <3>6. tail # NoTail /\ tail.id < Len(fill) => fill'[tail.id + 1] = fill[tail.id + 1]
      BY <1>1, <3>2, <3>3, <3>4 DEF IInv, TypeOK, TailPlaced
    <3> QED  BY <3>2, <3>5, <3>6 DEF TailAhead
  <2>5. CASE DeleteInMain(rid)
    BY <2>5 DEF DeleteInMain, TailAhead
  <2> QED  BY <1>5, <2>3, <2>4, <2>5 DEF Delete
<1>6. CASE UNCHANGED <<fill, tail>>
  BY <1>6 DEF TailAhead
<1> QED  BY <1>2, <1>3, <1>4, <1>5, <1>6
     DEF Next, CreateTable, DropTable, Reorganize, CrashInReorganize, Restart, vars

-----------------------------------------------------------------------------
(* The main file is ordered.  Page by page: of two rows, the one in the
   earlier slot has no greater key.                                         *)
SlotBefore(i, a, j, b) == i < j \/ (i = j /\ a <= b)

SortedPages(file) ==
  \A i, j \in 1..Len(file) : \A a \in 1..Len(file[i]), b \in 1..Len(file[j]) :
    SlotBefore(i, a, j, b) /\ file[i][a] # Hole /\ file[j][b] # Hole =>
      file[i][a] <= file[j][b]

(* Slot a of block p holds row (p - 1) * PerPage + a of the sorted rows. *)
LEMMA RewrittenSlot ==
  ASSUME NEW n \in Nat, NEW t \in [1..n -> Keys], NEW p \in 1..PagesFor(t),
         NEW a \in 1..Len(Rewritten(t)[p])
  PROVE  /\ a <= PerPage
         /\ (p - 1) * PerPage + a \in 1..n
         /\ Rewritten(t)[p][a] = t[(p - 1) * PerPage + a]
  <1>1. PerPage \in Nat \ {0}
    BY CapacityAssumption DEF PerPage, Larger
  <1>2. t \in Seq(Slot) /\ Len(t) = n
    BY DEF Slot
  <1>3. PagesFor(t) \in Nat
    BY <1>1, <1>2 DEF PagesFor, Larger
  <1>0. PICK c : c = (p - 1) * PerPage
    OBVIOUS
  <1> DEFINE e == Smaller(c + PerPage, n)
  <1>4. c \in Nat /\ p * PerPage = c + PerPage
    BY <1>0, <1>1, <1>3
  <1>5. Rewritten(t)[p] = SubSeq(t, c + 1, e)
    BY <1>0, <1>2, <1>4 DEF Rewritten
  <1>6. e \in Nat /\ e <= n /\ e <= c + PerPage
    BY <1>1, <1>4 DEF Smaller
  <1> HIDE DEF e
  <1>7. Len(SubSeq(t, c + 1, e)) <= e - c \/ Len(SubSeq(t, c + 1, e)) = 0
    BY <1>2, <1>4, <1>6
  <1>8. a \in Nat \ {0} /\ a <= e - c
    BY <1>2, <1>4, <1>5, <1>6, <1>7
  <1>9. SubSeq(t, c + 1, e)[a] = t[c + a]
    BY <1>2, <1>4, <1>6, <1>8
  <1>10. a <= PerPage /\ c + a \in 1..n
    BY <1>1, <1>4, <1>6, <1>8
  <1>11. Rewritten(t)[p][a] = t[c + a]
    BY <1>5, <1>9
  <1> QED BY <1>0, <1>10, <1>11

(* So any number of blocks of a new main file are in key order. *)
LEMMA RewrittenSorted ==
  ASSUME NEW n \in Nat, NEW t \in [1..n -> Keys],
         \A i, j \in 1..n : i <= j => t[i] <= t[j],
         NEW m \in 0..PagesFor(t)
  PROVE  SortedPages(SubSeq(Rewritten(t), 1, m))
  <1>1. PerPage \in Nat \ {0}
    BY CapacityAssumption DEF PerPage, Larger
  <1>2. PagesFor(t) \in Nat
    BY <1>1 DEF PagesFor, Larger
  <1> DEFINE file == SubSeq(Rewritten(t), 1, m)
  <1>3. Len(file) = m /\ \A i \in 1..m : file[i] = Rewritten(t)[i]
    <2>1. Rewritten(t) \in Seq(Page)
      BY RewrittenShape
    <2>2. Len(Rewritten(t)) = PagesFor(t)
      BY <1>2 DEF Rewritten
    <2> HIDE DEF Rewritten
    <2> QED BY <1>2, <2>1, <2>2
  <1> HIDE DEF file
  <1>4. ASSUME NEW i \in 1..m, NEW j \in 1..m,
               NEW a \in 1..Len(Rewritten(t)[i]), NEW b \in 1..Len(Rewritten(t)[j]),
               SlotBefore(i, a, j, b)
        PROVE  Rewritten(t)[i][a] <= Rewritten(t)[j][b]
    <2> DEFINE x == (i - 1) * PerPage + a
               y == (j - 1) * PerPage + b
    <2>1. i \in 1..PagesFor(t) /\ j \in 1..PagesFor(t)
      BY <1>2
    <2>2. /\ a <= PerPage /\ x \in 1..n /\ Rewritten(t)[i][a] = t[x]
          /\ b <= PerPage /\ y \in 1..n /\ Rewritten(t)[j][b] = t[y]
      BY <2>1, RewrittenSlot
    <2>3. a \in Int /\ b \in Int /\ b >= 1
      <3>1. Rewritten(t) \in Seq(Page)
        BY RewrittenShape
      <3>2. Len(Rewritten(t)) = PagesFor(t)
        BY <1>2 DEF Rewritten
      <3>3. Rewritten(t)[i] \in Page /\ Rewritten(t)[j] \in Page
        BY <2>1, <3>1, <3>2
      <3> QED BY <3>3 DEF Page
    <2>4. x <= y
      <3>1. CASE i = j
        BY <1>1, <1>4, <2>3, <3>1 DEF SlotBefore
      <3>2. CASE i < j
        <4> DEFINE c == (i - 1) * PerPage
                   d == (j - 1) * PerPage
                   e == (j - 1 - i) * PerPage
        <4>1. d = c + PerPage + e
          BY <1>1
        <4>2. c \in Int /\ e \in Nat
          BY <1>1, <3>2
        <4>3. x = c + a /\ y = d + b
          OBVIOUS
        <4> HIDE DEF c, d, e, x, y
        <4> QED BY <1>1, <2>2, <2>3, <4>1, <4>2, <4>3
      <3> QED BY <1>4, <3>1, <3>2 DEF SlotBefore
    <2> HIDE DEF x, y
    <2> QED BY <2>2, <2>4
  <1> QED BY <1>3, <1>4 DEF SortedPages, file

(* Only a deletion and a reorganization change the main file. *)
LEMMA MainStaysSorted ==
  ASSUME IInv, SortedPages(main), [Next]_vars
  PROVE  SortedPages(main')
  <1>1. CASE main' = main
    BY <1>1
  <1>2. CASE main' = <<>>
    BY <1>2 DEF SortedPages
  <1>3. ASSUME NEW rid \in Live, Delete(rid), DeleteInMain(rid)
        PROVE  SortedPages(main')
    <2>1. PICK p, s : p = rid[1] /\ s = rid[2]
      OBVIOUS
    <2>2. p \in 0..(Len(main) - 1) /\ main \in Seq(Page) /\ Len(main) \in Nat
          /\ PageAt(p) = main[p + 1] /\ s \in 0..(Len(main[p + 1]) - 1)
      BY <1>3, <2>1, IssuedAddress DEF Live, DeleteInMain, IInv, TypeOK, PageAt, ReadPage
    <2>3. PICK new : new = Tombstone(main[p + 1], s)
      OBVIOUS
    <2>4. /\ main[p + 1] \in Page /\ new \in Page /\ Len(new) = Len(main[p + 1])
          /\ new[s + 1] = Hole
          /\ \A j \in 1..Len(new) : j # s + 1 => new[j] = main[p + 1][j]
      BY <2>2, <2>3, TombstoneShape
    <2>5. /\ Len(main') = Larger(Len(main), p + 1)
          /\ main'[p + 1] = new
          /\ \A j \in 1..Len(main) : j # p + 1 => main'[j] = main[j]
      <3>1. main' = WritePage(main, p, new)
        BY <1>3, <2>1, <2>2, <2>3 DEF DeleteInMain
      <3>2. p \in Nat
        BY <2>2
      <3> QED BY <2>2, <2>4, <3>1, <3>2, WritePageShape
    <2>6. Len(main') = Len(main)
      BY <2>2, <2>5 DEF Larger
    <2>7. ASSUME NEW i \in 1..Len(main)
          PROVE  /\ Len(main'[i]) = Len(main[i])
                 /\ \A a \in 1..Len(main[i]) : main'[i][a] \in {main[i][a], Hole}
      <3>1. CASE i = p + 1
        BY <2>4, <2>5, <3>1
      <3>2. CASE i # p + 1
        BY <2>5, <3>2
      <3> QED BY <3>1, <3>2
    <2>8. SUFFICES ASSUME NEW i \in 1..Len(main), NEW j \in 1..Len(main),
                          NEW a \in 1..Len(main[i]), NEW b \in 1..Len(main[j]),
                          SlotBefore(i, a, j, b), main'[i][a] # Hole, main'[j][b] # Hole
                   PROVE  main'[i][a] <= main'[j][b]
      BY <2>6, <2>7 DEF SortedPages
    <2>9. main'[i][a] = main[i][a] /\ main'[j][b] = main[j][b]
      BY <2>7, <2>8
    <2> QED BY <2>8, <2>9 DEF SortedPages
  <1>4. CASE Reorganize \/ CrashInReorganize
    <2>1. Cardinality(Live) \in Nat
      BY LiveFinite
    <2>2. PICK t \in SortedRows : \E m \in 0..PagesFor(t) : main' = SubSeq(Rewritten(t), 1, m)
      <3>1. CASE CrashInReorganize
        BY <3>1 DEF CrashInReorganize
      <3>2. CASE Reorganize
        <4>1. PICK t \in SortedRows : main' = Rewritten(t)
          BY <3>2 DEF Reorganize
        <4>2. t \in [1..Cardinality(Live) -> Keys]
          BY DEF SortedRows
        <4>3. PagesFor(t) \in Nat
          <5>1. Len(t) \in Nat
            BY <2>1, <4>2
          <5>2. PerPage \in Nat \ {0}
            BY CapacityAssumption DEF PerPage, Larger
          <5> QED BY <5>1, <5>2 DEF PagesFor, Larger
        <4>4. Rewritten(t) \in Seq(Page) /\ Len(Rewritten(t)) = PagesFor(t)
          <5>1. Rewritten(t) \in Seq(Page)
            BY <2>1, <4>2, RewrittenShape
          <5>2. Len(Rewritten(t)) = PagesFor(t)
            BY <4>3 DEF Rewritten
          <5> QED BY <5>1, <5>2
        <4>5. SubSeq(Rewritten(t), 1, PagesFor(t)) = Rewritten(t)
          BY <4>3, <4>4
        <4> QED BY <4>1, <4>3, <4>5
      <3> QED BY <1>4, <3>1, <3>2
    <2>3. /\ t \in [1..Cardinality(Live) -> Keys]
          /\ \A i, j \in 1..Cardinality(Live) : i <= j => t[i] <= t[j]
      BY DEF SortedRows
    <2> QED BY <2>1, <2>2, <2>3, RewrittenSorted
  <1>5. CASE CreateTable \/ DropTable \/ Flush \/ Restart \/ UNCHANGED vars
    BY <1>1, <1>2, <1>5 DEF CreateTable, DropTable, Flush, Restart, vars
  <1>6. ASSUME NEW k \in Keys, Insert(k) PROVE main' = main
    BY <1>6 DEF Insert, InsertInTail, InsertInNewTail
  <1>7. ASSUME NEW rid \in Live, Delete(rid) PROVE main' = main \/ DeleteInMain(rid)
    BY <1>7 DEF Delete, DeleteInTail, DeleteInFill
  <1> QED BY <1>1, <1>3, <1>4, <1>5, <1>6, <1>7 DEF Next

(* The blocks of the main file are sorted, in every state. *)
THEOREM PagesAlwaysSorted == Spec => []SortedPages(main)
  <1>1. Init => SortedPages(main)
    BY DEF Init, SortedPages
  <1>2. IInv /\ SortedPages(main) /\ [Next]_vars => SortedPages(main)'
    BY MainStaysSorted
  <1> QED BY <1>1, <1>2, InductiveInvariant, PTL DEF Spec

(* Whatever is deleted and wherever a reorganization is cut short, the rows of
   the main file are in key order: search_key and range_key descend it by
   halves (diskstore.py).                                                   *)
THEOREM MainAlwaysOrdered == Spec => []MainOrdered
  <1>1. IInv /\ SortedPages(main) => MainOrdered
    <2> SUFFICES ASSUME IInv, SortedPages(main), NEW r \in MainRows, NEW q \in MainRows,
                        Before(r, q)
                 PROVE  Fetch(r) <= Fetch(q)
      BY DEF MainOrdered
    <2>1. ASSUME NEW x \in MainRows
          PROVE  /\ x[1] + 1 \in 1..Len(main) /\ x[1] \in Int
                 /\ x[2] + 1 \in 1..Len(main[x[1] + 1]) /\ x[2] \in Int
                 /\ Fetch(x) = main[x[1] + 1][x[2] + 1] /\ Fetch(x) # Hole
      <3>1. /\ x \in Issued /\ ~IsFill(x[1]) /\ Fetch(x) # Hole
            /\ main \in Seq(Page) /\ Len(main) \in Nat
        BY DEF MainRows, Live, IInv, TypeOK
      <3>2. x[1] \in 0..(Len(main) - 1) /\ x[2] \in 0..(Len(PageAt(x[1])) - 1)
        BY <3>1, IssuedAddress
      <3>3. PageAt(x[1]) = main[x[1] + 1] /\ main[x[1] + 1] \in Page
        BY <3>1, <3>2 DEF PageAt, ReadPage
      <3>4. Fetch(x) = main[x[1] + 1][x[2] + 1]
        BY <3>2, <3>3 DEF Fetch
      <3>5. x[1] \in Int /\ x[1] + 1 \in 1..Len(main)
        BY <3>1, <3>2
      <3>6. x[2] \in 0..(Len(main[x[1] + 1]) - 1) /\ Len(main[x[1] + 1]) \in Nat
        BY <3>2, <3>3 DEF Page
      <3>7. x[2] \in Int /\ x[2] + 1 \in 1..Len(main[x[1] + 1])
        BY <3>6
      <3> QED BY <3>1, <3>4, <3>5, <3>7
    <2>2. SlotBefore(r[1] + 1, r[2] + 1, q[1] + 1, q[2] + 1)
      BY <2>1 DEF Before, SlotBefore
    <2> QED BY <2>1, <2>2 DEF SortedPages
  <1> QED BY <1>1, PagesAlwaysSorted, InductiveInvariant, PTL

-----------------------------------------------------------------------------
(* The storage port.  The live rows and the rows on disk are what there is to
   read at the slots of memory and disk.                                    *)
StoredAt(r) == r = <<r[1], r[2]>> /\ r[1] \in Int

RowsRead    == \A r : r \in Live <=> StoredAt(r) /\ Fetch(r) # Hole
DurableRead == \A r : r \in DOMAIN Durable <=> StoredAt(r) /\ OnDisk(r) # Hole

(* What fetch finds, in terms of pages and slots. *)
LEMMA LiveAreRead == IInv => RowsRead
<1> SUFFICES ASSUME IInv, NEW r
             PROVE  r \in Live <=> StoredAt(r) /\ Fetch(r) # Hole
  BY DEF RowsRead
<1>1. r \in Issued <=> Addressed(r)
  BY IssuedSlots DEF IssuedAreAddressed
<1>2. StoredAt(r) /\ Fetch(r) # Hole => Addressed(r)
  BY DEF StoredAt, Addressed, Fetch
<1> QED  BY <1>1, <1>2 DEF Live, StoredAt, Addressed

(* What a restart finds, in terms of blocks and slots. *)
LEMMA DurableAreRead == IInv => DurableRead
<1> SUFFICES ASSUME IInv, NEW r
             PROVE  r \in DOMAIN Durable <=> StoredAt(r) /\ OnDisk(r) # Hole
  BY DEF DurableRead
<1>1. /\ fill \in Seq(Page) /\ Len(fill) \in Nat /\ DOMAIN fill = 1..Len(fill)
      /\ main \in Seq(Page) /\ Len(main) \in Nat /\ DOMAIN main = 1..Len(main)
      /\ ~Ordered => main = <<>>
  BY DEF IInv, TypeOK, TailPlaced
<1>2. r \in DiskRids => StoredAt(r)
  BY <1>1 DEF DiskRids, DiskPageIds, FillId, OverflowId, StoredAt
<1>3. ASSUME StoredAt(r), OnDisk(r) # Hole PROVE r \in DiskRids
  <2>1. PICK p, n : p = r[1] /\ n = r[2]
    OBVIOUS
  <2>2. PICK page : page = IF IsFill(p) THEN ReadPage(fill, FillIndex(p)) ELSE ReadPage(main, p)
    OBVIOUS
  <2>3. r = <<p, n>> /\ p \in Int /\ n \in 0..(Len(page) - 1)
    BY <1>3, <2>1, <2>2 DEF StoredAt, OnDisk
  <2>4. page \in Page /\ page # <<>> /\ FillIndex(p) \in Int
    BY <1>1, <2>2, <2>3, ReadPageType DEF FillIndex, OverflowIndex
  <2>5. n \in 0..(Capacity - 1)
    BY <2>3, <2>4, CapacityAssumption DEF Page
  <2>6. CASE IsFill(p)
    <3>1. FillIndex(p) + 1 \in DOMAIN fill
      BY <1>1, <2>2, <2>4, <2>6 DEF ReadPage
    <3>2. p = FillId((FillIndex(p) + 1) - 1)
      BY <2>3, <2>6 DEF FillId, FillIndex, OverflowId, OverflowIndex
    <3>3. p \in {FillId(i - 1) : i \in DOMAIN fill}
      BY <3>1, <3>2, Zenon
    <3> QED  BY <2>3, <2>5, <3>3 DEF DiskRids, DiskPageIds
  <2>7. CASE ~IsFill(p)
    <3>1. Ordered /\ p + 1 \in DOMAIN main /\ p = (p + 1) - 1
      BY <1>1, <2>2, <2>3, <2>4, <2>7 DEF ReadPage, IsFill
    <3> QED  BY <2>3, <2>5, <3>1 DEF DiskRids, DiskPageIds
  <2> QED  BY <2>6, <2>7
<1> QED  BY <1>2, <1>3 DEF Durable

(* Both, after a step. *)
LEMMA ReadNext == IInv' => RowsRead' /\ DurableRead'
  BY LiveAreRead, DurableAreRead, PTL

(* Files without rows are a table without rows. *)
NoFiles       == main = <<>> /\ fill = <<>> /\ tail = NoTail
NothingStored == Rows = Port!Empty /\ Durable = Port!Empty /\ Issued = {}

(* To the port, a table without files has nothing. *)
LEMMA NothingInNoFiles == NoFiles => NothingStored
<1> SUFFICES ASSUME NoFiles PROVE NothingStored
  OBVIOUS
<1>1. FillPages = 0 /\ Len(main) = 0 /\ DOMAIN fill = {} /\ DOMAIN main = {}
  BY DEF NoFiles, FillPages, NoTail, Larger
<1>2. PageIds = {} /\ DiskPageIds = {}
  BY <1>1 DEF PageIds, DiskPageIds
<1>3. Issued = {} /\ DiskRids = {}
  BY <1>2 DEF Issued, DiskRids
<1> QED  BY <1>3 DEF NothingStored, Rows, Durable, Live, Port!Empty

(* ... also after a step. *)
LEMMA NothingInNoFilesNext == NoFiles' => NothingStored'
  BY NothingInNoFiles, PTL

(* A flush makes durable the rows there are. *)
LEMMA FlushedIsDurable ==
  ASSUME IInv, IInv', fill' = FlushedFill, main' = main
  PROVE  Durable' = Rows
<1>1. RowsRead /\ DurableRead'
  BY LiveAreRead, ReadNext
<1>2. Len(fill') = FillPages /\ \A i \in 0..(FillPages - 1) : ReadPage(fill', i) = FillPage(i)
  BY FlushedReads
<1>3. ASSUME NEW i \in Int PROVE ReadPage(fill', i) = FillPage(i)
  <2>1. CASE i \notin 0..(FillPages - 1)
    BY <1>2, <2>1, NoPageBeyond DEF ReadPage
  <2> QED  BY <1>2, <2>1
<1>4. ASSUME NEW r, StoredAt(r) PROVE OnDisk(r)' = Fetch(r)
  <2>1. FillIndex(r[1]) \in Int
    BY <1>4 DEF StoredAt, FillIndex, OverflowIndex
  <2>2. OnDisk(r)' = LET page == IF IsFill(r[1]) THEN ReadPage(fill', FillIndex(r[1]))
                                 ELSE ReadPage(main', r[1])
                     IN  IF r[2] \in 0..(Len(page) - 1) THEN page[r[2] + 1] ELSE Hole
    BY DEF OnDisk, ReadPage
  <2> QED  BY <1>3, <2>1, <2>2 DEF Fetch, PageAt
<1>5. ASSUME NEW r PROVE r \in (DOMAIN Durable)' <=> r \in Live
  BY <1>1, <1>4 DEF RowsRead, DurableRead
<1>6. (DOMAIN Durable)' = Live
  BY <1>5
<1>7. Durable' = [r \in (DOMAIN Durable)' |-> OnDisk(r)']
  BY DEF Durable
<1>8. \A r \in Live : OnDisk(r)' = Fetch(r)
  BY <1>1, <1>4 DEF RowsRead
<1> QED  BY <1>6, <1>7, <1>8 DEF Rows

-----------------------------------------------------------------------------
(* Every operation is one of the port.                                     *)
LEMMA SameTableForPort ==
  ASSUME UNCHANGED <<main, fill, tail, dirty>>
  PROVE  UNCHANGED Port!vars
BY DEF Port!vars, Rows, Durable, Live, Issued, Fetch, PageAt, FillPage, ReadPage, IsFill,
       FillIndex, OverflowIndex, PageIds, FillPages, Larger, FillId, OverflowId,
       OnDisk, DiskRids, DiskPageIds

(* An insert hands out one new RID; what was buffered may reach the disk. *)
LEMMA InsertIsPortInsert ==
  ASSUME IInv, IInv', NEW k \in Keys, Insert(k)
  PROVE  Port!Insert
<1>1. PICK r : r = Placed
  OBVIOUS
<1>2. /\ r \notin Issued
      /\ Issued' = Issued \cup {r}
      /\ Fetch(r)' = k
      /\ \A q \in Issued : Fetch(q)' = Fetch(q)
      /\ Live' = Live \cup {r}
  BY <1>1, InsertAddsRow DEF SameRow
<1>3. Rows' = [q \in Live' |-> Fetch(q)']
  BY DEF Rows
<1>4. /\ r \in DOMAIN Rows' \ Issued
      /\ Rows'[r] = k
      /\ Port!Drop(Rows', r) = Rows
  BY <1>2, <1>3 DEF Port!Drop, Rows, Live
<1>5. Durable' \in {Durable, Rows} /\ dirty' = TRUE
  <2>1. CASE InsertInTail(k)
    BY <2>1 DEF InsertInTail, Durable, OnDisk, ReadPage, DiskRids, DiskPageIds
  <2>2. CASE InsertInNewTail(k)
    BY <2>2, FlushedIsDurable DEF InsertInNewTail
  <2> QED  BY <2>1, <2>2 DEF Insert
<1> QED  BY <1>2, <1>4, <1>5 DEF Port!Insert

(* A flush changes no row and makes every row durable. *)
LEMMA FlushIsPortFlush ==
  ASSUME IInv, IInv', Flush
  PROVE  Port!Flush
<1>1. Issued' = Issued /\ Live' = Live /\ \A r \in Issued : Fetch(r)' = Fetch(r)
  BY FlushKeepsRows DEF SameRow
<1>2. Rows' = Rows
  BY <1>1 DEF Rows, Live
<1>3. Durable' = Rows /\ dirty' = FALSE
  BY FlushedIsDurable DEF Flush
<1> QED  BY <1>1, <1>2, <1>3 DEF Port!Flush

(* Replacing a block of a file changes what is read there and nowhere else. *)
LEMMA ReplacedBlock ==
  ASSUME NEW file \in Seq(Page), NEW i \in 0..(Len(file) - 1), NEW page \in Page, NEW j \in Int
  PROVE  ReadPage(WritePage(file, i, page), j) = IF j = i THEN page ELSE ReadPage(file, j)
<1>1. i \in Nat /\ Len(file) \in Nat /\ Larger(Len(file), i + 1) = Len(file)
  BY DEF Larger
<1>2. /\ Len(WritePage(file, i, page)) = Len(file)
      /\ WritePage(file, i, page)[i + 1] = page
      /\ \A n \in 1..Len(file) : n # i + 1 => WritePage(file, i, page)[n] = file[n]
  BY <1>1, WritePageShape
<1>3. CASE j \in 0..(Len(file) - 1)
  BY <1>1, <1>2, <1>3 DEF ReadPage
<1>4. CASE j \notin 0..(Len(file) - 1)
  BY <1>1, <1>2, <1>4 DEF ReadPage
<1> QED  BY <1>3, <1>4

(* A deletion outside the page in memory is on disk at once. *)
LEMMA DeleteInBlockIsDurable ==
  ASSUME IInv, IInv', NEW rid \in Live, DeleteInFill(rid) \/ DeleteInMain(rid)
  PROVE  Durable' = Port!Drop(Durable, rid)
<1>1. PICK p, s, f, new : /\ p = rid[1] /\ s = rid[2] /\ f = FillIndex(p)
                          /\ new = Tombstone(PageAt(p), s)
  OBVIOUS
<1>2. /\ p \in Int /\ s \in 0..(Len(PageAt(p)) - 1) /\ rid = <<p, s>>
      /\ IsFill(p) => f \in 0..(FillPages - 1)
      /\ ~IsFill(p) => p \in 0..(Len(main) - 1)
  BY <1>1, IssuedAddress DEF Live
<1>3. /\ PageAt(p) \in Page /\ new \in Page /\ Len(new) = Len(PageAt(p)) /\ new[s + 1] = Hole
      /\ \A j \in 1..Len(PageAt(p)) : j # s + 1 => new[j] = PageAt(p)[j]
  BY <1>1, <1>2, PageAtType, TombstoneShape
<1>4. /\ fill \in Seq(Page) /\ Len(fill) \in Nat /\ FillPages \in Nat
      /\ main \in Seq(Page) /\ Len(main) \in Nat
  BY FillPagesType DEF IInv, TypeOK
<1> DEFINE disk(q) == IF IsFill(q) THEN ReadPage(fill, FillIndex(q)) ELSE ReadPage(main, q)
           after(q) == IF IsFill(q) THEN ReadPage(fill', FillIndex(q)) ELSE ReadPage(main', q)
<1>5. disk(p) = PageAt(p) /\ after(p) = new /\ \A q \in Int : q # p => after(q) = disk(q)
  <2>1. CASE DeleteInFill(rid)
    <3>1. /\ fill' = WritePage(fill, f, new) /\ main' = main
          /\ IsFill(p) /\ (tail # NoTail => f # tail.id)
      BY <1>1, <2>1 DEF DeleteInFill
    <3>2. f \in 0..(Len(fill) - 1)
      BY <1>2, <3>1, OtherPagesHaveBlocks
    <3>3. \A j \in Int : ReadPage(fill', j) = IF j = f THEN new ELSE ReadPage(fill, j)
      BY <1>3, <1>4, <3>1, <3>2, ReplacedBlock
    <3>4. PageAt(p) = ReadPage(fill, f)
      BY <1>1, <3>1 DEF PageAt, FillPage
    <3>5. \A q \in Int : FillIndex(q) \in Int /\ (FillIndex(q) = f => q = p)
      BY <1>1, <1>2 DEF FillIndex, OverflowIndex
    <3> QED  BY <1>1, <1>2, <3>1, <3>3, <3>4, <3>5
  <2>2. CASE DeleteInMain(rid)
    <3>1. main' = WritePage(main, p, new) /\ fill' = fill /\ ~IsFill(p)
      BY <1>1, <2>2 DEF DeleteInMain
    <3>2. p \in 0..(Len(main) - 1)
      BY <1>2, <3>1
    <3>3. \A j \in Int : ReadPage(main', j) = IF j = p THEN new ELSE ReadPage(main, j)
      BY <1>3, <1>4, <3>1, <3>2, ReplacedBlock
    <3>4. PageAt(p) = ReadPage(main, p)
      BY <3>1 DEF PageAt
    <3> QED  BY <1>2, <3>1, <3>3, <3>4
  <2> QED  BY <2>1, <2>2
<1>6. \A r : OnDisk(r) = IF r[2] \in 0..(Len(disk(r[1])) - 1) THEN disk(r[1])[r[2] + 1] ELSE Hole
  BY DEF OnDisk
<1>7. \A r : OnDisk(r)' = IF r[2] \in 0..(Len(after(r[1])) - 1) THEN after(r[1])[r[2] + 1] ELSE Hole
  BY DEF OnDisk, ReadPage
<1> HIDE DEF disk, after
<1>8. OnDisk(rid)' = Hole
  BY <1>1, <1>2, <1>3, <1>5, <1>7
<1>9. ASSUME NEW r, StoredAt(r), r # rid PROVE OnDisk(r)' = OnDisk(r)
  <2>1. r[1] \in Int /\ r = <<r[1], r[2]>>
    BY <1>9 DEF StoredAt
  <2>2. CASE r[1] # p
    BY <1>5, <1>6, <1>7, <2>1, <2>2
  <2>3. CASE r[1] = p
    <3>1. r[2] # s
      BY <1>2, <1>9, <2>1, <2>3
    <3>2. ASSUME r[2] \in 0..(Len(PageAt(p)) - 1) PROVE new[r[2] + 1] = PageAt(p)[r[2] + 1]
      <4>1. r[2] + 1 \in 1..Len(PageAt(p)) /\ r[2] + 1 # s + 1
        BY <1>2, <1>3, <3>1, <3>2 DEF Page
      <4> QED  BY <1>3, <4>1
    <3> QED  BY <1>3, <1>5, <1>6, <1>7, <2>3, <3>2
  <2> QED  BY <2>2, <2>3
<1>10. DurableRead /\ DurableRead'
  BY DurableAreRead, ReadNext
<1>11. ASSUME NEW r PROVE r \in (DOMAIN Durable)' <=> r \in DOMAIN Durable /\ r # rid
  BY <1>8, <1>9, <1>10 DEF DurableRead
<1>12. (DOMAIN Durable)' = DOMAIN Durable \ {rid}
  BY <1>11
<1>13. Durable' = [r \in (DOMAIN Durable)' |-> OnDisk(r)']
  BY DEF Durable
<1>14. ASSUME NEW r \in DOMAIN Durable \ {rid} PROVE OnDisk(r)' = Durable[r]
  <2>1. StoredAt(r)
    BY <1>10, <1>14 DEF DurableRead
  <2> QED  BY <1>9, <1>14, <2>1 DEF Durable
<1> QED  BY <1>12, <1>13, <1>14 DEF Port!Drop

(* A deletion takes one row from the table, and from the disk now or later. *)
LEMMA DeleteIsPortDelete ==
  ASSUME IInv, IInv', NEW rid \in Live, Delete(rid)
  PROVE  Port!Delete
<1>1. /\ Issued' = Issued
      /\ \A r \in Issued : r # rid => Fetch(r)' = Fetch(r)
      /\ Live' = Live \ {rid}
  BY DeleteRemovesRow DEF SameRow
<1>2. Rows' = Port!Drop(Rows, rid)
  BY <1>1 DEF Rows, Port!Drop, Live
<1>3. rid \in DOMAIN Rows \ DOMAIN Rows'
  BY <1>1 DEF Rows
<1>4. \/ Durable' = Durable /\ dirty' = TRUE
      \/ Durable' = Port!Drop(Durable, rid) /\ dirty' = dirty
  <2>1. CASE DeleteInTail(rid)
    BY <2>1 DEF DeleteInTail, Durable, OnDisk, ReadPage, DiskRids, DiskPageIds
  <2>2. CASE DeleteInFill(rid) \/ DeleteInMain(rid)
    BY <2>2, DeleteInBlockIsDurable DEF DeleteInFill, DeleteInMain
  <2> QED  BY <2>1, <2>2 DEF Delete
<1> QED  BY <1>1, <1>2, <1>3, <1>4 DEF Port!Delete

Saved == Rows = Durable

(* With nothing buffered, the rows are those on disk. *)
LEMMA CleanIsSaved == IInv /\ ~dirty => Saved
  BY CleanIsDurable DEF Saved

(* ... also after a step. *)
LEMMA CleanIsSavedNext == IInv' /\ ~dirty' => Saved'
  BY CleanIsSaved, PTL

(* After a restart the rows are those on disk, at slots that were handed out. *)
LEMMA RestartIsPortRestart ==
  ASSUME IInv, IInv', TailAhead, Restart
  PROVE  Port!Restart
<1>1. main' = main /\ fill' = fill /\ tail' = NoTail /\ dirty' = FALSE
  BY DEF Restart
<1>2. Durable' = Durable
  BY <1>1 DEF Durable, OnDisk, ReadPage, DiskRids, DiskPageIds
<1>3. Rows' = Durable'
  BY <1>1, CleanIsSavedNext DEF Saved
<1>4. IssuedAreAddressed /\ IssuedAreAddressed'
  BY IssuedSlots, IssuedSlotsNext
<1>5. ASSUME NEW p \in Int PROVE Len(PageAt(p)') <= Len(PageAt(p)) /\ Len(PageAt(p)) \in Int
  <2>1. FillIndex(p) \in Int
    BY DEF FillIndex, OverflowIndex
  <2>2. ASSUME NEW i \in Int PROVE Len(ReadPage(fill, i)) <= Len(FillPage(i))
    <3>1. ReadPage(fill, i) \in Page /\ fill \in Seq(Page)
      BY ReadPageType DEF IInv, TypeOK
    <3>2. CASE tail # NoTail /\ tail.id = i /\ i < Len(fill)
      <4>1. i \in Nat /\ ReadPage(fill, i) = fill[i + 1]
        BY <3>1, <3>2 DEF IInv, TailPlaced, ReadPage
      <4> QED  BY <3>2, <4>1 DEF TailAhead, PageKept, FillPage
    <3>3. CASE tail # NoTail /\ tail.id = i /\ ~(i < Len(fill))
      <4>1. ReadPage(fill, i) = <<>> /\ tail.slots \in Page
        BY <3>1, <3>3 DEF IInv, TypeOK, ReadPage
      <4> QED  BY <3>3, <4>1 DEF FillPage, Page
    <3>4. CASE ~(tail # NoTail /\ tail.id = i)
      BY <3>1, <3>4 DEF FillPage, Page
    <3> QED  BY <3>2, <3>3, <3>4
  <2>3. PageAt(p)' = IF IsFill(p) THEN ReadPage(fill, FillIndex(p)) ELSE ReadPage(main, p)
    BY <1>1 DEF PageAt, FillPage, ReadPage, IsFill, FillIndex, OverflowIndex
  <2>4. PageAt(p) \in Page
    BY PageAtType
  <2>5. Len(PageAt(p)') <= Len(PageAt(p))
    <3>1. CASE IsFill(p)
      BY <2>1, <2>2, <2>3, <3>1 DEF PageAt
    <3>2. CASE ~IsFill(p)
      BY <2>3, <2>4, <3>2 DEF PageAt, Page
    <3> QED  BY <3>1, <3>2
  <2> QED  BY <2>4, <2>5 DEF Page
<1>6. ASSUME NEW r, Addressed(r)' PROVE Addressed(r)
  <2>1. PageAt(r[1])' \in Page
    BY <1>4, <1>6 DEF IssuedAreAddressed, Addressed
  <2>2. Len(PageAt(r[1])') \in Int
    BY <2>1 DEF Page
  <2> QED  BY <1>5, <1>6, <2>2 DEF Addressed
<1>7. Issued' \subseteq Issued
  BY <1>4, <1>6 DEF IssuedAreAddressed
<1>8. DOMAIN Rows' \subseteq Issued'
  BY DEF Rows, Live
<1> QED  BY <1>1, <1>2, <1>3, <1>7, <1>8 DEF Port!Restart

-----------------------------------------------------------------------------
(* Reorganizing keeps the rows.  Division names one slot for every row of the
   new file: slot b of block a is row a * d + b.                            *)
LEMMA OneSlotForEachRow ==
  ASSUME NEW d \in Nat \ {0}, NEW a \in Int, NEW b \in Int, NEW x \in 0..(d - 1), NEW y \in 0..(d - 1),
         a * d + x = b * d + y
  PROVE  a = b /\ x = y
<1>1. ASSUME NEW m \in Int, NEW n \in Int, m < n PROVE n * d >= m * d + d
  <2>1. n * d = m * d + d + (n - m - 1) * d
    OBVIOUS
  <2>2. (n - m - 1) * d >= 0
    BY <1>1
  <2>3. PICK e : e = (n - m - 1) * d
    OBVIOUS
  <2>4. PICK f, g : f = m * d /\ g = n * d
    OBVIOUS
  <2>5. e \in Int /\ f \in Int /\ g \in Int
    BY <2>3, <2>4
  <2> QED  BY <2>1, <2>2, <2>3, <2>4, <2>5
<1>2. PICK f, g : f = a * d /\ g = b * d
  OBVIOUS
<1>3. f \in Int /\ g \in Int /\ f + x = g + y
  BY <1>2
<1>4. ~(a < b) /\ ~(b < a)
  BY <1>1, <1>2, <1>3
<1> QED  BY <1>2, <1>3, <1>4

(* Every row of a list has a page and a slot: dividing by the capacity is onto. *)
LEMMA SlotForEachRow ==
  ASSUME NEW d \in Nat \ {0}, NEW i \in Nat
  PROVE  \E a \in Nat, x \in 0..(d - 1) : i = a * d + x
<1>1. i = (i \div d) * d + (i % d) /\ i % d \in 0..(d - 1) /\ i \div d \in Nat
  OBVIOUS
<1> QED  BY <1>1

(* Row i of the sorted rows is at a slot of a block, and no other row is. *)
LEMMA RowIsRewritten ==
  ASSUME NEW n \in Nat, NEW t \in [1..n -> Keys], NEW i \in 1..n
  PROVE  \E p \in 1..PagesFor(t) : \E a \in 1..Len(Rewritten(t)[p]) : i = (p - 1) * PerPage + a
<1>1. PerPage \in Nat \ {0}
  BY CapacityAssumption DEF PerPage, Larger
<1>2. t \in Seq(Slot) /\ Len(t) = n
  BY DEF Slot
<1>3. PICK q \in Nat, x \in 0..(PerPage - 1) : i - 1 = q * PerPage + x
  <2>1. i - 1 \in Nat
    OBVIOUS
  <2> HIDE DEF PerPage
  <2> QED  BY <1>1, <2>1, SlotForEachRow
<1>4. PICK c, e : c = q * PerPage /\ e = Smaller(c + PerPage, n)
  OBVIOUS
<1>5. /\ c \in Nat /\ (q + 1) * PerPage = c + PerPage /\ (q + 1 - 1) * PerPage = c
      /\ c + x + 1 <= n
  BY <1>1, <1>3, <1>4
<1>6. q + 1 \in 1..PagesFor(t)
  <2>1. (n + PerPage - 1) \div PerPage >= q + 1
    <3>1. PICK m : m = (n + PerPage - 1) \div PerPage
      OBVIOUS
    <3>2. m \in Nat /\ n + PerPage - 1 < (m + 1) * PerPage
      BY <1>1, <3>1
    <3>3. (q + 1) * PerPage < (m + 1) * PerPage
      BY <1>1, <1>5, <3>2
    <3>4. q + 1 < m + 1
      BY <1>1, <3>2, <3>3
    <3> QED  BY <3>1, <3>2, <3>4
  <2> QED  BY <1>1, <1>2, <2>1 DEF PagesFor, Larger
<1>7. Rewritten(t)[q + 1] = SubSeq(t, c + 1, e)
  <2>1. \A p \in 1..PagesFor(t) :
          Rewritten(t)[p] = SubSeq(t, (p - 1) * PerPage + 1, Smaller(p * PerPage, n))
    BY <1>2 DEF Rewritten
  <2>2. PICK p : p = q + 1
    OBVIOUS
  <2>3. (p - 1) * PerPage = c /\ p * PerPage = c + PerPage /\ p \in 1..PagesFor(t)
    BY <1>5, <1>6, <2>2
  <2> QED  BY <1>4, <2>1, <2>2, <2>3
<1>8. e \in Nat /\ e <= n /\ c + x + 1 <= e
  BY <1>1, <1>4, <1>5 DEF Smaller
<1>9. Len(SubSeq(t, c + 1, e)) = e - c
  BY <1>2, <1>5, <1>8
<1>10. x + 1 \in 1..Len(Rewritten(t)[q + 1])
  BY <1>5, <1>7, <1>8, <1>9
<1>11. i = (q + 1 - 1) * PerPage + (x + 1)
  BY <1>3, <1>4, <1>5
<1> QED  BY <1>6, <1>10, <1>11

(* The main file that a reorganization lays out, or has laid out so far. *)
LaidOut(t, m) ==
  /\ Len(main) = m
  /\ \A p \in 1..m : main[p] = Rewritten(t)[p]
  /\ tail = NoTail

(* The rows laid out are a list of as many pages as its length needs. *)
LEMMA SortedRowsShape ==
  ASSUME IInv, NEW t \in SortedRows
  PROVE  \E n \in Nat : /\ t \in [1..n -> Keys] /\ Len(t) = n /\ DOMAIN t = 1..n
                        /\ PagesFor(t) \in Nat
                        /\ Rewritten(t) \in Seq(Page) /\ Len(Rewritten(t)) = PagesFor(t)
<1>1. PICK n : n = Cardinality(Live)
  OBVIOUS
<1>2. n \in Nat /\ t \in [1..n -> Keys]
  BY <1>1, LiveFinite DEF SortedRows
<1>3. Len(t) = n /\ DOMAIN t = 1..n
  BY <1>2
<1>4. PerPage \in Nat \ {0}
  BY CapacityAssumption DEF PerPage, Larger
<1>5. PagesFor(t) \in Nat
  BY <1>2, <1>3, <1>4 DEF PagesFor, Larger
<1>6. Rewritten(t) \in Seq(Page)
  BY <1>2, RewrittenShape
<1>7. Len(Rewritten(t)) = PagesFor(t)
  BY <1>5 DEF Rewritten
<1> QED  BY <1>2, <1>3, <1>5, <1>6, <1>7

(* A reorganization that ends writes every page of the sorted rows. *)
LEMMA ReorganizeLaysOut ==
  ASSUME IInv, Reorganize
  PROVE  \E t \in SortedRows : LaidOut(t, PagesFor(t))'
<1>1. PICK t \in SortedRows : main' = Rewritten(t)
  BY DEF Reorganize
<1>2. Len(main') = PagesFor(t)
  BY <1>1, SortedRowsShape
<1> QED  BY <1>1, <1>2 DEF LaidOut, Reorganize

(* One that is cut short writes the first pages of them. *)
LEMMA CrashLaysOut ==
  ASSUME IInv, CrashInReorganize
  PROVE  \E t \in SortedRows : \E m \in 0..PagesFor(t) : LaidOut(t, m)'
<1>0. PICK t \in SortedRows : \E m \in 0..PagesFor(t) : main' = SubSeq(Rewritten(t), 1, m)
  BY DEF CrashInReorganize
<1>1. PICK m \in 0..PagesFor(t) : main' = SubSeq(Rewritten(t), 1, m)
  BY <1>0
<1>2. PagesFor(t) \in Nat /\ Rewritten(t) \in Seq(Page) /\ Len(Rewritten(t)) = PagesFor(t)
  BY SortedRowsShape
<1>3. Len(main') = m /\ \A p \in 1..m : main'[p] = Rewritten(t)[p]
  <2> HIDE DEF Rewritten, PagesFor
  <2> QED  BY <1>1, <1>2
<1> QED  BY <1>1, <1>3 DEF LaidOut, CrashInReorganize

(* The row at a slot of a file laid out so. *)
LEMMA RowLaidOut ==
  ASSUME Ordered, NEW n \in Nat, NEW t \in [1..n -> Keys], NEW m \in 0..PagesFor(t), LaidOut(t, m),
         NEW r, Addressed(r), ~IsFill(r[1])
  PROVE  /\ r[1] \in Nat /\ r[2] \in 0..(PerPage - 1)
         /\ r[1] * PerPage + r[2] + 1 \in 1..n
         /\ Fetch(r) = t[r[1] * PerPage + r[2] + 1]
<1>1. PICK q, x : q = r[1] /\ x = r[2]
  OBVIOUS
<1>2. PerPage \in Nat \ {0} /\ Len(t) = n
  BY CapacityAssumption DEF PerPage, Larger
<1>3. PagesFor(t) \in Nat /\ m \in Nat
  BY <1>2 DEF PagesFor, Larger
<1>4. q \in Nat /\ x \in 0..(Len(ReadPage(main, q)) - 1) /\ PageAt(q) = ReadPage(main, q)
  BY <1>1 DEF Addressed, IsFill, PageAt
<1>5. PICK p, a : p = q + 1 /\ a = x + 1
  OBVIOUS
<1>6. p \in 1..m /\ ReadPage(main, q) = main[p]
  <2>1. Len(main) = m
    BY DEF LaidOut
  <2>2. q \in 0..(m - 1)
    BY <1>4, <2>1 DEF ReadPage
  <2> QED  BY <1>3, <1>5, <2>1, <2>2 DEF ReadPage
<1>7. ReadPage(main, q) = Rewritten(t)[p] /\ p \in 1..PagesFor(t)
  BY <1>3, <1>6 DEF LaidOut
<1>8. Len(Rewritten(t)[p]) \in Nat
  <2>1. Rewritten(t) \in Seq(Page)
    BY RewrittenShape
  <2>2. DOMAIN Rewritten(t) = 1..PagesFor(t)
    BY DEF Rewritten
  <2>3. Rewritten(t)[p] \in Page
    BY <1>3, <1>7, <2>1, <2>2
  <2> QED  BY <2>3 DEF Page
<1>9. a \in 1..Len(Rewritten(t)[p])
  BY <1>4, <1>5, <1>7, <1>8
<1>10. /\ a <= PerPage
       /\ (p - 1) * PerPage + a \in 1..n
       /\ Rewritten(t)[p][a] = t[(p - 1) * PerPage + a]
  BY <1>7, <1>9, RewrittenSlot
<1>11. PICK c : c = q * PerPage
  OBVIOUS
<1>12. c \in Nat /\ (p - 1) * PerPage = c /\ x \in Nat
  BY <1>2, <1>4, <1>5, <1>11
<1>13. /\ x \in 0..(PerPage - 1) /\ c + x + 1 \in 1..n
       /\ Rewritten(t)[p][a] = t[c + x + 1]
  <2>1. c + a = c + x + 1
    BY <1>5, <1>12
  <2>2. x <= PerPage - 1
    BY <1>2, <1>5, <1>10, <1>12
  <2> QED  BY <1>2, <1>10, <1>12, <2>1, <2>2
<1>14. Fetch(r) = Rewritten(t)[p][a]
  BY <1>1, <1>4, <1>5, <1>7 DEF Fetch
<1> QED  BY <1>1, <1>4, <1>11, <1>13, <1>14

(* ... and the slot of a row. *)
LEMMA SlotLaidOut ==
  ASSUME Ordered, NEW n \in Nat, NEW t \in [1..n -> Keys], LaidOut(t, PagesFor(t)), NEW i \in 1..n
  PROVE  \E r : Addressed(r) /\ ~IsFill(r[1]) /\ i = r[1] * PerPage + r[2] + 1
<1>1. PICK p \in 1..PagesFor(t) : \E a \in 1..Len(Rewritten(t)[p]) : i = (p - 1) * PerPage + a
  BY RowIsRewritten
<1>2. PICK a \in 1..Len(Rewritten(t)[p]) : i = (p - 1) * PerPage + a
  BY <1>1
<1>3. PerPage \in Nat \ {0} /\ Len(t) = n
  BY CapacityAssumption DEF PerPage, Larger
<1>4. PagesFor(t) \in Nat
  BY <1>3 DEF PagesFor, Larger
<1>5. p - 1 \in Nat /\ ReadPage(main, p - 1) = Rewritten(t)[p]
  BY <1>4 DEF ReadPage, LaidOut
<1>6. ~IsFill(p - 1) /\ PageAt(p - 1) = Rewritten(t)[p]
  BY <1>5 DEF IsFill, PageAt
<1>7. Len(Rewritten(t)[p]) \in Nat
  <2>1. Rewritten(t) \in Seq(Page)
    BY RewrittenShape
  <2>2. DOMAIN Rewritten(t) = 1..PagesFor(t)
    BY DEF Rewritten
  <2>3. Rewritten(t)[p] \in Page
    BY <1>4, <2>1, <2>2
  <2> QED  BY <2>3 DEF Page
<1>8. PICK r : r = <<p - 1, a - 1>>
  OBVIOUS
<1>9. r = <<r[1], r[2]>> /\ r[1] = p - 1 /\ r[2] = a - 1 /\ a \in Int
  BY <1>7, <1>8
<1>10. Addressed(r)
  BY <1>5, <1>6, <1>7, <1>9 DEF Addressed
<1>11. i = r[1] * PerPage + r[2] + 1
  <2>1. (p - 1) * PerPage \in Int
    BY <1>3, <1>5
  <2> QED  BY <1>2, <1>9, <2>1
<1> QED  BY <1>6, <1>9, <1>10, <1>11

RowsLaidOut ==
  \A n \in Nat : \A t \in [1..n -> Keys] : \A m \in 0..PagesFor(t) : LaidOut(t, m) =>
    \A r : Addressed(r) /\ ~IsFill(r[1]) =>
      /\ r[1] \in Nat /\ r[2] \in 0..(PerPage - 1)
      /\ r[1] * PerPage + r[2] + 1 \in 1..n
      /\ Fetch(r) = t[r[1] * PerPage + r[2] + 1]

SlotsLaidOut ==
  \A n \in Nat : \A t \in [1..n -> Keys] : LaidOut(t, PagesFor(t)) => \A i \in 1..n :
    \E r : Addressed(r) /\ ~IsFill(r[1]) /\ i = r[1] * PerPage + r[2] + 1

(* The rows of a table just laid out, and their RIDs, in one statement each. *)
LEMMA AllLaidOut == Ordered => RowsLaidOut /\ SlotsLaidOut
<1>1. Ordered => RowsLaidOut
  BY RowLaidOut DEF RowsLaidOut
<1>2. Ordered => SlotsLaidOut
  BY SlotLaidOut DEF SlotsLaidOut
<1> QED  BY <1>1, <1>2

(* ... also after a step. *)
LEMMA AllLaidOutNext == Ordered => RowsLaidOut' /\ SlotsLaidOut'
<1>1. CASE Ordered
  <2>1. RowsLaidOut /\ SlotsLaidOut
    BY <1>1, AllLaidOut
  <2> QED  BY <2>1, PTL
<1> QED  BY <1>1

(* The port counts as the table does. *)
LEMMA SameCardinality == \A S : Port!Cardinality(S) = Cardinality(S)
  BY DEF Port!Cardinality, Cardinality

(* A reorganization gives every row one slot: as many of each key as before. *)
LEMMA ReorganizeIsPortReorganize ==
  ASSUME IInv, IInv', Reorganize
  PROVE  Port!Reorganize
<1>1. PICK t \in SortedRows : LaidOut(t, PagesFor(t))'
  BY ReorganizeLaysOut
<1>2. PICK n \in Nat : t \in [1..n -> Keys] /\ DOMAIN t = 1..n /\ PagesFor(t) \in Nat
  BY SortedRowsShape
<1>3. /\ Ordered /\ fill' = <<>> /\ tail' = NoTail /\ dirty' = FALSE
      /\ PerPage \in Nat \ {0}
  BY CapacityAssumption DEF Reorganize, PerPage, Larger
<1>4. Durable' = Rows'
  BY <1>3, CleanIsSavedNext DEF Saved
<1>5. IssuedAreAddressed'
  BY IssuedSlotsNext
<1>6. ASSUME NEW r, Addressed(r)' PROVE ~IsFill(r[1])
  BY <1>3, <1>6 DEF Addressed, PageAt, FillPage, ReadPage
<1>7. ASSUME NEW r \in Issued'
      PROVE  /\ r = <<r[1], r[2]>>
             /\ r[1] \in Nat /\ r[2] \in 0..(PerPage - 1)
             /\ r[1] * PerPage + r[2] + 1 \in 1..n
             /\ Fetch(r)' = t[r[1] * PerPage + r[2] + 1]
  <2>1. Addressed(r)' /\ ~IsFill(r[1])
    BY <1>5, <1>6, <1>7 DEF IssuedAreAddressed
  <2>2. RowsLaidOut' /\ PagesFor(t) \in 0..PagesFor(t)
    BY <1>2, <1>3, AllLaidOutNext
  <2>3. r = <<r[1], r[2]>>
    BY <2>1 DEF Addressed
  <2> QED  BY <1>1, <1>2, <2>1, <2>2, <2>3 DEF RowsLaidOut
<1>8. Live' = Issued'
  BY <1>2, <1>7, HoleAssumption DEF Live
<1>9. DOMAIN Rows' = Issued' /\ \A r \in Issued' : Rows'[r] = Fetch(r)'
  BY <1>8 DEF Rows
<1>10. ASSUME NEW i \in 1..n PROVE \E r \in Issued' : i = r[1] * PerPage + r[2] + 1
  BY <1>1, <1>2, <1>3, <1>5, AllLaidOutNext DEF SlotsLaidOut, IssuedAreAddressed
<1>11. ASSUME NEW k \in Keys PROVE Port!CopiesOf(Rows, k) = Port!CopiesOf(Rows', k)
  <2> DEFINE new  == {r \in Issued' : Fetch(r)' = k}
             row  == {i \in 1..n : t[i] = k}
             f    == [r \in new |-> r[1] * PerPage + r[2] + 1]
  <2>1. Port!CopiesOf(Rows, k) = Cardinality({r \in Live : Fetch(r) = k})
    <3>1. {r \in DOMAIN Rows : Rows[r] = k} = {r \in Live : Fetch(r) = k}
      BY DEF Rows
    <3> QED  BY <3>1, SameCardinality DEF Port!CopiesOf
  <2>2. Cardinality({r \in Live : Fetch(r) = k}) = Cardinality(row)
    BY <1>2 DEF SortedRows
  <2>3. Port!CopiesOf(Rows', k) = Cardinality(new)
    <3>1. {r \in DOMAIN Rows' : Rows'[r] = k} = new
      BY <1>9
    <3> HIDE DEF new
    <3> QED  BY <3>1, SameCardinality DEF Port!CopiesOf
  <2>4. IsFiniteSet(new)
    <3>1. IsFiniteSet(Live')
      BY LiveFiniteNext
    <3>2. new \in SUBSET Live'
      BY <1>8
    <3> QED  BY <3>1, <3>2, FS_Subset
  <2>5. f \in [new -> row]
    BY <1>7
  <2>6. ASSUME NEW r \in new, NEW q \in new, f[r] = f[q] PROVE r = q
    <3>1. /\ r = <<r[1], r[2]>> /\ r[1] \in Int /\ r[2] \in 0..(PerPage - 1)
          /\ q = <<q[1], q[2]>> /\ q[1] \in Int /\ q[2] \in 0..(PerPage - 1)
      BY <1>7
    <3>2. r[1] * PerPage + r[2] = q[1] * PerPage + q[2]
      <4>1. PICK a, b : a = r[1] * PerPage /\ b = q[1] * PerPage
        OBVIOUS
      <4>2. a \in Int /\ b \in Int /\ r[2] \in Int /\ q[2] \in Int
        BY <1>3, <3>1, <4>1
      <4>3. a + r[2] + 1 = b + q[2] + 1
        BY <2>6, <4>1
      <4> QED  BY <4>1, <4>2, <4>3
    <3>3. r[1] = q[1] /\ r[2] = q[2]
      <4> HIDE DEF PerPage
      <4> QED  BY <1>3, <3>1, <3>2, OneSlotForEachRow
    <3> QED  BY <3>1, <3>3
  <2>7. ASSUME NEW i \in row PROVE \E r \in new : f[r] = i
    <3>1. PICK r \in Issued' : i = r[1] * PerPage + r[2] + 1
      BY <1>10
    <3>2. r \in new
      BY <1>7, <2>7, <3>1
    <3> QED  BY <3>1, <3>2
  <2> HIDE DEF new, row, f
  <2>8. f \in Bijection(new, row)
    BY <2>5, <2>6, <2>7 DEF Bijection, Injection, Surjection, IsInjective
  <2>9. Cardinality(row) = Cardinality(new)
    BY <2>4, <2>8, FS_Bijection DEF ExistsBijection
  <2> QED  BY <2>1, <2>2, <2>3, <2>9
<1> QED  BY <1>3, <1>4, <1>9, <1>11 DEF Port!Reorganize, Port!SameRows

(* One that is cut short keeps overflow and a part of the sorted rows. *)
LEMMA CrashIsPortRestart ==
  ASSUME IInv, IInv', CrashInReorganize
  PROVE  Port!RestartInReorganize
<1>0. PICK t \in SortedRows : \E m \in 0..PagesFor(t) : LaidOut(t, m)'
  BY CrashLaysOut
<1>1. PICK m \in 0..PagesFor(t) : LaidOut(t, m)'
  BY <1>0
<1>2. PICK n \in Nat : t \in [1..n -> Keys] /\ DOMAIN t = 1..n
  BY SortedRowsShape
<1>3. Ordered /\ fill' = FlushedFill /\ tail' = NoTail /\ dirty' = FALSE
  BY DEF CrashInReorganize
<1>4. Durable' = Rows'
  BY <1>3, CleanIsSavedNext DEF Saved
<1>5. IssuedAreAddressed' /\ IssuedAreAddressed
  BY IssuedSlots, IssuedSlotsNext
<1>6. ASSUME NEW r \in Live' PROVE \E q \in Live : Fetch(q) = Fetch(r)'
  <2>1. Addressed(r)' /\ Fetch(r)' # Hole
    BY <1>5, <1>6 DEF IssuedAreAddressed, Live
  <2>2. CASE IsFill(r[1])
    <3>1. FillIndex(r[1]) \in Int /\ r[1] \in Int
      BY <2>1 DEF Addressed, FillIndex, OverflowIndex
    <3>2. \A i \in Int : ReadPage(fill', i) = FillPage(i)
      BY <1>3, FlushedReads, NoPageBeyond DEF ReadPage
    <3>3. PageAt(r[1])' = PageAt(r[1])
      BY <1>3, <2>2, <3>1, <3>2 DEF PageAt, FillPage, IsFill, FillIndex, OverflowIndex
    <3>4. Addressed(r) /\ Fetch(r) = Fetch(r)'
      BY <2>1, <3>3 DEF Addressed, Fetch
    <3> QED  BY <1>5, <2>1, <3>4 DEF IssuedAreAddressed, Live
  <2>3. CASE ~IsFill(r[1])
    <3>1. RowsLaidOut'
      BY <1>3, AllLaidOutNext
    <3>2. PICK i \in 1..n : Fetch(r)' = t[i]
      BY <1>1, <1>2, <2>1, <2>3, <3>1 DEF RowsLaidOut
    <3>3. PICK k \in Keys : k = t[i]
      BY <1>2
    <3> DEFINE old == {q \in Live : Fetch(q) = k}
               row == {j \in 1..n : t[j] = k}
    <3>4. Cardinality(old) = Cardinality(row)
      BY <1>2 DEF SortedRows
    <3>5. IsFiniteSet(old) /\ IsFiniteSet(row)
      <4>1. IsFiniteSet(Live) /\ IsFiniteSet(1..n)
        BY LiveFinite, FS_Interval
      <4> QED  BY <4>1, FS_Subset
    <3>6. row # {}
      BY <3>3
    <3> HIDE DEF row
    <3>7. old # {}
      BY <3>4, <3>5, <3>6, FS_EmptySet
    <3> QED  BY <3>2, <3>3, <3>7
  <2> QED  BY <2>2, <2>3
<1>7. Port!Values(Rows') \subseteq Port!Values(Rows) /\ DOMAIN Rows' \subseteq Issued'
  BY <1>6 DEF Port!Values, Rows, Live
<1> QED  BY <1>3, <1>4, <1>7 DEF Port!RestartInReorganize

(* Every step of a paged table is one of the port, or invisible to it. *)
LEMMA NextIsPortNext ==
  ASSUME IInv, IInv', TailAhead, [Next]_vars
  PROVE  [Port!Next]_(Port!vars)
<1>1. CASE CreateTable \/ UNCHANGED vars
  BY <1>1, SameTableForPort DEF CreateTable, vars
<1>2. CASE DropTable
  <2>1. NoFiles' /\ dirty' = FALSE
    BY <1>2 DEF DropTable, NoFiles, NoTail
  <2>2. Rows' = Port!Empty /\ Durable' = Port!Empty /\ Issued' = {}
    BY <2>1, NothingInNoFilesNext DEF NothingStored, Port!Empty
  <2> QED  BY <2>1, <2>2 DEF Port!DropTable, Port!Next
<1>3. ASSUME NEW k \in Keys, Insert(k) PROVE Port!Next
  BY <1>3, InsertIsPortInsert DEF Port!Next
<1>4. CASE Flush
  BY <1>4, FlushIsPortFlush DEF Port!Next
<1>5. ASSUME NEW rid \in Live, Delete(rid) PROVE Port!Next
  BY <1>5, DeleteIsPortDelete DEF Port!Next
<1>6. CASE Reorganize
  BY <1>6, ReorganizeIsPortReorganize DEF Port!Next
<1>7. CASE CrashInReorganize
  BY <1>7, CrashIsPortRestart DEF Port!Next
<1>8. CASE Restart
  BY <1>8, RestartIsPortRestart DEF Port!Next
<1> QED  BY <1>1, <1>2, <1>3, <1>4, <1>5, <1>6, <1>7, <1>8 DEF Next

(* The paged table implements the storage port: the page in memory, the
   blocks, the two files and the sorted rewrite are invisible to the engine
   (port.py, diskstore.py).                                                 *)
THEOREM TableImplementsPort == Spec => PortSpec
<1>1. Init => Port!Init
  <2> SUFFICES ASSUME Init PROVE Port!Init
    OBVIOUS
  <2>1. NoFiles /\ dirty = FALSE
    BY DEF Init, NoFiles
  <2> QED  BY <2>1, NothingInNoFiles DEF NothingStored, Port!Init
<1>2. Init => TailAhead
  BY DEF Init, TailAhead
<1>3. IInv /\ IInv' /\ TailAhead /\ [Next]_vars => TailAhead'
  BY TailStaysAhead
<1>4. IInv /\ IInv' /\ TailAhead /\ [Next]_vars => [Port!Next]_(Port!vars)
  BY NextIsPortNext
<1> QED  BY <1>1, <1>2, <1>3, <1>4, InductiveInvariant, PTL DEF Spec, PortSpec, Port!Spec

=============================================================================
