----------------------------- MODULE TableStore -----------------------------
(***************************************************************************)
(* One table of DiskTableStore (queryengine/storage/diskstore.py) over the *)
(* slotted pages and the block file of src/storage (page.py,               *)
(* disk_management.py).                                                    *)
(*                                                                         *)
(* A file is a sequence of pages, a page the sequence of its slots, and a  *)
(* slot holds a row or Hole, the zero length that marks a deleted record.  *)
(* A row is represented by its primary key.  Page ids and slot numbers     *)
(* start at 0, as in the code.                                             *)
(*                                                                         *)
(* HEAP (Ordered = FALSE): one file, `fill`, that inserts append to.       *)
(* SEQUENTIAL (Ordered = TRUE): `main` is the file ordered by key that only*)
(* reorganize lays out, `fill` the overflow area inserts append to.        *)
(***************************************************************************)
EXTENDS Integers, Sequences, FiniteSets

CONSTANTS
  Keys,        \* primary keys
  Hole,        \* content of a slot whose record was deleted
  Capacity,    \* records that fit in a page
  Ordered,     \* USING SEQUENTIAL (TRUE) or USING HEAP (FALSE)
  MaxPages,    \* bound: pages the fill file may grow to
  MaxRows      \* bound: live rows of the table

ASSUME KeysAssumption     == Keys \subseteq Int
ASSUME HoleAssumption     == Hole \notin Keys
ASSUME CapacityAssumption == Capacity \in Nat \ {0}
ASSUME OrderedAssumption  == Ordered \in BOOLEAN
ASSUME BoundsAssumption   == MaxPages \in Nat \ {0} /\ MaxRows \in Nat

VARIABLES
  main,    \* the ordered file of a SEQUENTIAL table; empty for HEAP
  fill,    \* the file inserts go to (entry.insert_manager)
  tail,    \* the page of `fill` kept in memory (entry.tail), or NoTail
  dirty,   \* entry.dirty: the tail page has changes not yet written
  open     \* the table is in DiskTableStore._tables

vars == <<main, fill, tail, dirty, open>>

Slot   == Keys \cup {Hole}
Page   == {p \in Seq(Slot) : Len(p) <= Capacity}
NoTail == [id |-> -1, slots |-> <<>>]

Larger(a, b)  == IF a >= b THEN a ELSE b
Smaller(a, b) == IF a <= b THEN a ELSE b

-----------------------------------------------------------------------------
(* Files: DiskManager.                                                     *)

ReadPage(file, i) == IF i \in 0..(Len(file) - 1) THEN file[i + 1] ELSE <<>>

(* write_page seeks to the page and writes it; a page past the end leaves a
   gap of zeros, which reads as pages with no record.                      *)
WritePage(file, i, page) ==
  [j \in 1..Larger(Len(file), i + 1) |->
     IF j = i + 1 THEN page ELSE ReadPage(file, j - 1)]

-----------------------------------------------------------------------------
(* Addresses.  An overflow page is named by a negative page id.            *)

(* Mutant of OverflowId: overflow page 0 takes the address of main page 0. *)
OverflowIdFromZero(i) == -i

OverflowId(i)    == -(i + 1)
OverflowIndex(p) == -p - 1

FillId(i)    == IF Ordered THEN OverflowId(i) ELSE i
FillIndex(p) == IF Ordered THEN OverflowIndex(p) ELSE p
IsFill(p)    == Ordered => p < 0

(* The page being filled is served from memory, anything else from its file. *)
FillPage(i) == IF tail # NoTail /\ tail.id = i THEN tail.slots ELSE ReadPage(fill, i)
PageAt(p)   == IF IsFill(p) THEN FillPage(FillIndex(p)) ELSE ReadPage(main, p)

Fetch(rid) ==
  LET page == PageAt(rid[1])
  IN  IF rid[2] \in 0..(Len(page) - 1) THEN page[rid[2] + 1] ELSE Hole

(* Every slot ever filled since the files were laid out, and the live ones. *)
FillPages == Larger(Len(fill), tail.id + 1)
PageIds   == {FillId(i) : i \in 0..(FillPages - 1)}
               \cup (IF Ordered THEN 0..(Len(main) - 1) ELSE {})
Issued    == UNION {{<<p, s>> : s \in 0..(Len(PageAt(p)) - 1)} : p \in PageIds}
Live      == {rid \in Issued : Fetch(rid) # Hole}

-----------------------------------------------------------------------------
(* Buffering.                                                              *)

(* Mutant of FlushedFill: a page that never had a block is not written. *)
FlushedInPlace ==
  IF tail # NoTail /\ dirty /\ tail.id < Len(fill)
    THEN WritePage(fill, tail.id, tail.slots) ELSE fill

FlushedFill == IF tail # NoTail /\ dirty THEN WritePage(fill, tail.id, tail.slots) ELSE fill

(* _open_tail: the last page of the file, or a first one. *)
OpenedTail ==
  IF tail # NoTail THEN tail
  ELSE IF fill # <<>> THEN [id |-> Len(fill) - 1, slots |-> fill[Len(fill)]]
  ELSE [id |-> 0, slots |-> <<>>]

(* Mutant of HasRoom: the last record of a page is counted twice as free. *)
HasRoomForOneMore(page) == Len(page) <= Capacity

HasRoom(page) == Len(page) < Capacity

Init ==
  /\ main = <<>>
  /\ fill = <<>>
  /\ tail = NoTail
  /\ dirty = FALSE
  /\ open = FALSE

(* create_table: attach to the files of this name, which may hold rows. *)
CreateTable ==
  /\ ~open
  /\ open' = TRUE
  /\ UNCHANGED <<main, fill, tail, dirty>>

DropTable ==
  /\ open
  /\ main' = <<>>
  /\ fill' = <<>>
  /\ tail' = NoTail
  /\ dirty' = FALSE
  /\ open' = FALSE

(* A page with room takes the record in memory. *)
InsertInTail(k) ==
  /\ open
  /\ HasRoom(OpenedTail.slots)
  /\ tail' = [OpenedTail EXCEPT !.slots = Append(@, k)]
  /\ dirty' = TRUE
  /\ UNCHANGED <<main, fill, open>>

(* A full page is written out and the next one started, in memory only. *)
InsertInNewTail(k) ==
  /\ open
  /\ ~HasRoom(OpenedTail.slots)
  /\ OpenedTail.id + 1 < MaxPages
  /\ fill' = FlushedFill
  /\ tail' = [id |-> OpenedTail.id + 1, slots |-> <<k>>]
  /\ dirty' = TRUE
  /\ UNCHANGED <<main, open>>

Insert(k) ==
  /\ Cardinality(Live) < MaxRows
  /\ InsertInTail(k) \/ InsertInNewTail(k)

(* flush; search_key and range_key start with it and change nothing else. *)
Flush ==
  /\ open
  /\ fill' = FlushedFill
  /\ dirty' = FALSE
  /\ UNCHANGED <<main, tail, open>>

(* Mutant of Tombstone: the slot is removed, and those after it move up. *)
Compacted(page, s) == SubSeq(page, 1, s) \o SubSeq(page, s + 2, Len(page))

Tombstone(page, s) == [page EXCEPT ![s + 1] = Hole]

(* Mutant of DeleteInTail: the resident page is not marked as changed. *)
DeleteInCleanTail(rid) ==
  /\ tail # NoTail
  /\ IsFill(rid[1])
  /\ FillIndex(rid[1]) = tail.id
  /\ tail' = [tail EXCEPT !.slots = Tombstone(@, rid[2])]
  /\ UNCHANGED <<main, fill, dirty>>

(* The slot is zeroed in the resident page, or in its block, at once. *)
DeleteInTail(rid) ==
  /\ tail # NoTail
  /\ IsFill(rid[1])
  /\ FillIndex(rid[1]) = tail.id
  /\ tail' = [tail EXCEPT !.slots = Tombstone(@, rid[2])]
  /\ dirty' = TRUE
  /\ UNCHANGED <<main, fill>>

DeleteInFill(rid) ==
  /\ IsFill(rid[1])
  /\ tail # NoTail => FillIndex(rid[1]) # tail.id
  /\ fill' = WritePage(fill, FillIndex(rid[1]), Tombstone(PageAt(rid[1]), rid[2]))
  /\ UNCHANGED <<main, tail, dirty>>

DeleteInMain(rid) ==
  /\ ~IsFill(rid[1])
  /\ main' = WritePage(main, rid[1], Tombstone(PageAt(rid[1]), rid[2]))
  /\ UNCHANGED <<fill, tail, dirty>>

Delete(rid) ==
  /\ open
  /\ rid \in Live
  /\ DeleteInTail(rid) \/ DeleteInFill(rid) \/ DeleteInMain(rid)
  /\ UNCHANGED open

-----------------------------------------------------------------------------
(* Reorganizing.                                                           *)

(* int(records_per_page * FILL_FACTOR), at least one record. *)
PerPage == Larger(1, (Capacity * 3) \div 4)

(* Mutant of SortedRows: the overflow records are appended, not merged. *)
AppendedRows ==
  LET live   == Live
      copies == [k \in Keys |-> Cardinality({rid \in live : Fetch(rid) = k})]
  IN  {t \in [1..Cardinality(live) -> Keys] :
         \A k \in Keys : Cardinality({i \in DOMAIN t : t[i] = k}) = copies[k]}

(* The live records of the two files, in key order. *)
SortedRows ==
  LET live   == Live
      copies == [k \in Keys |-> Cardinality({rid \in live : Fetch(rid) = k})]
  IN  {t \in [1..Cardinality(live) -> Keys] :
         /\ \A i, j \in DOMAIN t : i <= j => t[i] <= t[j]
         /\ \A k \in Keys : Cardinality({i \in DOMAIN t : t[i] = k}) = copies[k]}

(* _rewrite: per_page records to a block, and at least one block. *)
PagesFor(t) == Larger(1, (Len(t) + PerPage - 1) \div PerPage)
Rewritten(t) ==
  [p \in 1..PagesFor(t) |->
     SubSeq(t, (p - 1) * PerPage + 1, Smaller(p * PerPage, Len(t)))]

Reorganize ==
  /\ Ordered
  /\ open
  /\ \E t \in SortedRows : main' = Rewritten(t)
  /\ fill' = <<>>
  /\ tail' = NoTail
  /\ dirty' = FALSE
  /\ UNCHANGED open

(* The process dies inside reorganize, after n blocks of the new main file
   were written: the old main file is gone, and so may be the overflow.    *)
CrashInReorganize ==
  /\ Ordered
  /\ open
  /\ Cardinality(Live) <= MaxRows
  /\ \E t \in SortedRows : \E n \in 0..PagesFor(t) : main' = SubSeq(Rewritten(t), 1, n)
  /\ fill' = FlushedFill
  /\ tail' = NoTail
  /\ dirty' = FALSE
  /\ open' = FALSE

(* The process dies between two operations and a new one starts. *)
Restart ==
  /\ open
  /\ tail' = NoTail
  /\ dirty' = FALSE
  /\ open' = FALSE
  /\ UNCHANGED <<main, fill>>

Next ==
  \/ CreateTable
  \/ DropTable
  \/ \E k \in Keys : Insert(k)
  \/ Flush
  \/ \E rid \in Live : Delete(rid)
  \/ Reorganize
  \/ CrashInReorganize
  \/ Restart

Spec == Init /\ [][Next]_vars

-----------------------------------------------------------------------------
(* Properties.                                                             *)

(* Every variable holds what its comment says: pages of at most Capacity
   slots, a resident page with an id, no main file for a HEAP table.       *)
TypeOK ==
  /\ main \in Seq(Page)
  /\ fill \in Seq(Page)
  /\ tail \in [id : Nat \cup {-1}, slots : Page]
  /\ dirty \in BOOLEAN
  /\ open \in BOOLEAN

(* The resident page is the last one of the fill file or the next one to be
   written, in which case it is still dirty; when it is clean it equals its
   block.  A closed table buffers nothing.  (insert, flush, _open_tail and
   _new_tail, which never pre-allocates the block.)                        *)
TailPlaced ==
  /\ tail = NoTail => ~dirty
  /\ tail # NoTail =>
       /\ open
       /\ tail.id \in {Len(fill) - 1, Len(fill)} \cap Nat
       /\ tail.id = Len(fill) => dirty
       /\ ~dirty => fill[tail.id + 1] = tail.slots
  /\ ~Ordered => main = <<>>

(* What a restart would find: the files without the resident page. *)
OnDisk(rid) ==
  LET page == IF IsFill(rid[1]) THEN ReadPage(fill, FillIndex(rid[1])) ELSE ReadPage(main, rid[1])
  IN  IF rid[2] \in 0..(Len(page) - 1) THEN page[rid[2] + 1] ELSE Hole

DiskPageIds == {FillId(i - 1) : i \in DOMAIN fill}
                 \cup (IF Ordered THEN {i - 1 : i \in DOMAIN main} ELSE {})
DiskRids    == DiskPageIds \X (0..(Capacity - 1))

(* The table as the storage port sees it. *)
Rows    == [rid \in Live |-> Fetch(rid)]
Durable == [rid \in {r \in DiskRids : OnDisk(r) # Hole} |-> OnDisk(rid)]

Port == INSTANCE StoredTable WITH
          rows <- Rows, durable <- Durable, saved <- ~dirty, issued <- Issued

(* The paged store implements the storage port: rows keep their RIDs, an RID
   is not reused, deleting one row disturbs no other, what flush made durable
   survives a restart, and reorganize keeps the multiset of rows.          *)
PortSpec == Port!Spec

(* The main file stays ordered by key, page after page, whatever is deleted
   from it: the binary descent of search_key and range_key relies on it.   *)
MainRows == {rid \in Live : ~IsFill(rid[1])}
Before(r, q) == r[1] < q[1] \/ (r[1] = q[1] /\ r[2] < q[2])
MainOrdered ==
  \A r, q \in MainRows : Before(r, q) => Fetch(r) <= Fetch(q)

(* An RID keeps naming its row until that row is deleted, and a deleted row's
   RID stays empty, as long as the table is neither closed nor reorganized
   (port.py: a RID is stable until the record is deleted or the table is
   reorganized).                                                           *)
Kept(rid) ==
  /\ rid \in Issued'
  /\ Fetch(rid)' \in {Fetch(rid), Hole}
RidsKept == open /\ open' /\ ~Reorganize => \A rid \in Issued : Kept(rid)
RidsStable == [][RidsKept]_vars

=============================================================================
