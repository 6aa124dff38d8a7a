--------------------------- MODULE SequentialFile ---------------------------
(***************************************************************************)
(* The sequential file of the storage service                              *)
(* (src/storage/sequential_file.py): a main area in key order, filled page *)
(* by page, and an overflow area whose records are chained from the record *)
(* of the main area before them.  A reorganization merges the two.         *)
(*                                                                         *)
(* A call reads what it needs first and then writes pages, one after the   *)
(* other with no log; the process may stop between two of them.  The page  *)
(* links next and prev are left out: nothing reads them.                   *)
(***************************************************************************)
EXTENDS Integers, FiniteSets, SequencesExt

CONSTANTS
  Keys,         \* record ids, integers; they may repeat
  Capacity,     \* max_records of a page, at least one
  MaxRecords,   \* bound: records of both areas, past which no insert starts
  MaxStops      \* bound: times the process stops inside a call

VARIABLES
  disk,     \* [main, over]: each area a function from page id to [id, records]
  coming,   \* the states of the disk that the call under way has still to write
  job,      \* the key being inserted, Merge for a reorganization, or NoJob
  stored,   \* history until torn: key -> how many records of it calls left, or a restart found
  torn,     \* history: a stop has left a chain without its end or a page of zeros
  stops     \* history: how often the process stopped inside a call

vars == <<disk, coming, job, stored, torn, stops>>

NoJob   == <<>>
Merge   == <<"reorganize">>
Nowhere == <<-1, -1>>   \* no next record in overflow; else <<page id, slot>>, slots from 1

Node(id, records) == [id |-> id, records |-> records]
Record(k, next)   == [key |-> k, next |-> next]
Zero              == Node(0, <<>>)   \* a page of zeros is an empty node with id 0

Count(file)      == Cardinality(DOMAIN file)
With(file, p, n) == [q \in DOMAIN file \cup {p} |-> IF q = p THEN n ELSE file[q]]
Put(file, node)  == With(file, node.id, node)   \* _write_node: where its id says
Allocated(file)  == With(file, Count(file), Zero)

(* What reading both areas finds, and where. *)
Places(file)      == UNION {{<<p, i>> : i \in DOMAIN file[p].records} : p \in DOMAIN file}
RecordAt(file, x) == file[x[1]].records[x[2]]
PlacesOf(file, k) == {x \in Places(file) : RecordAt(file, x).key = k}
Content(d) ==
  [k \in Keys |-> Cardinality(PlacesOf(d.main, k)) + Cardinality(PlacesOf(d.over, k))]

(* The records of an area, read page by page. *)
RecordsOf(file) ==
  LET read[n \in 0..Count(file)] ==
        IF n = 0 THEN <<>> ELSE read[n - 1] \o file[n - 1].records
  IN  read[Count(file)]

-----------------------------------------------------------------------------
(* Looking for a key.                                                      *)

(* One pass of the halving: the pages from l to r are left, and found is the
   last page known to start with a key that is not greater than k.  An empty
   page counts as greater.                                                 *)
Pass(k, s) ==
  LET mid     == (s.l + s.r) \div 2
      records == disk.main[mid].records
  IN  IF s.l > s.r THEN s
      ELSE IF records # <<>> /\ records[1].key <= k
        THEN [l |-> mid + 1, r |-> s.r, found |-> mid]
        ELSE [l |-> s.l, r |-> mid - 1, found |-> s.found]

(* The last page of the main area whose first key is not greater; a pass for
   each page is more than enough.                                          *)
BinarySearchPage(k) ==
  LET after[n \in 0..Count(disk.main)] ==
        IF n = 0 THEN [l |-> 0, r |-> Count(disk.main) - 1, found |-> 0]
        ELSE Pass(k, after[n - 1])
  IN  after[Count(disk.main)].found

(* One step along a chain: s.places are passed, and s.at is next.  The chain ends
   where there is no next record, or one in a slot that is not there.      *)
Follow(s) ==
  IF s.at = Nowhere \/ s.at[2] > Len(disk.over[s.at[1]].records) THEN s
  ELSE [places |-> Append(s.places, s.at), at |-> RecordAt(disk.over, s.at).next]

(* The places of the chain from `from`.  One that has more places than there
   are records never ends.                                                 *)
Chain(from) ==
  LET total == Len(RecordsOf(disk.over))
      after[n \in 0..(total + 1)] ==
        IF n = 0 THEN [places |-> <<>>, at |-> from] ELSE Follow(after[n - 1])
  IN  after[total + 1].places

Below(records, k) == {i \in DOMAIN records : records[i].key < k}
ChainBelow(records, k) ==
  IF Below(records, k) = {} THEN Nowhere ELSE records[Max(Below(records, k))].next

(* search: in the page of the main area, or in the chain of the last record
   before k in it.                                                         *)
SearchFinds(k) ==
  LET records == disk.main[BinarySearchPage(k)].records
  IN  \/ \E i \in DOMAIN records : records[i].key = k
      \/ \E place \in ToSet(Chain(ChainBelow(records, k))) :
           disk.over[place[1]].records[place[2]].key = k
SearchEnds(k) ==
  Len(Chain(ChainBelow(disk.main[BinarySearchPage(k)].records, k))) <= Len(RecordsOf(disk.over))

-----------------------------------------------------------------------------
(* The writes of an insert.                                                *)

Full(records) == Len(records) >= Capacity

Appended(records, r) == Append(records, r)   \* mutant: the page is not sorted again

(* append and a stable sort: after the records with the same key *)
Placed(records, r) ==
  InsertAt(records, Cardinality({i \in DOMAIN records : records[i].key <= r.key}) + 1, r)

NewestOnly(records, at, k, place) ==   \* mutant: the new record does not take over the chain
  <<[records EXCEPT ![at].next = place], Record(k, Nowhere)>>

(* The record at `at` of the main area is followed by the new one, and that
   one by what followed before.                                            *)
Linked(records, at, k, place) ==
  <<[records EXCEPT ![at].next = place], Record(k, records[at].next)>>

(* A full page: the record goes to the last page of overflow, or to a new one,
   and the main area is written first.  A key below every key of the page is
   chained from the first record.                                          *)
OverflowWrites(node, k) ==
  LET last   == disk.over[Count(disk.over) - 1]
      full   == Full(last.records)
      grown  == IF full THEN Allocated(disk.over) ELSE disk.over
      target == IF full THEN Node(Count(disk.over), <<>>) ELSE last
      at     == IF Below(node.records, k) = {} THEN 1 ELSE Max(Below(node.records, k))
      linked == Linked(node.records, at, k, <<target.id, Len(target.records) + 1>>)
      main   == Put(disk.main, Node(node.id, linked[1]))
  IN  (IF full THEN <<[main |-> disk.main, over |-> grown]>> ELSE <<>>)
      \o <<[main |-> main, over |-> grown],
           [main |-> main, over |-> Put(grown, Node(target.id, Append(target.records, linked[2])))]>>

Insertions(k) ==
  LET node == disk.main[BinarySearchPage(k)]
  IN  IF ~Full(node.records)
      THEN <<[disk EXCEPT !.main = Put(@, Node(node.id, Placed(node.records, Record(k, Nowhere))))]>>
      ELSE OverflowWrites(node, k)

-----------------------------------------------------------------------------
(* The writes of a reorganization.                                         *)

FillFactor == Max({1, (Capacity * 3) \div 4})

(* A stable sort, one record after the other. *)
Sorted(records) ==
  LET sorted[n \in 0..Len(records)] ==
        IF n = 0 THEN <<>> ELSE Placed(sorted[n - 1], records[n])
  IN  sorted[Len(records)]

(* merge_generator: s.m records of the main area and s.o of overflow have been
   given out; the next is the main area's when the keys are equal.         *)
Yield(main, over, s) ==
  LET m == s.m + 1
      o == s.o + 1
  IN  IF m > Len(main) \/ (o <= Len(over) /\ over[o].key < main[m].key)
      THEN [m |-> s.m, o |-> o, out |-> Append(s.out, over[o])]
      ELSE [m |-> m, o |-> s.o, out |-> Append(s.out, main[m])]
NothingYet == [m |-> 0, o |-> 0, out |-> <<>>]

UntilMainEnds(main, over) ==   \* mutant: what is left of overflow is forgotten
  LET after[n \in 0..(Len(main) + Len(over))] ==
        IF n = 0 THEN NothingYet
        ELSE IF after[n - 1].m = Len(main) THEN after[n - 1] ELSE Yield(main, over, after[n - 1])
  IN  after[Len(main) + Len(over)].out
MergedRecords(main, over) ==
  LET after[n \in 0..(Len(main) + Len(over))] ==
        IF n = 0 THEN NothingYet ELSE Yield(main, over, after[n - 1])
  IN  after[Len(main) + Len(over)].out

(* The main area as it stands and overflow sorted, with the chains undone. *)
Merged ==
  LET all == MergedRecords(RecordsOf(disk.main), Sorted(RecordsOf(disk.over)))
  IN  [i \in DOMAIN all |-> Record(all[i].key, Nowhere)]

(* Pages of at most `fill` records; one page of zeros when there is none. *)
Paged(records, fill) ==
  LET pages == (Len(records) + fill - 1) \div fill
  IN  [p \in 0..Max({0, pages - 1}) |->
        Node(p, SubSeq(records, p * fill + 1, Min({(p + 1) * fill, Len(records)})))]

EmptiedFirst ==   \* mutant: the overflow area is emptied before the main one is replaced
  LET main  == Paged(Merged, FillFactor)
      empty == [p \in 0..0 |-> Zero]
  IN  <<[disk EXCEPT !.over = empty], [main |-> main, over |-> empty]>>

(* The main area is replaced as a whole; then overflow is a page of zeros, and
   a second page is allocated and written.                                 *)
Reorganization ==
  LET main  == Paged(Merged, FillFactor)
      empty == [p \in 0..0 |-> Zero]
  IN  <<[disk EXCEPT !.main = main],
        [main |-> main, over |-> empty],
        [main |-> main, over |-> Allocated(empty)],
        [main |-> main, over |-> Put(Allocated(empty), Node(1, <<>>))]>>

-----------------------------------------------------------------------------
Idle == coming = <<>>

Init ==   \* the constructor has written the first page of both areas
  /\ disk = [main |-> [p \in 0..0 |-> Node(0, <<>>)], over |-> [p \in 0..0 |-> Node(0, <<>>)]]
  /\ coming = <<>>
  /\ job = NoJob
  /\ stored = [k \in Keys |-> 0]
  /\ torn = FALSE
  /\ stops = 0

StartInsert(k) ==
  /\ Idle
  /\ Len(RecordsOf(disk.main)) + Len(RecordsOf(disk.over)) < MaxRecords
  /\ coming' = Insertions(k)
  /\ job' = <<"insert", k>>
  /\ UNCHANGED <<disk, stored, torn, stops>>

(* Whatever was torn before, what is on disk is what will be merged. *)
StartReorganize ==
  /\ Idle
  /\ coming' = Reorganization
  /\ job' = Merge
  /\ stored' = IF torn THEN Content(disk) ELSE stored
  /\ UNCHANGED <<disk, torn, stops>>

(* One page reaches the disk; with the last one, the call returns. *)
WritePage ==
  /\ coming # <<>>
  /\ disk' = Head(coming)
  /\ coming' = Tail(coming)
  /\ IF coming' # <<>> THEN UNCHANGED <<job, stored, torn>>
     ELSE /\ job' = NoJob
          /\ torn' = (torn /\ job # Merge)
          /\ stored' = IF torn \/ job = Merge THEN stored ELSE [stored EXCEPT ![job[2]] = @ + 1]
  /\ UNCHANGED stops

(* A page of zeros that is not the first one, or a place that is not there. *)
Broken(d) ==
  \/ d.over[Count(d.over) - 1].id # Count(d.over) - 1
  \/ \E x \in Places(d.main) :
       LET place == RecordAt(d.main, x).next
       IN  place # Nowhere /\ place[2] > Len(d.over[place[1]].records)

(* The process stops; the next one takes the disk as it is. *)
Stop ==
  /\ coming # <<>>
  /\ stops < MaxStops
  /\ stops' = stops + 1
  /\ coming' = <<>>
  /\ job' = NoJob
  /\ stored' = Content(disk)
  /\ torn' = (torn \/ Broken(disk))
  /\ UNCHANGED disk

Next ==
  \/ \E k \in Keys : StartInsert(k)
  \/ StartReorganize
  \/ WritePage
  \/ Stop

Spec == Init /\ [][Next]_vars

-----------------------------------------------------------------------------
(* Properties.                                                             *)

IsArea(file, over) ==
  /\ DOMAIN file = 0..(Count(file) - 1)
  /\ \A p \in DOMAIN file : Len(file[p].records) <= Capacity
  /\ \A x \in Places(file) :
       LET r == RecordAt(file, x)
       IN  r.key \in Keys /\ (r.next = Nowhere \/ r.next[1] \in DOMAIN over)

(* Pages fit in a block and are numbered without a gap, and a record names
   pages of overflow that exist; the steps of a call end with the call.    *)
TypeOK ==
  /\ IsArea(disk.main, disk.over) /\ IsArea(disk.over, disk.over)
  /\ (coming = <<>>) = (job = NoJob)
  /\ stored \in [Keys -> Nat]
  /\ torn \in BOOLEAN /\ stops \in 0..MaxStops

(* What the halving relies on, in every state and after every stop: the main
   area is in key order, and only its first page can be empty.             *)
Before(x, y) == x[1] < y[1] \/ (x[1] = y[1] /\ x[2] < y[2])
MainOrdered ==
  /\ \A x, y \in Places(disk.main) :
       Before(x, y) => RecordAt(disk.main, x).key <= RecordAt(disk.main, y).key
  /\ \A p \in DOMAIN disk.main \ {0} : disk.main[p].records # <<>>

AtRest == ~torn /\ Idle

(* Between calls the two areas hold the records inserted, each as often as it
   was, after a stop in between and after a reorganization of what it left. *)
ContentExact == AtRest => Content(disk) = stored

(* search ends, and finds exactly the keys that are stored, for every key from
   the least one of the main area on: through chains that later inserts grew
   in the middle, and after a reorganization that repaired a torn chain.
   The keys below are those of OverflowIsFollowed.                         *)
Least == IF disk.main[0].records = <<>> THEN 0 ELSE disk.main[0].records[1].key
SearchExact ==
  AtRest => \A k \in Keys :
    Least <= k => SearchEnds(k) /\ (SearchFinds(k) <=> stored[k] > 0)

(* At every write of an insert or a reorganization, each record is in one of
   the areas, so that a reorganization can bring it back: a stop loses none. *)
NoRecordLost ==
  ~torn \/ job = Merge => \A k \in Keys : Content(disk)[k] >= stored[k]

(* sequential_file.py: a key that is not in the page of the main area is looked
   for along the chain of overflow.                                        *)
OverflowIsFollowed == AtRest => \A k \in Keys : stored[k] > 0 => SearchFinds(k)
=============================================================================
