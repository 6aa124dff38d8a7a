---------------------------- MODULE MemoryStore ----------------------------
(***************************************************************************)
(* The stand-in for the disk layer (queryengine/storage/memory.py): one    *)
(* table of MemoryTableStore and one BTREE index of MemoryIndexStore over  *)
(* its primary key, as the engine keeps them: a row goes to the table and  *)
(* then to the index.  Ordered access takes slices of `order` at places    *)
(* that bisect finds in `keys`, a list kept beside it.                     *)
(*                                                                         *)
(* The catalog is on disk and everything else here is not: a process that  *)
(* starts has the table and the name of the index, and nothing in them     *)
(* (bootstrap.py).                                                         *)
(***************************************************************************)
EXTENDS Integers, SequencesExt

CONSTANTS
  Keys,       \* primary keys, integers; a row is represented by its key
  PerPage,    \* records_per_page, at least 1
  None,       \* Python's None: no bound
  MaxSlots    \* bound: slots handed out

VARIABLES
  ordered,     \* the table is SEQUENTIAL; its definition says so for good
  records,     \* RID -> row
  order,       \* the RIDs: in key order, or as they came
  keys,        \* the keys of `order`, when the table is SEQUENTIAL
  overflow,    \* RIDs placed between others since the last reorganization
  slots,       \* _next_slot
  named,       \* the catalog has the index
  index        \* what MemoryIndexStore._indexes has under its name, or NoIndex

memoryVars == <<ordered, records, order, keys, overflow, slots, named, index>>

Rid(slot)  == <<slot \div PerPage, slot % PerPage>>
SlotOf(r)  == r[1] * PerPage + r[2]

(* bisect: the place before, and the place after, the entries equal to k. *)
BisectBefore(s, k) ==   \* mutant: bisect_left for bisect_right
  Cardinality({i \in DOMAIN s : s[i] < k})
BisectLeft(s, k)  == Cardinality({i \in DOMAIN s : s[i] < k})
BisectRight(s, k) == Cardinality({i \in DOMAIN s : s[i] <= k})

(* An index: the RIDs of each key, as they came, and its keys in order. *)
NoIndex    == [entries |-> <<>>, keys |-> <<>>, built |-> FALSE]
EmptyIndex == [NoIndex EXCEPT !.built = TRUE]
Bucket(ix, k) == IF k \in DOMAIN ix.entries THEN ix.entries[k] ELSE <<>>

IndexWith(ix, k, r) ==
  [ix EXCEPT !.entries = [x \in DOMAIN @ \cup {k} |-> IF x = k THEN Append(Bucket(ix, k), r) ELSE @[x]],
             !.keys = IF Bucket(ix, k) = <<>> THEN InsertAt(@, BisectRight(@, k) + 1, k) ELSE @]

(* list.remove: without the first entry that is r, if there is one. *)
Without(s, r) ==
  IF r \in ToSet(s)
    THEN RemoveAt(s, CHOOSE i \in DOMAIN s : s[i] = r /\ \A j \in 1..(i - 1) : s[j] # r)
    ELSE s

(* Mutant of IndexWithout: a bucket that gets empty stays. *)
IndexWithEmptied(ix, k, r) ==
  IF Bucket(ix, k) = <<>> THEN ix ELSE [ix EXCEPT !.entries[k] = Without(Bucket(ix, k), r)]

IndexWithout(ix, k, r) ==
  LET left  == Without(Bucket(ix, k), r)
      place == BisectLeft(ix.keys, k) + 1
  IN  IF Bucket(ix, k) = <<>> THEN ix
      ELSE IF left # <<>> THEN [ix EXCEPT !.entries[k] = left]
      ELSE [ix EXCEPT !.entries = [x \in DOMAIN @ \ {k} |-> @[x]],
                      !.keys = IF place <= Len(@) /\ @[place] = k THEN RemoveAt(@, place) ELSE @]

-----------------------------------------------------------------------------
MemoryInit ==
  /\ ordered \in BOOLEAN
  /\ records = <<>>
  /\ order = <<>>
  /\ keys = <<>>
  /\ overflow = {}
  /\ slots = 0
  /\ named = FALSE
  /\ index = NoIndex

(* INSERT: allocate and place, then the index.  Without one that is built the
   index raises, and the row stays.                                        *)
Insert(k) ==
  /\ slots < MaxSlots
  /\ LET r     == Rid(slots)
         place == BisectRight(keys, k) + 1
     IN  /\ records' = [q \in DOMAIN records \cup {r} |-> IF q = r THEN k ELSE records[q]]
         /\ IF ordered
              THEN /\ keys' = InsertAt(keys, place, k)
                   /\ order' = InsertAt(order, place, r)
                   /\ overflow' = overflow \cup (IF place <= Len(order) THEN {r} ELSE {})
              ELSE /\ order' = Append(order, r)
                   /\ UNCHANGED <<keys, overflow>>
         /\ index' = IF index.built THEN IndexWith(index, k, r) ELSE index
  /\ slots' = slots + 1
  /\ UNCHANGED named

Delete(r) ==
  /\ LET place == CHOOSE i \in DOMAIN order : order[i] = r
     IN  /\ order' = RemoveAt(order, place)
         /\ keys' = IF ordered THEN RemoveAt(keys, place) ELSE keys
  /\ overflow' = overflow \ {r}
  /\ records' = [q \in DOMAIN records \ {r} |-> records[q]]
  /\ index' = IF index.built THEN IndexWithout(index, records[r], r) ELSE index
  /\ UNCHANGED <<slots, named>>

(* The rows sorted by key; those with one key in the order they were placed.
   They keep their RIDs.                                                   *)
SortedBefore(q, r) ==
  records[q] < records[r] \/ (records[q] = records[r] /\ SlotOf(q) < SlotOf(r))

Reorganize ==
  /\ ordered
  /\ order' \in {s \in SetToSeqs(DOMAIN records) :
                  \A i, j \in DOMAIN s : i < j => SortedBefore(s[i], s[j])}
  /\ keys' = [i \in DOMAIN order' |-> records[order'[i]]]
  /\ overflow' = {}
  /\ UNCHANGED <<records, slots, named, index>>

(* bulk_load takes what the scan yields, one row at a time. *)
Loaded ==
  LET load[n \in 0..Len(order)] ==
        IF n = 0 THEN EmptyIndex ELSE IndexWith(load[n - 1], records[order[n]], order[n])
  IN  load[Len(order)]

CreateIndex ==
  /\ ~named
  /\ named' = TRUE
  /\ index' = Loaded
  /\ UNCHANGED <<records, order, keys, overflow, slots>>

DropIndex ==
  /\ named
  /\ named' = FALSE
  /\ index' = NoIndex
  /\ UNCHANGED <<records, order, keys, overflow, slots>>

(* create_table, whatever was there under the name. *)
NewTable ==
  /\ records' = <<>>
  /\ order' = <<>>
  /\ keys' = <<>>
  /\ overflow' = {}
  /\ slots' = 0
  /\ index' = NoIndex

(* ... and CREATE TABLE again. *)
DropTable ==
  /\ NewTable
  /\ named' = FALSE

(* The process ends; a new one creates the tables of the catalog, empty. *)
StartAgain ==
  /\ NewTable
  /\ UNCHANGED named

MemoryNext ==
  /\ \/ \E k \in Keys : Insert(k)
     \/ \E r \in DOMAIN records : Delete(r)
     \/ Reorganize
     \/ CreateIndex
     \/ DropIndex
     \/ DropTable
     \/ StartAgain
  /\ UNCHANGED ordered

-----------------------------------------------------------------------------
(* slice_by_key and range_search. *)

Bounds == Keys \cup {None}
Start(s, lower) == IF lower = None THEN 0 ELSE BisectLeft(s, lower)
End(s, upper)   == IF upper = None THEN Len(s) ELSE BisectRight(s, upper)

Slice(lower, upper) == SubSeq(order, Start(keys, lower) + 1, End(keys, upper))
Between(lower, upper) ==   \* the keys of the index in a range
  SubSeq(index.keys, Start(index.keys, lower) + 1, End(index.keys, upper))
RangeSearch(lower, upper) ==
  LET ks == Between(lower, upper)
      found[n \in 0..Len(ks)] == IF n = 0 THEN <<>> ELSE found[n - 1] \o index.entries[ks[n]]
  IN  found[Len(ks)]

(* The rows between two bounds, each once and in key order. *)
IsRange(rids, lower, upper) ==
  /\ IsInjective(rids)
  /\ ToSet(rids) = {r \in DOMAIN records : /\ lower = None \/ records[r] >= lower
                                           /\ upper = None \/ records[r] <= upper}
  /\ \A i, j \in DOMAIN rids : i < j => records[rids[i]] <= records[rids[j]]

(* search_key and range_key of a SEQUENTIAL table return the rows between the
   bounds, in key order, whatever inserts, deletes and reorganizations came
   before: `keys` and `order` never part.                                  *)
SlicesExact ==
  ordered => \A lower, upper \in Bounds : IsRange(Slice(lower, upper), lower, upper)

(* An index that answers has the rows of the table and no other, each key in
   its place; after a restart it does not answer, until it is created again. *)
MemoryIndexExact ==
  index.built => \A lower, upper \in Bounds : IsRange(RangeSearch(lower, upper), lower, upper)
=============================================================================
