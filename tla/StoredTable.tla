---------------------------- MODULE StoredTable ----------------------------
(***************************************************************************)
(* What the storage port promises the query engine about one table         *)
(* (queryengine/storage/port.py, class StorageEngine): a table is a        *)
(* function from RIDs to rows, an RID is stable until its row is deleted   *)
(* or the table is reorganized, and flush makes what was buffered durable. *)
(*                                                                         *)
(* The module knows nothing of pages.  TableStore implements it, and so    *)
(* does MemoryStore, for as long as its process lives.                    *)
(***************************************************************************)
EXTENDS Integers, FiniteSets

CONSTANT Keys   \* the rows; a row is represented by its primary key

VARIABLES
  rows,     \* RID -> row: what fetch answers
  durable,  \* RID -> row: what a restart would find on disk
  saved,    \* nothing is buffered: the table and the disk agree
  issued    \* every RID handed out since the file was last laid out anew

vars == <<rows, durable, saved, issued>>

Empty      == [x \in {} |-> 0]
Drop(f, r) == [x \in DOMAIN f \ {r} |-> f[x]]
Values(f)  == {f[x] : x \in DOMAIN f}

(* How many rows of f carry key k: the multiset of rows, one key at a time. *)
CopiesOf(f, k) == Cardinality({x \in DOMAIN f : f[x] = k})
SameRows(f, g) == \A k \in Keys : CopiesOf(f, k) = CopiesOf(g, k)

Init ==
  /\ rows = Empty
  /\ durable = Empty
  /\ saved = TRUE
  /\ issued = {}

(* A new row gets an RID that was never handed out before.  It is buffered,
   and making room for it may push the rows buffered so far to disk; or, in a
   write-through store, it is where it stays at once.                      *)
Insert ==
  \E r \in DOMAIN rows' \ issued :
    /\ rows'[r] \in Keys
    /\ Drop(rows', r) = rows
    /\ issued' = issued \cup {r}
    /\ \/ durable' \in {durable, rows} /\ saved' = FALSE
       \/ durable' = rows' /\ UNCHANGED saved

(* The row goes and its RID is not reused; the deletion is buffered or not. *)
Delete ==
  \E r \in DOMAIN rows \ DOMAIN rows' :
    /\ rows' = Drop(rows, r)
    /\ \/ durable' = durable /\ saved' = FALSE
       \/ durable' = Drop(durable, r) /\ UNCHANGED saved
    /\ UNCHANGED issued

Flush ==
  /\ durable' = rows
  /\ saved' = TRUE
  /\ UNCHANGED <<rows, issued>>

(* Every row survives under a new RID, and is durable at once.  Only a table
   that was reorganized forgets which RIDs it had handed out.              *)
Reorganize ==
  /\ SameRows(rows, rows')
  /\ durable' = rows'
  /\ saved' = TRUE
  /\ issued' = DOMAIN rows'

(* The process dies: what was not flushed is lost, nothing else. *)
Restart ==
  /\ rows' = durable
  /\ saved' = TRUE
  /\ UNCHANGED durable
  /\ DOMAIN durable \subseteq issued'
  /\ issued' \subseteq issued

(* The process dies while the table is being laid out anew: no promise is
   made but that no row is invented.                                       *)
RestartInReorganize ==
  /\ Values(rows') \subseteq Values(rows)
  /\ durable' = rows'
  /\ saved' = TRUE
  /\ DOMAIN rows' \subseteq issued'

DropTable ==
  /\ rows' = Empty
  /\ durable' = Empty
  /\ saved' = TRUE
  /\ issued' = {}

Next ==
  \/ Insert
  \/ Delete
  \/ Flush
  \/ Reorganize
  \/ Restart
  \/ RestartInReorganize
  \/ DropTable

Spec == Init /\ [][Next]_vars

=============================================================================
