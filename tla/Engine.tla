------------------------------- MODULE Engine -------------------------------
(***************************************************************************)
(* The statements of QueryEngine (queryengine/engine.py) on one table with *)
(* indexes over its integer primary key, with the disk backend: the table  *)
(* is TableStore's; an index is a B+ tree (diskindex.py) or an extendible  *)
(* hash (diskhash.py), reached through RoutingIndexStore (routing.py), and *)
(* there is one of each at most; the catalog remembers table and indexes   *)
(* across restarts.                                                        *)
(*                                                                         *)
(* INSERT, COPY (loader.py) and DELETE treat one row at a time, its table  *)
(* first and then each index in the order of their names, and have no way  *)
(* back: `stmt` is the statement under way, one step per row, then a       *)
(* flush.  Statements run one at a time, and a process may die between two *)
(* steps.  Names are left out, so the indexes may come in either order.    *)
(***************************************************************************)
EXTENDS TableSearch

CONSTANT MaxRowsPerInsert   \* bound: rows in one INSERT or COPY

VARIABLES
  table,    \* the catalog has the table
  index,    \* the kinds of the indexes the catalog has
  opened,   \* the kinds whose index has a route in RoutingIndexStore._routes
  file,     \* entries <<key, rid>> of the .idx and of the .hash file
  stmt      \* the statement under way, or how the last one ended

engineVars == <<main, fill, tail, dirty, open, table, index, opened, file, stmt>>

Kinds   == {"BTREE", "HASH"}
Ok      == [op |-> "OK"]
Failed  == [op |-> "FAILED"]

Idle == stmt.op \in {"OK", "FAILED"}

EngineInit ==
  /\ Init
  /\ table = FALSE
  /\ index = {}
  /\ opened = {}
  /\ file = [k \in Kinds |-> {}]
  /\ stmt = Ok

(* What a scan of the table yields.  _scan_overflow reads the file, not the
   page in memory, so rows not yet flushed are missing from it.            *)
Scanned == IF Ordered THEN Durable ELSE Rows
ScanPosition(p) == IF p < 0 THEN Len(main) + OverflowIndex(p) ELSE p
ScannedBefore(q, r) ==
  \/ ScanPosition(q[1]) < ScanPosition(r[1])
  \/ q[1] = r[1] /\ q[2] < r[2]

-----------------------------------------------------------------------------
(* Tables.                                                                 *)

CreateTableStatement ==
  /\ Idle
  /\ ~table
  /\ CreateTable
  /\ table' = TRUE
  /\ UNCHANGED <<index, opened, file, stmt>>

(* The indexes that answer. *)
Usable == index \cap opened

Emptied(kinds) == [k \in Kinds |-> IF k \in kinds THEN {} ELSE file[k]]

(* drop_index of the router: a file goes only if its index is open. *)
DropTableStatement ==
  /\ Idle
  /\ table
  /\ DropTable
  /\ table' = FALSE
  /\ index' = {}
  /\ opened' = opened \ index
  /\ file' = Emptied(Usable)
  /\ stmt' = Ok

(* The process dies inside DROP TABLE, which removes the index files, then
   the table from the catalog, then the main file and the overflow.  A table
   created again under the name attaches to what is left.                  *)
CrashInDropTable ==
  /\ Idle
  /\ open
  /\ \/ /\ \E gone \in SUBSET Usable : file' = Emptied(gone)
        /\ UNCHANGED <<main, table, index>>
     \/ /\ file' = Emptied(Usable)
        /\ main' \in {main, <<>>}
        /\ table' = FALSE
        /\ index' = {}
  /\ tail' = NoTail
  /\ dirty' = FALSE
  /\ open' = FALSE
  /\ opened' = {}
  /\ stmt' = Ok
  /\ UNCHANGED fill

(* A process that starts attaches to the tables of the catalog; nothing
   attaches to its indexes.                                                *)
Bootstrap ==
  /\ table
  /\ CreateTable
  /\ UNCHANGED <<table, index, opened, file, stmt>>

(* Between two steps; TableStore's CrashInReorganize is left to its own runs. *)
Crash ==
  /\ Restart
  /\ opened' = {}
  /\ stmt' = Ok
  /\ UNCHANGED <<table, index, file>>

ReorganizeTable ==
  /\ Idle
  /\ Reorganize
  /\ stmt' = Ok
  /\ UNCHANGED <<table, index, opened, file>>

(* A SELECT that descends the ordered file flushes first; others only read. *)
SelectOrdered ==
  /\ Idle
  /\ Ordered
  /\ Flush
  /\ UNCHANGED <<table, index, opened, file, stmt>>

-----------------------------------------------------------------------------
(* Indexes.                                                                *)

HasKey(entries, k) == \E e \in entries : e[1] = k

(* Mutant of BulkLoaded: whatever the file holds stays, and every row is added. *)
BulkLoadedTwice(kind) == file[kind] \cup {<<Scanned[r], r>> : r \in DOMAIN Scanned}

(* DiskIndexStore opens the .idx file that is there, and the tree keeps the
   first entry of each key; DiskHashIndex starts from a new file.          *)
BulkLoaded(kind) ==
  IF kind = "HASH" THEN {<<Scanned[r], r>> : r \in DOMAIN Scanned}
  ELSE file["BTREE"] \cup
       {<<Scanned[r], r>> : r \in
          {q \in DOMAIN Scanned :
             /\ ~HasKey(file["BTREE"], Scanned[q])
             /\ \A o \in DOMAIN Scanned :
                  Scanned[o] = Scanned[q] => ~ScannedBefore(o, q)}}

(* The hash cannot pack the negative page of an overflow row. *)
Loadable(kind) == kind = "HASH" => \A r \in DOMAIN Scanned : r[1] >= 0

CreateIndex(kind) ==
  /\ Idle
  /\ open
  /\ kind \notin index
  /\ Loadable(kind)
  /\ index' = index \cup {kind}
  /\ opened' = opened \cup {kind}
  /\ file' = [file EXCEPT ![kind] = BulkLoaded(kind)]
  /\ UNCHANGED <<main, fill, tail, dirty, open, table, stmt>>

(* The rows of the main file come first; the catalog forgets the index, its
   file and the route to it stay.                                          *)
CreateIndexFails(kind) ==
  /\ Idle
  /\ open
  /\ kind \notin index
  /\ ~Loadable(kind)
  /\ opened' = opened \cup {kind}
  /\ file' = [file EXCEPT ![kind] = {e \in BulkLoaded(kind) : e[2][1] >= 0}]
  /\ UNCHANGED <<main, fill, tail, dirty, open, table, index, stmt>>

DropIndex(kind) ==
  /\ Idle
  /\ open
  /\ kind \in index
  /\ index' = index \ {kind}
  /\ opened' = opened \ {kind}
  /\ file' = Emptied(Usable \cap {kind})
  /\ UNCHANGED <<main, fill, tail, dirty, open, table, stmt>>

-----------------------------------------------------------------------------
(* INSERT and COPY.                                                        *)

Inserting == stmt.op \in {"INSERT", "COPY"}

StartInsert(op, ks) ==
  /\ Idle
  /\ open
  /\ Cardinality(Live) + Len(ks) <= MaxRows
  /\ OpenedTail.id * Capacity + Len(OpenedTail.slots) + Len(ks) <= MaxPages * Capacity
  /\ stmt' = [op |-> op, keys |-> ks]
  /\ UNCHANGED <<main, fill, tail, dirty, open, table, index, opened, file>>

(* Not open in this process; a key the tree has; an RID the hash cannot pack. *)
IndexRefuses(kind, k, rid) ==
  \/ kind \notin opened
  \/ kind = "BTREE" /\ HasKey(file["BTREE"], k)
  \/ kind = "HASH" /\ rid[1] < 0

FileWith(kinds, k, rid) ==
  [x \in Kinds |-> IF x \in kinds THEN file[x] \cup {<<k, rid>>} ELSE file[x]]

(* The row is placed before the indexes are asked.  The first that refuses
   ends the statement; those asked before it have the entry.               *)
InsertRow ==
  /\ Inserting
  /\ stmt.keys # <<>>
  /\ Insert(Head(stmt.keys))
  /\ LET k       == Head(stmt.keys)
         rid     == <<FillId(tail'.id), Len(tail'.slots) - 1>>
         refuse  == {kind \in index : IndexRefuses(kind, k, rid)}
     IN  IF refuse = {}
           THEN stmt' = [stmt EXCEPT !.keys = Tail(@)] /\ file' = FileWith(index, k, rid)
           ELSE stmt' = Failed /\ \E asked \in SUBSET (index \ refuse) :
                                     file' = FileWith(asked, k, rid)
  /\ UNCHANGED <<table, index, opened>>

(* A later row is refused before it is placed.  INSERT fails, and so does COPY
   when too many rows were refused; the rows placed stay, with no flush.   *)
RejectRow ==
  /\ Inserting
  /\ stmt.keys # <<>>
  /\ stmt' = Failed
  /\ UNCHANGED <<main, fill, tail, dirty, open, table, index, opened, file>>

(* COPY counts the row and reads the next one. *)
SkipRejectedRow ==
  /\ stmt.op = "COPY"
  /\ stmt.keys # <<>>
  /\ stmt' = [stmt EXCEPT !.keys = Tail(@)]
  /\ UNCHANGED <<main, fill, tail, dirty, open, table, index, opened, file>>

(* Mutant of FinishInsert: the statement ends without a flush. *)
FinishInsertUnflushed ==
  /\ Inserting
  /\ stmt.keys = <<>>
  /\ stmt' = Ok
  /\ UNCHANGED <<main, fill, tail, dirty, open, table, index, opened, file>>

FinishInsert ==
  /\ Inserting
  /\ stmt.keys = <<>>
  /\ Flush
  /\ stmt' = Ok
  /\ UNCHANGED <<table, index, opened, file>>

-----------------------------------------------------------------------------
(* DELETE ... WHERE key = k, and the rows a SELECT with that WHERE returns. *)

ScanRids(k) == {r \in DOMAIN Scanned : Scanned[r] = k}
IndexRids(kind, k) ==
  {e[2] : e \in {x \in file[kind] : x[1] = k /\ Fetch(x[2]) # Hole}}

(* The rows are collected before the first one is deleted. *)
StartDelete(doomed) == stmt' = [op |-> "DELETE", doomed |-> doomed]

DeleteByScan(k) ==
  /\ Idle
  /\ open
  /\ StartDelete({<<r, Scanned[r]>> : r \in ScanRids(k)})
  /\ UNCHANGED <<main, fill, tail, dirty, open, table, index, opened, file>>

(* A stale entry leads to whatever row is at its RID now. *)
DeleteByIndex(kind, k) ==
  /\ Idle
  /\ open
  /\ kind \in Usable
  /\ StartDelete({<<r, Fetch(r)>> : r \in IndexRids(kind, k)})
  /\ UNCHANGED <<main, fill, tail, dirty, open, table, index, opened, file>>

DeleteBySearch(k) ==
  /\ Idle
  /\ Ordered
  /\ Flush
  /\ StartDelete({<<r, Fetch(r)>> : r \in SearchKey(k)})
  /\ UNCHANGED <<table, index, opened, file>>

(* Mutant of FileWithout: the entry of a deleted row stays in the tree. *)
FileWithoutHash(kinds, k, rid) == [file EXCEPT !["HASH"] = @ \ {<<k, rid>>}]

FileWithout(kinds, k, rid) ==
  [x \in Kinds |-> IF x \in kinds THEN file[x] \ {<<k, rid>>} ELSE file[x]]

(* An index that is not open ends the statement, the row being gone. *)
DeleteRow(d) ==
  /\ Delete(d[1])
  /\ IF index \subseteq opened
       THEN stmt' = [stmt EXCEPT !.doomed = @ \ {d}] /\ file' = FileWithout(index, d[2], d[1])
       ELSE stmt' = Failed /\ \E asked \in SUBSET Usable : file' = FileWithout(asked, d[2], d[1])
  /\ UNCHANGED <<table, index, opened>>

(* storage.delete returns False: the row was already gone. *)
SkipRow(d) ==
  /\ d[1] \notin Live
  /\ stmt' = [stmt EXCEPT !.doomed = @ \ {d}]
  /\ UNCHANGED <<main, fill, tail, dirty, open, table, index, opened, file>>

FinishDelete ==
  /\ stmt.op = "DELETE"
  /\ stmt.doomed = {}
  /\ Flush
  /\ stmt' = Ok
  /\ UNCHANGED <<table, index, opened, file>>

EngineNext ==
  \/ CreateTableStatement
  \/ DropTableStatement
  \/ CrashInDropTable
  \/ Bootstrap
  \/ Crash
  \/ ReorganizeTable
  \/ SelectOrdered
  \/ \E kind \in Kinds : CreateIndex(kind) \/ CreateIndexFails(kind) \/ DropIndex(kind)
  \/ \E n \in 1..MaxRowsPerInsert : \E ks \in [1..n -> Keys], op \in {"INSERT", "COPY"} :
       StartInsert(op, ks)
  \/ InsertRow
  \/ RejectRow
  \/ SkipRejectedRow
  \/ FinishInsert
  \/ \E k \in Keys : DeleteByScan(k) \/ DeleteBySearch(k)
  \/ \E kind \in Kinds, k \in Keys : DeleteByIndex(kind, k)
  \/ stmt.op = "DELETE" /\ \E d \in stmt.doomed : DeleteRow(d) \/ SkipRow(d)
  \/ FinishDelete

EngineSpec == EngineInit /\ [][EngineNext]_engineVars

-----------------------------------------------------------------------------
(* Properties.                                                             *)

RowEntries == {<<Fetch(r), r>> : r \in Live}
IsExact(kind) == file[kind] = RowEntries

(* Every variable has its type, only a table of the catalog is open, and the
   file of a tree maps a key to one address: whatever it was loaded from, an
   .idx file that an earlier process left too, no key has two entries.      *)
EngineTypeOK ==
  /\ TypeOK
  /\ table \in BOOLEAN
  /\ index \subseteq Kinds
  /\ opened \subseteq Kinds
  /\ open => table
  /\ \A k \in Kinds : \A e \in file[k] : e[1] \in Keys
  /\ \A e, f \in file["BTREE"] : e[1] = f[1] => e = f
  /\ stmt.op \in {"OK", "FAILED", "INSERT", "COPY", "DELETE"}

(* On a HEAP table an open hash never leads from a key to a row with another
   one: not after a statement that an index stopped half way, after a crash
   whose lost rows gave their RIDs back, nor with a file left by the process
   that died.                                                              *)
HashNeverMisleads ==
  open /\ "HASH" \in Usable /\ ~Ordered =>
    \A e \in file["HASH"] : Fetch(e[2]) \in {e[1], Hole}

(* Once an open index has exactly the rows of the table, only a statement that
   fails or a reorganization makes them differ: every INSERT, COPY and DELETE
   that succeeds keeps each index equal to the table row by row, whatever the
   other index does and whatever path found the rows.  CREATE INDEX makes a
   hash on a HEAP table such an index, whatever rows it finds.             *)
IndexFollows ==
  open' => \A kind \in Usable' :
    (IF kind \in Usable THEN open /\ IsExact(kind) ELSE kind = "HASH" /\ ~Ordered) =>
      \/ IsExact(kind)'
      \/ stmt'.op = "FAILED" /\ kind \in Usable
      \/ ReorganizeTable
IndexKept == [][IndexFollows]_engineVars

(* What an INSERT, a COPY or a DELETE that succeeded did survives the process
   (the engine's _flush: "make buffered pages durable"), even when rows that
   an earlier failed statement left in memory were waiting.                *)
DurableAfterSuccess == stmt.op = "OK" => Rows = Durable

(* planner.py: "the plan is correct regardless of which path wins".  An index
   that had exactly the rows of the table still leads to them, and to no other
   row, after the table is reorganized.                                    *)
PathsAgree(kind) == \A k \in Keys : IndexRids(kind, k) = ScanRids(k)
ReorganizeKeepsPaths ==
  [][ReorganizeTable /\ open =>
       \A kind \in Usable : IsExact(kind) => PathsAgree(kind)']_engineVars

=============================================================================
