---------------------------- MODULE MCTableStore ----------------------------
(***************************************************************************)
(* The kinds of table behind the storage port in one state space: a        *)
(* behaviour is that of a HEAP table or of a SEQUENTIAL one, with the disk *)
(* backend (TableStore) or in memory (MemoryStore), each with bounds of    *)
(* its own.                                                                *)
(***************************************************************************)
EXTENDS Integers

CONSTANTS
  Keys, Hole, Capacity, None,
  HeapPages, HeapRows,             \* bounds of the HEAP table
  OverflowPages, SequentialRows,   \* bounds of the SEQUENTIAL table
  MemorySlots                      \* bound of the tables in memory

ASSUME RowsAssumption ==
  Keys \subseteq Int /\ Hole \notin Keys /\ Capacity \in Nat \ {0}
ASSUME HeapBoundsAssumption == HeapPages \in Nat \ {0} /\ HeapRows \in Nat
ASSUME SequentialBoundsAssumption == OverflowPages \in Nat \ {0} /\ SequentialRows \in Nat

VARIABLES
  main, fill, tail, dirty, open,
  ordered, records, order, keys, overflow, slots, named, index,
  memory   \* the memory backend keeps the table

diskVars   == <<main, fill, tail, dirty, open>>
memoryVars == <<ordered, records, order, keys, overflow, slots, named, index>>
vars       == <<diskVars, memoryVars, memory>>

Heap == INSTANCE TableStoreProofs WITH
          Ordered <- FALSE, MaxPages <- HeapPages, MaxRows <- HeapRows
Sequential == INSTANCE TableStoreProofs WITH
          Ordered <- TRUE, MaxPages <- OverflowPages, MaxRows <- SequentialRows
Memory == INSTANCE MemoryStore WITH
          PerPage <- Capacity, MaxSlots <- MemorySlots

Init ==
  /\ memory \in BOOLEAN
  /\ Heap!Init
  /\ Memory!MemoryInit

Next ==
  /\ UNCHANGED memory
  /\ \/ ~memory /\ ~ordered /\ Heap!Next /\ UNCHANGED memoryVars
     \/ ~memory /\ ordered /\ Sequential!Next /\ UNCHANGED memoryVars
     \/ memory /\ Memory!MemoryNext /\ UNCHANGED diskVars

Spec == Init /\ [][Next]_vars

-----------------------------------------------------------------------------
(* Ordered access to a table in memory returns the rows between its bounds. *)
SlicesExact == Memory!SlicesExact

(* An index in memory that answers has the rows of the table and no other. *)
MemoryIndexExact == Memory!MemoryIndexExact

(* The table, whichever store keeps it: what an RID names, what a restart
   finds, and the RIDs handed out.                                         *)
TableRows    == IF memory THEN records
                ELSE IF ordered THEN Sequential!Rows ELSE Heap!Rows
TableDurable == IF memory THEN records
                ELSE IF ordered THEN Sequential!Durable ELSE Heap!Durable
TableIssued  == IF memory THEN {Memory!Rid(n) : n \in 0..(slots - 1)}
                ELSE IF ordered THEN Sequential!Issued ELSE Heap!Issued

(* Both stores implement the storage port (StoredTable).  A restart is a table
   that was dropped to the port, when the table was in memory.             *)
Port == INSTANCE StoredTable WITH
          rows <- TableRows, durable <- TableDurable, saved <- ~dirty, issued <- TableIssued
PortSpec == Port!Spec
=============================================================================
