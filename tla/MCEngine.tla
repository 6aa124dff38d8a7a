------------------------------ MODULE MCEngine ------------------------------
(***************************************************************************)
(* Statements on a HEAP table or on a SEQUENTIAL one, each kind with bounds *)
(* of its own, in one state space.  The properties are Engine's, for the   *)
(* kind at hand; what is proved of Engine is instantiated with it.         *)
(***************************************************************************)
EXTENDS Integers

CONSTANTS
  Keys, Hole, Capacity,
  HeapPages, HeapRows, HeapRowsPerInsert,                   \* bounds of the HEAP table
  OverflowPages, SequentialRows, SequentialRowsPerInsert    \* bounds of the SEQUENTIAL table

ASSUME RowsAssumption ==
  Keys \subseteq Int /\ Hole \notin Keys /\ Capacity \in Nat \ {0}
ASSUME HeapBoundsAssumption == HeapPages \in Nat \ {0} /\ HeapRows \in Nat
ASSUME SequentialBoundsAssumption == OverflowPages \in Nat \ {0} /\ SequentialRows \in Nat

VARIABLES main, fill, tail, dirty, open, table, index, opened, file, stmt, ordered

enginesVars == <<main, fill, tail, dirty, open, table, index, opened, file, stmt, ordered>>

Heap == INSTANCE EngineProofs WITH
          Ordered <- FALSE, MaxPages <- HeapPages, MaxRows <- HeapRows,
          MaxRowsPerInsert <- HeapRowsPerInsert
Sequential == INSTANCE EngineProofs WITH
          Ordered <- TRUE, MaxPages <- OverflowPages, MaxRows <- SequentialRows,
          MaxRowsPerInsert <- SequentialRowsPerInsert

EnginesInit ==
  /\ ordered \in BOOLEAN
  /\ Heap!EngineInit

EnginesNext ==
  /\ UNCHANGED ordered
  /\ \/ ~ordered /\ Heap!EngineNext
     \/ ordered /\ Sequential!EngineNext

EnginesSpec == EnginesInit /\ [][EnginesNext]_enginesVars

-----------------------------------------------------------------------------
(* Every variable has its type, and no key of a tree has two entries. *)
EngineTypeOK == IF ordered THEN Sequential!EngineTypeOK ELSE Heap!EngineTypeOK

(* An open hash on a HEAP table never leads from a key to a row with another. *)
HashNeverMisleads == ~ordered => Heap!HashNeverMisleads

(* What an INSERT or a DELETE that succeeded did survives the process. *)
DurableAfterSuccess ==
  IF ordered THEN Sequential!DurableAfterSuccess ELSE Heap!DurableAfterSuccess

(* An open index that has the rows of the table keeps having them, but for a
   statement that fails and a reorganization.                              *)
IndexKept == [][IF ordered THEN Sequential!IndexFollows ELSE Heap!IndexFollows]_enginesVars
=============================================================================
