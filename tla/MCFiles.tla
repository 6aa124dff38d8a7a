------------------------------- MODULE MCFiles -------------------------------
(***************************************************************************)
(* The physical layer in one state space: a behaviour is that of the       *)
(* record endpoints of the storage service, of the hash service, of a      *)
(* B+ tree, of a heap file or of a sequential file, and the other four     *)
(* stay as they start.                                                     *)
(***************************************************************************)
EXTENDS StorageService, HashService, TLC

CONSTANTS
  Keys, Rids, LeafCapacity, InternalCapacity, TreePages, TreeStops,   \* the B+ tree
  Ids, RecordsPerPage,     \* the heap file and the sequential file
  HeapPages,               \* bound: pages of the heap file
  SequentialRecords,       \* bound: records of the sequential file
  HeapStops, SequentialStops

ASSUME TreeAssumption ==
  /\ Keys \subseteq Int /\ -1 \notin Rids   \* no address is that of no row
  /\ LeafCapacity \in Nat \ {0} /\ InternalCapacity \in Nat \ {0} /\ TreeStops \in Nat
ASSUME HeapAssumption == RecordsPerPage \in Nat \ {0} /\ HeapStops \in Nat
ASSUME SequentialAssumption == Ids \subseteq Int /\ SequentialStops \in Nat

VARIABLES
  kind,
  treePages, treeWrites, treeJob, treeStored, treeStops,
  heapPages, heapComing, heapJob, heapStored, heapTorn, heapStops,
  seqDisk, seqComing, seqJob, seqStored, seqTorn, seqStops

Tree == INSTANCE BPlusTreeProofs WITH
          MaxPages <- TreePages, MaxStops <- TreeStops,
          pages <- treePages, writes <- treeWrites, job <- treeJob, stored <- treeStored,
          stops <- treeStops
Heap == INSTANCE HeapFileProofs WITH
          Capacity <- RecordsPerPage, MaxPages <- HeapPages, MaxStops <- HeapStops,
          pages <- heapPages, coming <- heapComing, job <- heapJob, stored <- heapStored,
          torn <- heapTorn, stops <- heapStops
Sequential == INSTANCE SequentialFileProofs WITH
          Keys <- Ids, Capacity <- RecordsPerPage, MaxRecords <- SequentialRecords,
          MaxStops <- SequentialStops,
          disk <- seqDisk, coming <- seqComing, job <- seqJob, stored <- seqStored,
          torn <- seqTorn, stops <- seqStops

treeVars  == <<treePages, treeWrites, treeJob, treeStored, treeStops>>
heapVars  == <<heapPages, heapComing, heapJob, heapStored, heapTorn, heapStops>>
seqVars   == <<seqDisk, seqComing, seqJob, seqStored, seqTorn, seqStops>>
filesVars == <<serviceVars, treeVars, heapVars, seqVars, hashServiceVars, kind>>

FilesInit ==
  /\ kind \in {"service", "hash service", "tree", "heap", "sequential"}
  /\ ServiceInit /\ HashServiceInit /\ Tree!Init /\ Heap!Init /\ Sequential!Init

FilesNext ==
  /\ UNCHANGED kind
  /\ \/ /\ kind = "service" /\ ServiceNext
        /\ UNCHANGED <<treeVars, heapVars, seqVars, hashServiceVars>>
     \/ /\ kind = "hash service" /\ HashServiceNext
        /\ UNCHANGED <<serviceVars, treeVars, heapVars, seqVars>>
     \/ /\ kind = "tree" /\ Tree!Next
        /\ UNCHANGED <<serviceVars, heapVars, seqVars, hashServiceVars>>
     \/ /\ kind = "heap" /\ Heap!Next
        /\ UNCHANGED <<serviceVars, treeVars, seqVars, hashServiceVars>>
     \/ /\ kind = "sequential" /\ Sequential!Next
        /\ UNCHANGED <<serviceVars, treeVars, heapVars, hashServiceVars>>

FilesSpec == FilesInit /\ [][FilesNext]_filesVars

(* Threads, names and contents of records are only compared. *)
Symmetry == Permutations(Clients) \cup Permutations(Names) \cup Permutations(Records)

-----------------------------------------------------------------------------
(* In every file, pages fit in a block and point to pages that exist, and a
   call only has pages of its file before it.                              *)
FilesTypeOK == ServiceTypeOK /\ Tree!TypeOK /\ Heap!TypeOK /\ Sequential!TypeOK

(* search finds exactly the keys inserted and not removed since. *)
TreeSearchExact == Tree!SearchExact
(* rangeSearch returns, in key order, each key stored between its bounds. *)
TreeRangeExact == Tree!RangeExact
(* All leaves are at one depth and linked both ways. *)
TreeBalanced == Tree!TreeBalanced
(* At every write of an insert, every key can be looked up in the file. *)
TreeReadableAtEveryWrite == Tree!ReadableAtEveryWrite

(* Between calls a heap file holds the records inserted and not removed. *)
HeapContentExact == Heap!ContentExact
(* At every write, a heap file has every record but the one being removed. *)
HeapNoRecordLost == Heap!NoRecordLost

(* The main area is in key order, in every state and after every stop. *)
SequentialMainOrdered == Sequential!MainOrdered
(* Between calls the two areas hold the records inserted, each as often. *)
SequentialContentExact == Sequential!ContentExact
(* search finds exactly what is stored, from the least key of the main area on. *)
SequentialSearchExact == Sequential!SearchExact
(* At every write of an insert or a reorganization, no record is lost. *)
SequentialNoRecordLost == Sequential!NoRecordLost
=============================================================================
