--------------------------- MODULE StorageService ---------------------------
(***************************************************************************)
(* The record endpoints of the storage service (src/storage/main.py) over  *)
(* one file of slotted pages.  The endpoints are plain functions, so       *)
(* requests run in the threads of a pool, with one DiskManager and no lock: *)
(* between the read and the write of a page, or between the size of the    *)
(* file and the block written there, any other request may take a step.    *)
(* Reading and writing one block are atomic.                               *)
(*                                                                         *)
(* A page is the sequence of its records, or Unformatted: a page of zeros  *)
(* has no free space, so an insert into it is refused.                     *)
(***************************************************************************)
EXTENDS Integers, Sequences

CONSTANTS
  Clients,         \* threads that serve a request each
  Records,         \* contents of a record
  PageCapacity,    \* records of a page
  Unformatted,     \* a page that was allocated and has no header yet
  MaxServicePages  \* bound: pages of the file

ASSUME PageCapacityAssumption == PageCapacity \in Nat
ASSUME UnformattedAssumption  == Unformatted \notin Seq(Records)

VARIABLES
  blocks,   \* the file: page id p is at p + 1
  call,     \* client -> the request it serves, or NoCall
  settled   \* history: <<page, slot, record>> of inserts that no other request overlapped

serviceVars == <<blocks, call, settled>>

(* `alone`: so far, no other request for the page was under way with this one. *)
NoCall == [op |-> "none"]
Allocating(p, zeroed) == [op |-> "allocate", page |-> p, zeroed |-> zeroed, alone |-> TRUE]
Inserting(p, seen, r) == [op |-> "insert", page |-> p, seen |-> seen, record |-> r, alone |-> TRUE]

Pages == 0..(Len(blocks) - 1)
Block(p) == blocks[p + 1]
WriteBlock(p, page) ==
  blocks' = IF p = Len(blocks) THEN Append(blocks, page) ELSE [blocks EXCEPT ![p + 1] = page]

UnderWay(c, p) == call[c] # NoCall /\ call[c].page = p

(* A request for page p starts at c: it is alone if no other is under way, and
   those that are no longer are.                                           *)
Begins(c, p, request) ==
  call' = [d \in Clients |->
             IF d = c
               THEN [request EXCEPT !.alone = \A e \in Clients \ {c} : ~UnderWay(e, p)]
             ELSE IF UnderWay(d, p) THEN [call[d] EXCEPT !.alone = FALSE]
             ELSE call[d]]
Ends(c) == call' = [call EXCEPT ![c] = NoCall]

-----------------------------------------------------------------------------
ServiceInit ==
  /\ blocks = <<>>
  /\ call = [c \in Clients |-> NoCall]
  /\ settled = {}

LastPageId == IF blocks = <<>> THEN 0 ELSE Len(blocks) - 1   \* mutant: off by one
NewPageId == Len(blocks)

(* POST /pages/allocate: the size of the file names the new page, ... *)
StartAllocate(c) ==
  /\ call[c] = NoCall
  /\ NewPageId < MaxServicePages
  /\ Begins(c, NewPageId, Allocating(NewPageId, FALSE))
  /\ UNCHANGED <<blocks, settled>>

(* ... a block of zeros is written there, ... *)
ZeroPage(c) ==
  /\ call[c].op = "allocate"
  /\ ~call[c].zeroed
  /\ WriteBlock(call[c].page, Unformatted)
  /\ call' = [call EXCEPT ![c].zeroed = TRUE]
  /\ UNCHANGED settled

(* ... and then an empty page. *)
FormatPage(c) ==
  /\ call[c].op = "allocate"
  /\ call[c].zeroed
  /\ WriteBlock(call[c].page, <<>>)
  /\ Ends(c)
  /\ UNCHANGED settled

HasRoom(page) == Len(page) < PageCapacity

(* POST /records: the page is read, ...  A page that is not there, is not
   formatted or is full is refused, with nothing changed.                  *)
StartInsert(c, p, r) ==
  /\ call[c] = NoCall
  /\ p \in Pages
  /\ Block(p) # Unformatted
  /\ HasRoom(Block(p))
  /\ Begins(c, p, Inserting(p, Block(p), r))
  /\ UNCHANGED <<blocks, settled>>

(* ... and written with the record in the next slot, whose address is returned. *)
FinishInsert(c) ==
  /\ call[c].op = "insert"
  /\ WriteBlock(call[c].page, Append(call[c].seen, call[c].record))
  /\ Ends(c)
  /\ settled' = IF call[c].alone
                THEN settled \cup {<<call[c].page, Len(call[c].seen) + 1, call[c].record>>}
                ELSE settled

(* The service stops, whatever it was doing, and starts again. *)
StopService ==
  /\ call' = [c \in Clients |-> NoCall]
  /\ UNCHANGED <<blocks, settled>>

ServiceNext ==
  \/ \E c \in Clients :
       \/ StartAllocate(c)
       \/ ZeroPage(c)
       \/ FormatPage(c)
       \/ \E p \in Pages, r \in Records : StartInsert(c, p, r)
       \/ FinishInsert(c)
  \/ StopService

ServiceSpec == ServiceInit /\ [][ServiceNext]_serviceVars

-----------------------------------------------------------------------------
(* Properties.                                                             *)

Page == {s \in Seq(Records) : Len(s) <= PageCapacity} \cup {Unformatted}
Request ==
  {NoCall}
  \cup [op : {"allocate"}, page : Nat, zeroed : BOOLEAN, alone : BOOLEAN]
  \cup [op : {"insert"}, page : Nat, alone : BOOLEAN, record : Records,
        seen : {s \in Seq(Records) : Len(s) < PageCapacity}]

(* No page holds more than fits, and a request is for a page of the file or,
   before the zeros are written, for the next one.                         *)
ServiceTypeOK ==
  /\ blocks \in Seq(Page)
  /\ call \in [Clients -> Request]
  /\ \A c \in Clients :
       /\ call[c].op = "insert" => call[c].page < Len(blocks)
       /\ call[c].op = "allocate" => IF call[c].zeroed THEN call[c].page < Len(blocks)
                                                       ELSE call[c].page <= Len(blocks)
  /\ settled \subseteq Nat \X (Nat \ {0}) \X Records

(* GET /records/{page_id}/{slot_number}: the exact bytes of a record, by its RID. *)
Fetches(page, slot, r) == page # Unformatted /\ slot \in DOMAIN page /\ page[slot] = r

(* A record inserted while no other request for its page was under way is
   found at its RID ever after: whatever requests overlap later, and wherever
   the service stops, only overlapping inserts can lose each other's records. *)
SettledRecordsStay ==
  \A s \in settled : s[1] \in Pages /\ Fetches(Block(s[1]), s[2], s[3])
=============================================================================
