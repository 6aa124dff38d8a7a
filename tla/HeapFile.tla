------------------------------ MODULE HeapFile ------------------------------
(***************************************************************************)
(* The heap file of the storage service (src/storage/heap_file.py): records *)
(* are added to the last page, and a removed record is replaced by the last *)
(* one of the file.  Both may write two pages, one after the other with no *)
(* log, and the process may stop between the two.                          *)
(*                                                                         *)
(* A record is its id; ids may repeat.  The page links next and prev are   *)
(* left out: nothing reads them.                                           *)
(***************************************************************************)
EXTENDS Integers, FiniteSets, SequencesExt

CONSTANTS
  Ids,          \* record ids
  Capacity,     \* max_records of a page, at least one
  MaxPages,     \* bound: pages of the file, past which no insert starts
  MaxStops      \* bound: times the process stops inside a call

VARIABLES
  pages,    \* the file: page id -> [id, records]
  coming,   \* the states of the file that the call under way has still to write
  job,      \* the call under way: <<"insert" or "remove", id>>, or NoJob
  stored,   \* history until torn: id -> how many records of it calls left, or a restart found
  torn,     \* history: a stop has left a page of zeros at the end
  stops     \* history: how often the process stopped inside a call

vars == <<pages, coming, job, stored, torn, stops>>

NoJob == <<>>
Node(id, records) == [id |-> id, records |-> records]
Zero == Node(0, <<>>)   \* a page of zeros is an empty node with id 0

Count(file)       == Cardinality(DOMAIN file)
LastPage(file)    == file[Count(file) - 1]
With(file, p, n)  == [q \in DOMAIN file \cup {p} |-> IF q = p THEN n ELSE file[q]]
Put(file, node)   == With(file, node.id, node)   \* _write_node: where its id says
Allocated(file)   == With(file, Count(file), Zero)

(* What reading the whole file finds, and where. *)
Places(file)      == UNION {{<<p, i>> : i \in DOMAIN file[p].records} : p \in DOMAIN file}
RecordAt(file, x) == file[x[1]].records[x[2]]
PlacesOf(file, k) == {x \in Places(file) : RecordAt(file, x) = k}
Content(file)     == [k \in Ids |-> Cardinality(PlacesOf(file, k))]

-----------------------------------------------------------------------------
(* search: the first place of k in the order of pages and slots. *)
PagesWith(k) == {p \in DOMAIN pages : k \in ToSet(pages[p].records)}
Search(k) ==
  LET p == Min(PagesWith(k))
  IN  IF PagesWith(k) = {} THEN <<>>
      ELSE <<p, Min({i \in DOMAIN pages[p].records : pages[p].records[i] = k})>>

RoomForOneMore(node) == Len(node.records) <= Capacity   \* mutant: off by one
HasRoom(node) == Len(node.records) < Capacity

(* A full last page is written again, for its link, before the new page is. *)
Insertions(k) ==
  LET node  == LastPage(pages)
      grown == Put(Allocated(pages), node)
  IN  IF HasRoom(node) THEN <<Put(pages, [node EXCEPT !.records = Append(@, k)])>>
      ELSE <<Allocated(pages), grown, Put(grown, Node(Count(pages), <<k>>))>>

(* The last page with a record; the removed record is in that page or before. *)
LastUsed == Max({p \in DOMAIN pages : p = 0 \/ pages[p].records # <<>>})

ClearedFirst(target, at, last) ==   \* mutant: the last record is taken out before it is written again
  LET cleared == Put(pages, [last EXCEPT !.records = Front(@)])
  IN  <<cleared, Put(cleared, [target EXCEPT !.records[at] = Last(last.records)])>>
LeftBehind(target, at, last) ==   \* mutant: the last record stays in its old place too
  <<Put(pages, [target EXCEPT !.records[at] = Last(last.records)])>>
(* Move the last: into the place of the removed record, then out of its own. *)
MovedFirst(target, at, last) ==
  LET moved == Put(pages, [target EXCEPT !.records[at] = Last(last.records)])
  IN  <<moved, Put(moved, [last EXCEPT !.records = Front(@)])>>

Removals(k) ==
  LET place == Search(k)
      last  == pages[LastUsed]
  IN  IF place[1] = LastUsed
      THEN <<Put(pages, [last EXCEPT !.records = Front(ReplaceAt(@, place[2], Last(@)))])>>
      ELSE MovedFirst(pages[place[1]], place[2], last)

-----------------------------------------------------------------------------
Idle == coming = <<>>

Init ==   \* the constructor has written page 0
  /\ pages = [p \in {0} |-> Node(0, <<>>)]
  /\ coming = <<>>
  /\ job = NoJob
  /\ stored = [k \in Ids |-> 0]
  /\ torn = FALSE
  /\ stops = 0

StartInsert(k) ==
  /\ Idle
  /\ Count(pages) < MaxPages \/ HasRoom(LastPage(pages))
  /\ coming' = Insertions(k)
  /\ job' = <<"insert", k>>
  /\ UNCHANGED <<pages, stored, torn, stops>>

StartRemove(k) ==
  /\ Idle
  /\ Search(k) # <<>>
  /\ coming' = Removals(k)
  /\ job' = <<"remove", k>>
  /\ UNCHANGED <<pages, stored, torn, stops>>

(* One page reaches the file; with the last one, the call returns. *)
WritePage ==
  /\ coming # <<>>
  /\ pages' = Head(coming)
  /\ coming' = Tail(coming)
  /\ IF coming' # <<>> THEN UNCHANGED <<job, stored>>
     ELSE /\ job' = NoJob
          /\ stored' = IF torn THEN stored
                       ELSE [stored EXCEPT ![job[2]] = @ + (IF job[1] = "insert" THEN 1 ELSE -1)]
  /\ UNCHANGED <<torn, stops>>

(* The process stops; the next one takes the file as it is. *)
Stop ==
  /\ coming # <<>>
  /\ stops < MaxStops
  /\ stops' = stops + 1
  /\ coming' = <<>>
  /\ job' = NoJob
  /\ stored' = Content(pages)
  /\ torn' = (torn \/ LastPage(pages).id # Count(pages) - 1)
  /\ UNCHANGED pages

Next ==
  \/ \E k \in Ids : StartInsert(k) \/ StartRemove(k)
  \/ WritePage
  \/ Stop

Spec == Init /\ [][Next]_vars

-----------------------------------------------------------------------------
(* Properties.                                                             *)

(* Pages fit in a block and are numbered without a gap; the steps of a call
   end with the call.                                                      *)
TypeOK ==
  /\ DOMAIN pages = 0..(Count(pages) - 1)
  /\ \A p \in DOMAIN pages : /\ pages[p].records \in Seq(Ids)
                             /\ Len(pages[p].records) <= Capacity
                             /\ pages[p].records # <<>> => pages[p].id = p
  /\ (coming = <<>>) = (job = NoJob)
  /\ stored \in [Ids -> Nat]
  /\ torn \in BOOLEAN /\ stops \in 0..MaxStops

(* Between calls the file holds the records inserted and not removed, each as
   often as that, whichever record a remove moved and into which page, and
   also after a remove that was cut short and left a record twice.         *)
ContentExact == ~torn /\ Idle => Content(pages) = stored

(* The records that are left whatever becomes of the call under way. *)
Wanted == [k \in Ids |-> stored[k] - (IF job = <<"remove", k>> THEN 1 ELSE 0)]

(* At every write, a process that starts from the file finds every record but
   the one being removed, and one more at most: a remove that is cut short has
   written the last record in its new place and not yet cleared the old one. *)
NoRecordLost ==
  ~torn =>
    LET found == Content(pages)
    IN  /\ \A k \in Ids : Wanted[k] <= found[k] /\ found[k] <= Wanted[k] + 1
        /\ \A k, m \in Ids : found[k] > Wanted[k] /\ found[m] > Wanted[m] => k = m
=============================================================================
