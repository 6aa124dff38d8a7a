------------------------------ MODULE BPlusTree ------------------------------
(***************************************************************************)
(* One B+ tree file (src/storage/bplus_tree.py) over its pages, as         *)
(* DiskIndexStore uses it: unique keys, splits on the way up, removal that *)
(* leaves the leaf in place however empty.                                 *)
(*                                                                         *)
(* An insert reads the path it descends, and then writes pages one after   *)
(* the other with no log: `writes` are the page writes of the insert under *)
(* way that have not reached the file.  The process may stop at each.      *)
(* Nobody reads the tree between two of them, so what the file answers     *)
(* there is what a process that starts after such a stop would find.       *)
(***************************************************************************)
EXTENDS Integers, FiniteSets, SequencesExt

CONSTANTS
  Keys,               \* integers
  Rids,               \* addresses of rows
  LeafCapacity,       \* MAX_LEAF_KEYS, at least one
  InternalCapacity,   \* MAX_INTERNAL_KEYS, at least one
  MaxPages,           \* bound: pages of the file, past which no insert starts
  MaxStops            \* bound: times the process stops inside an insert

VARIABLES
  pages,    \* the file: page id -> node
  writes,   \* the page writes still to come: <<page id, node>>
  job,      \* the entry <<key, rid>> being inserted, or NoJob
  stored,   \* history: key -> rid, by the calls that returned
  stops     \* history: how often the process stopped inside an insert

vars == <<pages, writes, job, stored, stops>>

NoPage  == -1
NoJob   == <<>>
NoRid   == -1
Entry   == Keys \X Rids

Node(id, leaf, next, prev, keys, children, entries) ==
  [id |-> id, leaf |-> leaf, next |-> next, prev |-> prev,
   keys |-> keys, children |-> children, entries |-> entries]
Leaf(id, next, prev, entries) == Node(id, TRUE, next, prev, <<>>, <<>>, entries)
Internal(id, keys, children)  == Node(id, FALSE, NoPage, NoPage, keys, children, <<>>)

(* A page of zeros reads as a node that is no leaf and has page 0 for child;
   page 0 holds the id of the root where a node has its own.               *)
Zero       == Node(0, FALSE, 0, 0, <<>>, <<0>>, <<>>)
Meta(root) == [Zero EXCEPT !.id = root]

Root     == pages[0].id
NextPage == Cardinality(DOMAIN pages)

-----------------------------------------------------------------------------
(* Descending.                                                             *)

ChildIndexBeforeEqual(node, k) ==   \* mutant: a key equal to the separator goes left
  LET above == {i \in DOMAIN node.keys : k <= node.keys[i]}
  IN  IF above = {} THEN Len(node.children) ELSE Min(above)

(* The first child whose separator is greater than k, or the last one. *)
ChildIndex(node, k) ==
  LET above == {i \in DOMAIN node.keys : k < node.keys[i]}
  IN  IF above = {} THEN Len(node.children) ELSE Min(above)

Down(ids, k) ==
  LET node == pages[Last(ids)]
  IN  IF node.leaf THEN ids ELSE Append(ids, node.children[ChildIndex(node, k)])

(* The page ids from the root to the leaf of k.  A descent that comes back to
   a page never ends; it is cut after as many steps as there are pages.    *)
Path(k) ==
  LET after[n \in 0..NextPage] == IF n = 0 THEN <<Root>> ELSE Down(after[n - 1], k)
  IN  after[NextPage]

LeafOf(k)   == pages[Last(Path(k))]
Descends(k) == Root # NoPage => LeafOf(k).leaf

RidsIn(entries, k) == {entries[i][2] : i \in {j \in DOMAIN entries : entries[j][1] = k}}
Search(k) ==
  IF Root = NoPage \/ RidsIn(LeafOf(k).entries, k) = {} THEN NoRid
  ELSE LeafOf(k).entries[Min({i \in DOMAIN LeafOf(k).entries : LeafOf(k).entries[i][1] = k})][2]

(* rangeSearch: from the leaf of `low` along the chain of leaves, as far as the
   first key greater than `high`.                                          *)
Along(ids) ==
  LET next == pages[Last(ids)].next
  IN  IF next = NoPage THEN ids ELSE Append(ids, next)
Chain(first) ==
  LET after[n \in 0..NextPage] == IF n = 0 THEN <<first>> ELSE Along(after[n - 1])
  IN  after[NextPage]
EntriesOf(ids) ==
  LET read[n \in 0..Len(ids)] ==
        IF n = 0 THEN <<>> ELSE read[n - 1] \o pages[ids[n]].entries
  IN  read[Len(ids)]

UpTo(entries, high) ==
  LET past == {i \in DOMAIN entries : entries[i][1] > high}
  IN  IF past = {} THEN entries ELSE SubSeq(entries, 1, Min(past) - 1)
Taken(results, e, low) == IF low <= e[1] THEN Append(results, e) ELSE results
From(entries, low) ==
  LET results[n \in 0..Len(entries)] ==
        IF n = 0 THEN <<>> ELSE Taken(results[n - 1], entries[n], low)
  IN  results[Len(entries)]
RangeSearch(low, high) ==
  IF Root = NoPage THEN <<>>
  ELSE From(UpTo(EntriesOf(Chain(LeafOf(low).id)), high), low)

-----------------------------------------------------------------------------
(* The writes of an insert.                                                *)

Written(node) == <<node.id, node>>
Allocated(p)  == <<p, Zero>>

(* What _insert_rec hands to the parent: the separator and the new page, if
   the node was split, the writes so far and the next page of the file.    *)
NotSplit(ws, p)        == [writes |-> ws, next |-> p, split |-> FALSE]
Split(ws, p, key, new) == [writes |-> ws, next |-> p, split |-> TRUE, key |-> key, new |-> new]

Before(entries, k) == Cardinality({i \in DOMAIN entries : entries[i][1] < k})
WithEntry(leaf, e) ==
  [leaf EXCEPT !.entries = InsertAt(@, Before(@, e[1]) + 1, e)]

NeighbourUntouched(leaf, new) == <<>>   \* mutant: the next leaf still points back past the new one
(* The leaf after a split one points back to the new one. *)
NeighbourWrite(leaf, new) ==
  IF leaf.next = NoPage THEN <<>>
  ELSE <<Written([pages[leaf.next] EXCEPT !.prev = new])>>

LeafFitsOneMore(entries) == Len(entries) <= LeafCapacity + 1   \* mutant: off by one
LeafFits(entries) == Len(entries) <= LeafCapacity

RightHalfLast(leaf, new, entries) ==   \* mutant: the new leaf ends the chain
  Leaf(new, NoPage, leaf.id, entries)
RightHalf(leaf, new, entries) == Leaf(new, leaf.next, leaf.id, entries)

InsertInLeaf(leaf, e) ==
  LET full  == WithEntry(leaf, e)
      half  == Len(full.entries) \div 2
      new   == NextPage
      left  == [leaf EXCEPT !.entries = SubSeq(full.entries, 1, half), !.next = new]
      right == RightHalf(leaf, new, SubSeq(full.entries, half + 1, Len(full.entries)))
  IN  IF LeafFits(full.entries) THEN NotSplit(<<Written(full)>>, new)
      ELSE Split(<<Allocated(new)>> \o NeighbourWrite(leaf, new) \o <<Written(left), Written(right)>>,
                 new + 1, right.entries[1][1], new)

(* The parent of a node that was split takes the separator and the new page. *)
InsertInInternal(node, k, below) ==
  LET at       == ChildIndex(node, k)
      keys     == InsertAt(node.keys, at, below.key)
      children == InsertAt(node.children, at + 1, below.new)
      half     == Len(keys) \div 2
      new      == below.next
      left  == [node EXCEPT !.keys = SubSeq(keys, 1, half),
                            !.children = SubSeq(children, 1, half + 1)]
      right == Internal(new, SubSeq(keys, half + 2, Len(keys)),
                        SubSeq(children, half + 2, Len(children)))
  IN  IF ~below.split THEN below
      ELSE IF Len(keys) <= InternalCapacity
        THEN NotSplit(Append(below.writes, Written([node EXCEPT !.keys = keys, !.children = children])),
                      below.next)
      ELSE Split(below.writes \o <<Allocated(new), Written(left), Written(right)>>,
                 new + 1, keys[half + 1], new)

RootFirst(below) ==   \* mutant: page 0 names the new root before it is written
  <<Allocated(below.next), <<0, Meta(below.next)>>,
    Written(Internal(below.next, <<below.key>>, <<Root, below.new>>))>>

(* A root that was split gets a parent, and page 0 names it last. *)
NewRoot(below) ==
  <<Allocated(below.next),
    Written(Internal(below.next, <<below.key>>, <<Root, below.new>>)),
    <<0, Meta(below.next)>>>>

(* _insert_rec: from the leaf at the end of the path up to the root. *)
InsertAlong(path, e) ==
  LET returned[n \in 0..(Len(path) - 1)] ==
        IF n = 0 THEN InsertInLeaf(pages[Last(path)], e)
        ELSE InsertInInternal(pages[path[Len(path) - n]], e[1], returned[n - 1])
  IN  returned[Len(path) - 1]

InsertWrites(e) ==
  IF Root = NoPage
    THEN <<Allocated(NextPage), Written(Leaf(NextPage, NoPage, NoPage, <<e>>)), <<0, Meta(NextPage)>>>>
    ELSE LET top == InsertAlong(Path(e[1]), e)
         IN  IF top.split THEN top.writes \o NewRoot(top) ELSE top.writes

-----------------------------------------------------------------------------
(* Actions.                                                                *)

Idle == writes = <<>> /\ pages # <<>>

Init ==
  /\ pages = <<>>
  /\ writes = <<>>
  /\ job = NoJob
  /\ stored = <<>>
  /\ stops = 0

(* The constructor, on a file that has no page. *)
Create ==
  /\ pages = <<>>
  /\ writes = <<>>
  /\ writes' = <<Allocated(0), <<0, Meta(NoPage)>>>>
  /\ UNCHANGED <<pages, job, stored, stops>>

(* A key that is there is refused, and would not be written again.  On a tree
   whose descent never ends, the call does not return.                     *)
StartInsert(e) ==
  /\ Idle
  /\ NextPage <= MaxPages
  /\ Descends(e[1])
  /\ Search(e[1]) = NoRid
  /\ job' = e
  /\ writes' = InsertWrites(e)
  /\ UNCHANGED <<pages, stored, stops>>

With(f, k, v) == [x \in DOMAIN f \cup {k} |-> IF x = k THEN v ELSE f[x]]

(* One page reaches the file; with the last one, the call returns. *)
WritePage ==
  /\ writes # <<>>
  /\ pages' = With(pages, Head(writes)[1], Head(writes)[2])
  /\ writes' = Tail(writes)
  /\ IF writes' = <<>> /\ job # NoJob
       THEN stored' = With(stored, job[1], job[2]) /\ job' = NoJob
       ELSE UNCHANGED <<stored, job>>
  /\ UNCHANGED stops

(* The process stops and the next one opens the file as it is. *)
Stop ==
  /\ writes # <<>>
  /\ stops < MaxStops
  /\ writes' = <<>>
  /\ job' = NoJob
  /\ stops' = stops + 1
  /\ UNCHANGED <<pages, stored>>

(* The entry leaves its leaf; nothing is merged. *)
RemoveKey(k) ==
  /\ Idle
  /\ Root # NoPage
  /\ Descends(k)
  /\ \E i \in DOMAIN LeafOf(k).entries :
       /\ LeafOf(k).entries[i][1] = k
       /\ \A j \in 1..(i - 1) : LeafOf(k).entries[j][1] # k
       /\ pages' = With(pages, LeafOf(k).id, [LeafOf(k) EXCEPT !.entries = RemoveAt(@, i)])
  /\ stored' = [x \in DOMAIN stored \ {k} |-> stored[x]]
  /\ UNCHANGED <<writes, job, stops>>

Next ==
  \/ Create
  \/ \E e \in Entry : StartInsert(e)
  \/ WritePage
  \/ Stop
  \/ \E k \in Keys : RemoveKey(k)

Spec == Init /\ [][Next]_vars

-----------------------------------------------------------------------------
(* Properties.                                                             *)

PageIds == DOMAIN pages
IsNode(n) ==
  /\ n.leaf \in BOOLEAN
  /\ {n.next, n.prev} \subseteq PageIds \cup {NoPage}
  /\ n.leaf => n.entries \in Seq(Entry) /\ Len(n.entries) <= LeafCapacity
  /\ ~n.leaf => /\ n.keys \in Seq(Keys) /\ Len(n.keys) <= InternalCapacity
                /\ n.children \in Seq(PageIds) /\ Len(n.children) = Len(n.keys) + 1

(* Pages are nodes that fit in a block and point to pages of the file. *)
TypeOK ==
  /\ \A p \in PageIds : IsNode(pages[p])
  /\ job \in Entry \cup {NoJob}
  /\ DOMAIN stored \subseteq Keys
  /\ stops \in 0..MaxStops

(* The file was created and no call has been cut short so far. *)
Whole  == stops = 0 /\ pages # <<>> /\ (writes # <<>> => job # NoJob)
AtRest == Whole /\ writes = <<>>

Answer(k) == IF k \in DOMAIN stored THEN stored[k] ELSE NoRid

(* search finds exactly the keys inserted and not removed since, at the
   address they were first inserted with, whatever was split in between.   *)
SearchExact == AtRest => \A k \in Keys : Descends(k) /\ Search(k) = Answer(k)

(* rangeSearch returns, in key order, each key stored between its bounds once:
   the chain of leaves agrees with the tree, empty leaves included.        *)
RangeExact ==
  AtRest => \A low, high \in Keys :
    LET wanted == {k \in DOMAIN stored : low <= k /\ k <= high}
        found  == RangeSearch(low, high)
    IN  /\ \A i, j \in DOMAIN found : i < j => found[i][1] < found[j][1]
        /\ ToSet(found) = {<<k, stored[k]>> : k \in wanted}

(* All leaves are at one depth, and the chain of leaves is linked both ways:
   what splits keep without ever looking at the whole tree.                *)
Leaves == {p \in PageIds : pages[p].leaf}
TreeBalanced ==
  AtRest => /\ \A k, l \in Keys : Root # NoPage => Len(Path(k)) = Len(Path(l))
            /\ \A p \in Leaves :
                 /\ pages[p].next # NoPage => pages[pages[p].next].prev = p
                 /\ pages[p].prev # NoPage => pages[pages[p].prev].next = p

(* At every write of an insert, the first one that is cut short included, a
   process that opens the file descends to a leaf for every key, and finds it
   at its address or not at all: a parent names a page only once it is written. *)
ReadableAtEveryWrite ==
  Whole =>
    \A k \in Keys : /\ Descends(k)
                    /\ \/ Search(k) \in {Answer(k), NoRid}
                       \/ job # NoJob /\ job = <<k, Search(k)>>

(* bplus_tree.py: page 0 is for the root id and nothing else. *)
MetaPageHoldsRoot == pages # <<>> => pages[0] = Meta(Root)

=============================================================================
