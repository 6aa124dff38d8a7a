--------------------------- MODULE ExtendibleHash ---------------------------
(***************************************************************************)
(* One extendible hash file (src/hashing_dinamico/extendible_hash.py) over *)
(* its pages, as the hash service and DiskHashIndex use it.                *)
(*                                                                         *)
(* Page 0 is the header; the others are buckets, overflow pages, pages of  *)
(* the directory chain and pages of the free list.  The directory, the     *)
(* global depth, the head of the free list and the entry count live in     *)
(* memory while the file is open; the header is written at the end of an   *)
(* insert, and by a delete before it merges buckets.                       *)
(*                                                                         *)
(* _insert_key recurses after each split, so an insert is a sequence of    *)
(* steps here: StartInsert, any number of SplitBucket, and the step that   *)
(* places the entry.  `pending` is the entry on its way in.  Every page a   *)
(* step writes is written by itself, and the process may stop between any  *)
(* two of them.                                                            *)
(***************************************************************************)
EXTENDS Integers, FiniteSets, SequencesExt

CONSTANTS
  Keys,          \* integer keys
  Rids,          \* addresses of rows
  Unpackable,    \* RIDs with a negative page, that ENTRY_FMT cannot pack
  Capacity,      \* _bucket_capacity, at least 1
  DirCapacity,   \* _entries_per_dir_page, at least 1
  MaxDepth,      \* MAX_LOCAL_DEPTH
  MaxEntries,    \* bound: entries in the index
  MaxPages       \* bound: pages of the file, past which no insert starts

VARIABLES
  pages,       \* the file: page id -> content
  depth,       \* global_depth
  free,        \* free_page_head
  total,       \* total_entries
  directory,   \* _directory: the bucket of each suffix of `depth` bits
  pending,     \* the entry _insert_key is placing, or NoEntry
  failed,      \* an insert raised with the pages ahead of the header
  stopped      \* the process stopped inside a call: only `pages` is left of it

vars == <<pages, depth, free, total, directory, pending, failed, stopped>>

NoPage  == -1
NoEntry == <<>>
Entry   == Keys \X Rids

Header(d, dir, f, n) ==
  [kind |-> "header", depth |-> d, dir |-> dir, free |-> f, total |-> n]
Bucket(d, next, entries) ==
  [kind |-> "bucket", depth |-> d, next |-> next, entries |-> entries]
DirPage(next, slots) == [kind |-> "dir", next |-> next, slots |-> slots]
FreePage(next)       == [kind |-> "free", next |-> next]
Blank                == [kind |-> "blank"]

Larger(a, b)  == IF a >= b THEN a ELSE b
Smaller(a, b) == IF a <= b THEN a ELSE b

(* The suffix of d bits of a key or of a directory index, and its bit d. *)
Suffix(k, d) == k % (2 ^ d)
Bit(k, d)    == (k \div (2 ^ d)) % 2

-----------------------------------------------------------------------------
(* Pages.  `f` is a file with its free list: `log` is what its pages were    *)
(* before each write of a step, then what they are.                        *)

File     == [log |-> <<pages>>, free |-> free]
Pages(f) == Last(f.log)

WritePage(f, p, content) == [f EXCEPT !.log = Append(@, (p :> content) @@ Last(@))]

(* contents[i] to page ids[i], one after the other; the ids are distinct. *)
WritePages(f, ids, contents) ==
  LET Written(n) == [p \in ToSet(SubSeq(ids, 1, n)) |-> contents[CHOOSE i \in 1..n : ids[i] = p]]
  IN  [f EXCEPT !.log = @ \o [n \in DOMAIN ids |-> Written(n) @@ Last(@)]]

(* What stands where a page is read, whatever it is: its first integer, by which
   directory and free pages link, and its second and third, which are the entry
   count and the overflow page of a bucket.                                *)
SlotOf(c, j) == IF c.kind = "dir" /\ j \in DOMAIN c.slots THEN c.slots[j] ELSE 0
Link(c) ==
  CASE c.kind \in {"dir", "free"}      -> c.next
    [] c.kind \in {"header", "bucket"} -> c.depth
    [] c.kind = "blank"                -> 0
EntryCount(c) ==
  CASE c.kind = "bucket" -> Len(c.entries)
    [] c.kind = "header" -> c.dir
    [] OTHER             -> SlotOf(c, 1)
Overflow(c) ==
  CASE c.kind = "bucket" -> c.next
    [] c.kind = "header" -> c.free
    [] OTHER             -> SlotOf(c, 2)

(* _alloc_page: the head of the free list, or a page at the end. *)
NextPage(f) == IF f.free # NoPage THEN f.free ELSE Cardinality(DOMAIN Pages(f))
AllocWithoutUnlinking(f) ==   \* mutant: the page stays at the head of the list
  IF f.free # NoPage THEN f ELSE WritePage(f, NextPage(f), Blank)
Alloc(f) ==
  IF f.free # NoPage THEN [f EXCEPT !.free = Link(Pages(f)[f.free])]
  ELSE WritePage(f, NextPage(f), Blank)

Free(f, p) == [WritePage(f, p, FreePage(f.free)) EXCEPT !.free = p]

(* The page ids reached from `first`, in order: a page that is not what it is
   read as leads on by what stands there.  A loop, which the code follows for
   ever, is cut after one id more than there are pages, and a chain that leaves
   the file, where the code raises, at its end.                            *)
Chain(pgs, first, after) ==
  LET follow[ids \in Seq(Int)] ==
        LET p == after[Last(ids)]
        IN  IF p \notin DOMAIN pgs \/ Len(ids) > Cardinality(DOMAIN pgs) THEN ids
            ELSE follow[Append(ids, p)]
  IN  IF first \notin DOMAIN pgs THEN <<>> ELSE follow[<<first>>]

(* ... of a directory or a free list, and of a bucket and its overflow. *)
Links(pgs, first)   == Chain(pgs, first, [p \in DOMAIN pgs |-> Link(pgs[p])])
Buckets(pgs, first) == Chain(pgs, first, [p \in DOMAIN pgs |-> Overflow(pgs[p])])

(* _read_bucket: a page of zeros or of the free list has no entry, and another
   that is no bucket as many as its second integer says, none of any caller. *)
Invented == <<NoPage, NoPage>>
EntriesAt(pgs, p) ==
  IF pgs[p].kind = "bucket" THEN pgs[p].entries
  ELSE [i \in 1..EntryCount(pgs[p]) |-> Invented]
EntriesOf(pgs, ids) == FlattenSeq([i \in DOMAIN ids |-> EntriesAt(pgs, ids[i])])

-----------------------------------------------------------------------------
(* The directory on disk: a chain of pages of DirCapacity slots.           *)

FirstDirPage == pages[0].dir

(* The slots that 2 ^ d of them take up are on directory pages (OpensOn). *)
ReadDirectory(pgs, first, d) ==
  LET ids == Links(pgs, first)
  IN  [i \in 0..(2 ^ d - 1) |->
         SlotOf(pgs[ids[i \div DirCapacity + 1]], (i % DirCapacity) + 1)]

(* _write_directory_to_disk: keep the pages of the chain, allocate the ones
   missing, free the ones left over, and write the slots.                  *)
WriteDirectory(f, dir) ==
  LET size   == Cardinality(DOMAIN dir)
      needed == (size + DirCapacity - 1) \div DirCapacity
      old    == Links(Pages(f), FirstDirPage)
      AddPage(b, i) == [file |-> Alloc(b.file), ids |-> Append(b.ids, NextPage(b.file))]
      kept   == SubSeq(old, 1, Smaller(needed, Len(old)))
      grown  == FoldLeft(AddPage, [file |-> f, ids |-> kept],
                         [i \in 1..(needed - Len(kept)) |-> i])
      freed  == FoldLeft(Free, grown.file, SubSeq(old, needed + 1, Len(old)))
      Slots(i) == [j \in 1..Smaller(DirCapacity, size - (i - 1) * DirCapacity) |->
                     dir[(i - 1) * DirCapacity + j - 1]]
      Page(ids, i) == DirPage(IF i < needed THEN ids[i + 1] ELSE NoPage, Slots(i))
      put[ids \in Seq(Int)] == WritePages(freed, ids, [i \in 1..needed |-> Page(ids, i)])
  IN  put[grown.ids]

FlushHeaderKeepingDepth(f, d, n) ==   \* mutant: the header keeps the depth it had
  WritePage(f, 0, Header(Pages(f)[0].depth, FirstDirPage, f.free, n))

(* _flush_header *)
FlushHeader(f, d, n) == WritePage(f, 0, Header(d, FirstDirPage, f.free, n))

(* The pages are written one by one: all of them, or the process stops before
   one of them is.                                                         *)
SetFile(f) ==
  \E g \in {f} :
    \/ pages' = Pages(g) /\ free' = g.free /\ UNCHANGED stopped
    \/ pages' \in Range(Front(g.log)) /\ stopped' = TRUE /\ UNCHANGED free

-----------------------------------------------------------------------------
(* create, open                                                            *)

Init ==
  /\ pages = [p \in 0..2 |-> CASE p = 0 -> Header(0, 2, NoPage, 0)
                               [] p = 1 -> Bucket(0, NoPage, <<>>)
                               [] p = 2 -> DirPage(NoPage, <<1>>)]
  /\ depth = 0
  /\ free = NoPage
  /\ total = 0
  /\ directory = [i \in {0} |-> 1]
  /\ pending = NoEntry
  /\ failed = FALSE
  /\ stopped = FALSE

Intact  == ~failed /\ ~stopped
Idle    == Intact /\ pending = NoEntry
Placing == Intact /\ pending # NoEntry

(* The process stops between two calls and a new one opens the file: what
   the header and the directory chain say is all there is.                 *)
Reopen ==
  /\ Idle
  /\ depth' = pages[0].depth
  /\ free' = pages[0].free
  /\ total' = pages[0].total
  /\ directory' = ReadDirectory(pages, pages[0].dir, pages[0].depth)
  /\ UNCHANGED <<pages, pending, failed, stopped>>

-----------------------------------------------------------------------------
(* insert                                                                  *)

PageOf(k)     == directory[Suffix(k, depth)]
PendingPage   == PageOf(pending[1])
PendingBucket == pages[PendingPage]
HasRoom(b)    == Len(b.entries) < Capacity
Packs         == pending[2] \notin Unpackable

Add(b) == [b EXCEPT !.entries = Append(@, pending)]

(* What insert does once _insert_key has returned. *)
Inserted(f) ==
  /\ total' = total + 1
  /\ SetFile(FlushHeader(f, depth, total + 1))
  /\ pending' = NoEntry
  /\ UNCHANGED <<depth, directory, failed>>

StartInsert(e) ==
  /\ Idle
  /\ total < MaxEntries
  /\ Cardinality(DOMAIN pages) <= MaxPages
  /\ pending' = e
  /\ UNCHANGED <<pages, depth, free, total, directory, failed, stopped>>

InsertInBucket ==
  /\ Placing
  /\ HasRoom(PendingBucket)
  /\ Packs
  /\ Inserted(WritePage(File, PendingPage, Add(PendingBucket)))

OverflowingPast ==   \* mutant: > for >= in the test of MAX_LOCAL_DEPTH
  /\ Placing
  /\ ~HasRoom(PendingBucket)
  /\ PendingBucket.depth > MaxDepth

Overflowing ==
  /\ Placing
  /\ ~HasRoom(PendingBucket)
  /\ PendingBucket.depth >= MaxDepth

OverflowIds == Buckets(pages, PendingBucket.next)

(* _insert_into_overflow_chain: the first page with room, or a new head. *)
InsertInOverflowPage ==
  /\ Overflowing
  /\ Packs
  /\ \E i \in DOMAIN OverflowIds :
       /\ HasRoom(pages[OverflowIds[i]])
       /\ \A j \in 1..(i - 1) : ~HasRoom(pages[OverflowIds[j]])
       /\ Inserted(WritePage(File, OverflowIds[i], Add(pages[OverflowIds[i]])))

InsertInNewOverflowPage ==
  /\ Overflowing
  /\ Packs
  /\ \A i \in DOMAIN OverflowIds : ~HasRoom(pages[OverflowIds[i]])
  /\ LET new  == NextPage(File)
         page == Bucket(-1, PendingBucket.next, <<pending>>)
     IN  Inserted(WritePage(WritePage(Alloc(File), new, page),
                            PendingPage, [PendingBucket EXCEPT !.next = new]))

(* struct.pack_into refuses a negative page id before the bucket is written;
   the splits made for the entry stay, and the header does not know them.  *)
InsertRefused ==
  /\ Placing
  /\ ~Packs
  /\ HasRoom(PendingBucket) \/ Overflowing
  /\ IF Overflowing /\ \A i \in DOMAIN OverflowIds : ~HasRoom(pages[OverflowIds[i]])
       THEN SetFile(Alloc(File))
       ELSE UNCHANGED <<pages, free, stopped>>
  /\ pending' = NoEntry
  /\ failed' = (pages[0] # Header(depth, FirstDirPage, free', total))
  /\ UNCHANGED <<depth, total, directory>>

(* _split_bucket, as far as the sibling's allocation: the overflow chain is
   drained and freed, the directory doubled when the bucket uses all of it. *)
Splitting ==
  /\ Placing
  /\ ~HasRoom(PendingBucket)
  /\ PendingBucket.depth < MaxDepth

NothingDrained == <<>>   \* mutant: the chain is not rescued
Drained == OverflowIds
SplitEntries == PendingBucket.entries \o EntriesOf(pages, Drained)
Kept  == SelectSeq(SplitEntries, LAMBDA e : Bit(e[1], PendingBucket.depth) = 0)
Moved == SelectSeq(SplitEntries, LAMBDA e : Bit(e[1], PendingBucket.depth) = 1)

Grows          == PendingBucket.depth = depth
DoubledSideBySide ==   \* mutant: each slot is repeated next to itself
  [i \in 0..(2 ^ (depth + 1) - 1) |-> directory[i \div 2]]
GrownDirectory == [i \in 0..(2 ^ (depth + 1) - 1) |-> directory[Suffix(i, depth)]]
SplitDirectory == IF Grows THEN GrownDirectory ELSE directory
SplitFile ==
  LET f == FoldLeft(Free, File, Drained)
  IN  IF Grows THEN WriteDirectory(f, GrownDirectory) ELSE f

FirstIndex(dir, p) == CHOOSE i \in DOMAIN dir : dir[i] = p /\ \A j \in 0..(i - 1) : dir[j] # p

RedirectedLast(dir, p, sibling, d) ==   \* mutant: one slot instead of all that share the suffix
  [dir EXCEPT ![CHOOSE i \in DOMAIN dir : dir[i] = p /\ Bit(i, d) = 1] = sibling]

(* _update_directory_after_split *)
Redirected(dir, p, sibling, d) ==
  LET r == Suffix(FirstIndex(dir, p), d)
  IN  [i \in DOMAIN dir |-> IF Suffix(i, d) # r THEN dir[i]
                            ELSE IF Bit(i, d) = 1 THEN sibling ELSE p]

SplitBucket ==
  /\ Splitting
  /\ Len(Kept) <= Capacity
  /\ Len(Moved) <= Capacity
  /\ \E f \in {SplitFile} :
       LET d       == PendingBucket.depth
           sibling == NextPage(f)
           halved  == WritePage(WritePage(Alloc(f), PendingPage, Bucket(d + 1, NoPage, Kept)),
                                sibling, Bucket(d + 1, NoPage, Moved))
       IN  \E dir \in {Redirected(SplitDirectory, PendingPage, sibling, d)}, g \in {halved} :
             /\ directory' = dir
             /\ SetFile(WriteDirectory(g, dir))
  /\ depth' = IF Grows THEN depth + 1 ELSE depth
  /\ UNCHANGED <<total, pending, failed>>

(* A half of the entries does not fit in one bucket, so _write_bucket raises:
   the chain is on the free list already and the directory not updated.     *)
SplitFails ==
  /\ Splitting
  /\ Len(Kept) > Capacity \/ Len(Moved) > Capacity
  /\ LET f == Alloc(SplitFile)
     IN  SetFile(IF Len(Kept) > Capacity THEN f
                 ELSE WritePage(f, PendingPage, Bucket(PendingBucket.depth + 1, NoPage, Kept)))
  /\ directory' = SplitDirectory
  /\ depth' = IF Grows THEN depth + 1 ELSE depth
  /\ pending' = NoEntry
  /\ failed' = TRUE
  /\ UNCHANGED total

-----------------------------------------------------------------------------
(* delete                                                                  *)

BucketIds(k) == Buckets(pages, PageOf(k))

(* Where the entries of key k with a wanted RID are: <<place in the chain,
   place in the page>>; the first in chain order is the one deleted.       *)
Places(k, wanted) ==
  LET ids == BucketIds(k)
  IN  UNION {{<<i, j>> : j \in {n \in DOMAIN EntriesAt(pages, ids[i]) :
                                 LET e == EntriesAt(pages, ids[i])[n]
                                 IN  e[1] = k /\ e[2] \in wanted}} : i \in DOMAIN ids}
IsFirst(pl, all) ==
  \A q \in all : pl[1] < q[1] \/ (pl[1] = q[1] /\ pl[2] <= q[2])

(* The file once the entry is gone and the header flushed. *)
DeletedFile(k, pl) ==
  LET p    == BucketIds(k)[pl[1]]
      page == [pages[p] EXCEPT !.entries = RemoveAt(@, pl[2])]
  IN  FlushHeader(WritePage(File, p, page), depth, Larger(0, total - 1))

(* _maybe_merge: an empty bucket with no overflow, and a buddy as deep. *)
BuddyIndex(p, d) ==
  LET mine == FirstIndex(directory, p)
  IN  {i \in DOMAIN directory : Suffix(i, d - 1) = Suffix(mine, d - 1)
                                  /\ Bit(i, d - 1) # Bit(mine, d - 1)}
Buddy(p, d) == directory[CHOOSE i \in BuddyIndex(p, d) : \A j \in BuddyIndex(p, d) : i <= j]

IsEmptyPrimary(b) == b.entries = <<>>   \* mutant: the overflow chain is not looked at
IsVacant(b) == b.entries = <<>> /\ b.next = NoPage
Mergeable(f, p) ==
  /\ Pages(f)[p].depth > 0
  /\ IsVacant(Pages(f)[p])
  /\ BuddyIndex(p, Pages(f)[p].depth) # {}
  /\ Pages(f)[Buddy(p, Pages(f)[p].depth)].depth = Pages(f)[p].depth

Delete(k, wanted) ==
  /\ Idle
  /\ \E pl \in Places(k, wanted) :
       /\ IsFirst(pl, Places(k, wanted))
       /\ ~Mergeable(DeletedFile(k, pl), PageOf(k))
       /\ SetFile(DeletedFile(k, pl))
  /\ total' = Larger(0, total - 1)
  /\ UNCHANGED <<depth, directory, pending, failed>>

DeleteAndMerge(k, wanted) ==
  /\ Idle
  /\ \E pl \in Places(k, wanted) :
       LET f      == DeletedFile(k, pl)
           p      == PageOf(k)
           d      == Pages(f)[p].depth
           buddy  == Buddy(p, d)
           merged == [Pages(f)[buddy] EXCEPT !.depth = d - 1]
       IN  /\ IsFirst(pl, Places(k, wanted))
           /\ Mergeable(f, p)
           /\ directory' = [i \in DOMAIN directory |-> IF directory[i] = p THEN buddy ELSE directory[i]]
           /\ SetFile(Free(WriteDirectory(WritePage(f, buddy, merged), directory'), p))
  /\ total' = Larger(0, total - 1)
  /\ UNCHANGED <<depth, pending, failed>>

(* A caller names the RID, or takes any entry with the key. *)
Wanted == {{r} : r \in Rids} \cup {Rids}

Next ==
  \/ Reopen
  \/ \E e \in Entry : StartInsert(e)
  \/ InsertInBucket
  \/ InsertInOverflowPage
  \/ InsertInNewOverflowPage
  \/ InsertRefused
  \/ SplitBucket
  \/ SplitFails
  \/ \E k \in Keys, w \in Wanted : Delete(k, w)
  \/ \E k \in Keys, w \in Wanted : DeleteAndMerge(k, w)

(* The thread that serves an insert runs it to its end: insert is one call of
   the program, that waits for nothing.                                    *)
InsertStep ==
  \/ InsertInBucket
  \/ InsertInOverflowPage
  \/ InsertInNewOverflowPage
  \/ InsertRefused
  \/ SplitBucket
  \/ SplitFails

Spec == Init /\ [][Next]_vars /\ WF_vars(InsertStep)

-----------------------------------------------------------------------------
(* Properties.                                                             *)

PageIds == DOMAIN pages
TypeOfPage(c) ==
  \/ c.kind = "header" /\ c.depth \in 0..MaxDepth /\ c.free \in PageIds \cup {NoPage}
  \/ c.kind = "bucket" /\ c.depth \in -1..MaxDepth /\ c.entries \in Seq(Entry)
       /\ Len(c.entries) <= Capacity /\ c.next \in PageIds \cup {NoPage}
  \/ c.kind = "dir" /\ c.slots \in Seq(PageIds) /\ c.next \in PageIds \cup {NoPage}
  \/ c.kind = "free" /\ c.next \in PageIds \cup {NoPage}
  \/ c.kind = "blank"

(* The file is a header followed by well-formed pages, and the directory has
   one page for every suffix of global_depth bits.                         *)
TypeOK ==
  /\ \A p \in PageIds : TypeOfPage(pages[p]) /\ ((p = 0) <=> (pages[p].kind = "header"))
  /\ depth \in 0..MaxDepth
  /\ stopped \/ (directory \in [0..(2 ^ depth - 1) -> PageIds]
                  /\ free \in PageIds \cup {NoPage})
  /\ total \in Nat
  /\ pending \in Entry \cup {NoEntry}
  /\ failed \in BOOLEAN
  /\ stopped \in BOOLEAN

(* What search answers, counted: entries of the bucket of k and its chain. *)
Found(k, r) ==
  LET entries == EntriesOf(pages, BucketIds(k))
  IN  Cardinality({i \in DOMAIN entries : entries[i] = <<k, r>>})
Content == [e \in Entry |-> Found(e[1], e[2])]

(* Opening the file as it is in pgs: the loop over the directory chain ends, and
   every slot that the depth of the header asks for is on a directory page. *)
OpensOn(pgs) ==
  LET ids == Links(pgs, pgs[0].dir)
  IN  /\ Link(pgs[Last(ids)]) = NoPage
      /\ \A i \in 0..(2 ^ pgs[0].depth - 1) :
           /\ i \div DirCapacity + 1 \in DOMAIN ids
           /\ pgs[ids[i \div DirCapacity + 1]].kind = "dir"

(* What search reads then: the bucket of k and its chain; whether it comes to an
   end over entries that callers made; and how often it answers e.         *)
BucketOnDisk(pgs, k) ==
  LET d == pgs[0].depth
  IN  Buckets(pgs, ReadDirectory(pgs, pgs[0].dir, d)[Suffix(k, d)])
Legible(pgs, k) ==
  LET ids == BucketOnDisk(pgs, k)
  IN  /\ Overflow(pgs[Last(ids)]) = NoPage
      /\ Invented \notin Range(EntriesOf(pgs, ids))
FoundOnDisk(pgs, e) ==
  LET entries == EntriesOf(pgs, BucketOnDisk(pgs, e[1]))
  IN  Cardinality({i \in DOMAIN entries : entries[i] = e})

Port == INSTANCE IndexPort WITH IndexKeys <- Keys, IndexRids <- Rids, content <- Content

(* Splits, merges, overflow and reopening never change what search answers:
   the only changes are one more of the entry an insert was placing, and one
   less of some entry, each together with the count of entries.  Inserts that
   raised are left out; RepeatedKeysServed is about those.                 *)
AnswersFollow ==
  \/ failed' \/ stopped'
  \/ UNCHANGED <<Content, total>>
  \/ total' = total + 1 /\ Port!Insert(pending)
  \/ total' = total - 1 /\ \E e \in Entry : Port!Delete(e)
SearchIsExact == Port!Init /\ [][AnswersFollow]_vars

(* diskhash.py says the hash serves repeated keys correctly: no call, the
   ones that raise included, changes the answer for an entry already in.   *)
RepeatedKeysServed ==
  [][stopped' \/ \A e \in Entry : Content'[e] < Content[e] => total' < total]_vars

(* total_entries, that stats reports and the header keeps, counts the entries
   search can reach, whatever the splits and merges between.               *)
TotalIsExact ==
  Intact => total = FoldSet(LAMBDA e, n : n + Content[e], 0, Entry)

(* Two suffixes share a bucket exactly when they agree on its local depth,
   and a bucket holds only keys of its suffix: between two steps of a split
   the entry being placed still finds its bucket.                          *)
DirectoryConsistent ==
  TypeOK /\ (Intact => \A i, j \in DOMAIN directory :
    LET b == pages[directory[i]]
    IN  /\ b.kind = "bucket" /\ b.depth \in 0..depth
        /\ (directory[j] = directory[i]) <=> (Suffix(i, b.depth) = Suffix(j, b.depth))
        /\ \A n \in DOMAIN EntriesOf(pages, Buckets(pages, directory[i])) :
             Suffix(EntriesOf(pages, Buckets(pages, directory[i]))[n][1], b.depth)
               = Suffix(i, b.depth))

(* Every page has at most one owner: the header, the directory chain, one
   bucket's chain or the free list, and no chain meets itself.  A page that
   is freed while something still points to it is given out twice.         *)
Chains == {<<0>>, Links(pages, FirstDirPage), Links(pages, free)}
            \cup {Buckets(pages, p) : p \in Range(directory)}
PageOwnedOnce ==
  Intact => /\ \A c \in Chains : IsInjective(c)
            /\ \A c, d \in Chains : c # d => ToSet(c) \cap ToSet(d) = {}

(* Between two calls, a process that opens the file finds the directory, the
   depth and the count of the one that closed it, and a free list without a
   page in use: delete flushes the header before it merges, so the list may
   only miss pages.                                                        *)
Reopenable ==
  Idle =>
    /\ pages[0].depth = depth
    /\ pages[0].total = total
    /\ ReadDirectory(pages, pages[0].dir, pages[0].depth) = directory
    /\ ToSet(Links(pages, pages[0].free)) \subseteq ToSet(Links(pages, free))

(* The header keeps the depth, the free list and the count that a split leaves
   in memory, so a stop inside an insert can lose entries.  It loses none of a
   bucket that was not being split: the keys that may go are those of the
   bucket of the entry being placed, or those with its suffix as long as the
   header knows.  A stop inside a delete loses at most the entry deleted.  No
   stop repeats an entry.

   Two stops are worse.  While a directory gets a page more, the page before it
   links to one not written yet, and opening the file may follow page 0 for
   ever (LengthensDirectory).  And once a chain is drained, the bucket leads to
   free pages, which search follows to the header, for entries nobody made or
   without an end (Drained).  No other stop makes a file that does not open or
   a bucket that cannot be read.                                           *)
SharesBucket(k) ==
  \/ PageOf(k) = PendingPage
  \/ Suffix(k, pages[0].depth) = Suffix(pending[1], pages[0].depth)
LengthensDirectory ==
  Splitting /\ Grows /\ 2 ^ (depth + 1) > DirCapacity * Len(Links(pages, FirstDirPage))
DrainsChain == Splitting /\ Drained # <<>>
InsertConfined ==
  \/ LengthensDirectory /\ ~OpensOn(pages')
  \/ /\ OpensOn(pages')
     /\ \A k \in Keys :
          \/ DrainsChain /\ SharesBucket(k) /\ ~Legible(pages', k)
          \/ /\ Legible(pages', k)
             /\ \A e \in {k} \X Rids :
                  LET after == FoundOnDisk(pages', e)
                  IN  IF SharesBucket(k)
                        THEN after <= Content[e] + (IF e = pending THEN 1 ELSE 0)
                        ELSE after = Content[e]
DeleteConfined ==
  /\ OpensOn(pages')
  /\ \A k \in Keys : Legible(pages', k)
  /\ \E d \in Entry :
       /\ FoundOnDisk(pages', d) \in {Content[d] - 1, Content[d]}
       /\ \A e \in Entry \ {d} : FoundOnDisk(pages', e) = Content[e]
StopConfined ==
  ~stopped /\ stopped' => IF pending # NoEntry THEN InsertConfined ELSE DeleteConfined
StopIsConfined == [][StopConfined]_vars

(* "esto siempre termina porque la profundidad va subiendo" (_insert_key): an
   insert comes to its end, however its key repeats.                       *)
InsertEnds == pending # NoEntry ~> (pending = NoEntry \/ stopped)
=============================================================================
