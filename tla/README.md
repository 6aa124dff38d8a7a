# A formal model of the mini relational DBMS

The repository is a small relational database written in Python: a SQL front
end, a planner and an executor over a storage port, a paged table store, and
two kinds of index on disk (a B+ tree and an extendible hash), with a web
service around each physical layer. This directory holds TLA+ modules that
model its core, TLC configurations that check them on small instances, and
proofs, checked by TLAPS, of what holds for every value of the constants.

`QE` below stands for `src/backend/query-engine/queryengine`.

## 1. Inventory

| Part | Source | State it keeps | Operations |
|---|---|---|---|
| Block file, slotted page | `src/storage/disk_management.py`, `page.py` | a file of fixed-size blocks; slots of a page | read, write, allocate; insert record, get record |
| DiskTableStore | `QE/storage/diskstore.py` | per table: a main file, an overflow file (SEQUENTIAL), one resident tail page and its dirty flag | create, drop, insert, flush, fetch, scan, delete, search_key, range_key, reorganize |
| Storage port | `QE/storage/port.py` | none: the contract | StorageEngine, IndexManager |
| Extendible hash file | `src/hashing_dinamico/extendible_hash.py` | buckets and overflow chains, directory chain, free list, header; directory, depth, free head and count in memory | create, open, insert, search, delete |
| B+ tree file | `src/storage/bplus_tree.py` | nodes in pages, the root id in page 0 | insert, search, range search, remove |
| Index adapters, router | `QE/storage/diskindex.py`, `diskhash.py`, `routing.py` | one open file per index, the route of each name | create, drop, insert, delete, search, bulk load |
| Engine | `QE/engine.py` | none of its own; drives catalog, storage and up to several indexes per table | one method per statement |
| Catalog | `QE/catalog.py` | schemas, indexes, statistics, saved to JSON | create, drop, record_* |
| Bootstrap | `QE/bootstrap.py` | none | builds an engine, reopens tables |
| Planner | `QE/planner/` | none | fold predicates, price and choose an access path |
| Executor | `QE/execution/` | none | yield the rows of a plan |
| Bulk loader | `QE/loader.py` | none | COPY |
| SQL front end | `QE/sql/`, `QE/planner/binder.py`, `QE/types.py` | none | text to a bound syntax tree |
| Heap file, sequential file | `src/storage/heap_file.py`, `sequential_file.py` | record files of the storage service | insert, search, remove, reorganize |
| Storage service | `src/storage/main.py` | a page manager and a tree shared by the threads of a pool | allocate a page, insert and get a record, index endpoints |
| Hash service | `src/hashing_dinamico/api.py` | open indexes and a JSON catalog shared by the threads of a pool | create an index; insert, search, delete in one |
| Memory backend | `QE/storage/memory.py` | dictionaries, and two parallel lists per ordered table | the storage port |

A statement reaches the engine, which asks the planner for a path and the
executor for its rows; INSERT, COPY and DELETE then call the table store and
each index in turn, row by row, and end with a flush. The table store, the hash and the tree
share nothing but the data directory. The engine's endpoints are `async` and
never await inside a statement, so statements run one at a time. The endpoints
of the two services are plain functions, which run in the threads of a pool and
take no lock. A process may die anywhere. What is hard:

- **State in two places.** A row is in a table and in an index; a page is in
  memory and on disk; a directory is in memory, in its chain and summed up in a
  header; a table is in the catalog and in files. Each pair is updated by
  separate steps, with no log and no rollback.
- **Threads without a lock.** Between the read and the write of a page, or the
  load and the save of a catalog, another request may do the same.
- **Writes one page at a time.** A split, a move or a merge is several page
  writes with no log; a stop leaves a prefix of them.
- **Names that move.** An RID is a page and a slot, and indexes keep RIDs.
- **Derived orders.** Binary search relies on what `reorganize` left, whatever
  was deleted since.
- **Reuse.** The hash gives pages out again from a free list.
- **Planning.** A conjunct that a path "consumes" is no longer filtered.
- **Reading.** A WHERE clause passes a recursive descent, a binder, a rewriting
  into conjuncts and a three-valued evaluation, which must mean the same tree.
- **Failing half way.** A statement of several rows over several indexes may end
  at any row and at any index.

What makes each part correct: the table store keeps RIDs and loses nothing that
was flushed; the hash answers exactly what was put into it; table and index
agree; a clause is read as it is written and every access path returns the same
rows; a file of the physical layer
answers what was put into it; a stop loses no record of a record file, and does
to a hash or a tree no more than section 3 says; a request that no
other overlaps is never undone by a later one. `PROJECT.json` lists the
hazards, each at the line where it bites, with the properties that cover it.

## 2. Modules

| Module | Models | Checked by |
|---|---|---|
| `StoredTable` | what the storage port promises of one table: rows by RID, what is durable, the RIDs handed out | refinement from `TableStore` and `MemoryStore`, in `table` and proved |
| `TableStore` | one table of `DiskTableStore` over block files | `table`, `search`, proofs |
| `MemoryStore` | one table and one index of the memory backend, and its restarts under the catalog on disk | `table`, proofs |
| `TableSearch` | `search_key`, `range_key`, `_locate_page` over `TableStore`'s state | `search`, `search_emptied`, proofs |
| `IndexPort` | what the index port promises: a bag of entries | what `ExtendibleHash`'s `SearchIsExact` refers to |
| `ExtendibleHash` | one hash file over its pages, with a stop before any page write | `hash`, `hash_repeated` |
| `BPlusTree` | one B+ tree file, page write by page write | `files`, `bptree_stopped`, proofs |
| `HeapFile` | one heap file, page write by page write | `files`, proofs |
| `SequentialFile` | one sequential file and its overflow, page write by page write | `files`, `sequential_below`, proofs |
| `StorageService` | the page and record endpoints as concurrent requests | `files`, proofs |
| `HashService` | the index endpoints, their catalog and open indexes, as concurrent requests | `files`, proofs |
| `Engine` | statements, COPY among them, over `TableStore`, `TableSearch` and up to two indexes | `engine`, `engine_reorganized`, proofs |
| `AccessPath` | folding the conjuncts of a column, choosing a path, filtering | `where`, `access_path_consumed`, proofs |
| `WhereClause` | a WHERE clause from its tokens to its rows: parser, binder, conjuncts, plan, three-valued Filter | `where` |
| `TableStoreProofs`, `BPlusTreeProofs`, `HeapFileProofs`, `SequentialFileProofs` | theorems about one component each | TLAPS |
| `EngineProofs` | theorems about the two lookups of `TableSearch` and about the engine, over `TableStoreProofs` | TLAPS |
| `QueryEngineProofs` | theorems about `AccessPath`, and the engine's for the two kinds of table of `MCEngine` | TLAPS |
| `MCFilesProofs` | theorems about the two services, and those of the tree, the heap file and the sequential file for the ones of `MCFiles` | TLAPS |
| `MCTableStoreProofs` | theorems about `MemoryStore`, and the refinement of `StoredTable` for the stores of `MCTableStore` | TLAPS |
| `MCTableStore` | both kinds of table, on disk and in memory, in one state space, and the refinement of `StoredTable` | `table` |
| `MCHash` | two hash files in one state space: one whose keys crowd one bucket, one whose keys spread | `hash` |
| `MCWhereClause` | the clauses tried, and `AccessPath` and `WhereClause` in one state space | `where` |
| `MCEngine` | the engine on a HEAP and on a SEQUENTIAL table in one state space | `engine` |
| `MCFiles` | the files and services of the physical layer in one state space, each with behaviours of its own | `files` |

How state corresponds to code:

**TableStore.** `main` and `fill` are the table's files, sequences of pages; a
page is the sequence of its slots, a slot a key or `Hole` (a record whose length
was set to zero). A HEAP table has only `fill`. `tail` and `dirty` are the
fields of `_Table`; `open` is membership in `_tables`. Each operation is one
action, with the branches of the code as disjuncts (`InsertInTail`,
`InsertInNewTail`; `DeleteInTail`, `DeleteInFill`, `DeleteInMain`). A new page
has no block until it is flushed, as in `_new_tail`; `WritePage` past the end of
a file leaves a gap, as a seek does. Overflow pages have negative ids.
`CrashInReorganize` stops `_rewrite` after any number of blocks.

**MemoryStore.** `order` and `keys` are the parallel lists of an ordered table,
`index` the entries and the sorted keys of one index, both used through
`bisect`; `ordered` says which kind the table is, and no step changes it. The
catalog is on disk, so `StartAgain` keeps only that the table and
the index exist: as in `build_engine`, the table is created again, empty, and
nothing creates the index.

**TableSearch.** The two lookups flush and then only read, so they are
operators: the RIDs each would return now. `LocatePage` is the descent with its
`floor` mode. A `Span` is the variables `low`, `high` and `candidate` of its
loop, `Narrowed` a pass that does not return, and `Descent` the loop, a function
of the span it is in.

**ExtendibleHash.** `pages` is the file, page 0 the header; `directory`,
`depth`, `free` and `total` are the fields in memory. `_insert_key` recurses
after a split; here each split is a step, with the entry on its way in
`pending`. A step computes the file before each page it writes, in the order of
the code (`log`), and `SetFile` either takes the last or stops the process
before one of the writes (`stopped`): then only the file counts, as the next
process would open it. `failed` marks a hash whose insert raised after it
changed pages (`SplitFails`, `InsertRefused`). Neither has a next step, and the
properties that follow say which of them they exclude. Any page may be read as a
bucket or as part of the directory, as nothing on a page says what it is: its
integers are taken for those of the kind expected (`SlotOf`, `Link`,
`EntryCount`, `Overflow`). So a page of zeros has page 0, the header, behind it,
and so has a freed one that is read as a bucket; the entries read from a page
that is no bucket are `Invented`.

**BPlusTree.** `pages` is the file, page 0 the one with the root's id. An insert
computes the pages it will write from the path it descended, in the order of the
code, and `WritePage` brings them to the file one at a time: a new page is
allocated as zeros, the neighbour's back pointer, the left half, the right half,
then the parents from the bottom up, and page 0 last. `Stop` is a process that
ends between two of them. A page of zeros reads as a node with id 0, and a node
is written where its id says. `stored` and `stops` are histories: what the calls
that returned have stored, and how often a stop cut one short.

**HeapFile, SequentialFile.** `pages` (`disk.main` and `disk.over`) is the file.
A call computes the states of the file it leaves behind one page write after
the other, in the order of the code, and `coming` is what is left of them;
`WritePage` takes the next and `Stop` drops the rest. A record is its key. A
page of zeros reads as an empty node with id 0, and a node is written where its
id says, so a file whose last page is zeros is `torn`: the next insert goes to
page 0. `stored` is a history of what the calls that returned have stored, and
after a stop what the file holds.

**StorageService.** `blocks` is the file, `call` the request each thread serves:
an allocation that has read the size of the file, and then written zeros; an
insert with the page it read. Reading one block and writing one block are
atomic. `settled` is a history of the inserts during which no other request for
that page was under way. An insert into a page of zeros is refused, as its
header says it has no space.

**HashService.** `catalog` is the JSON file, which opening it for writing
empties; `opened` is `_open_indexes`, an object standing for its header page;
`request` is the creation or first opening each thread serves, with the catalog
it loaded; a creation takes its header page from the size of the file later, and
the others of the index are written in one step. Two saves at once may leave the end of the longer text behind the
shorter one (`Garbled`). `created` is a history of creations no other
overlapped.

**Engine.** `stmt` is the statement under way. A row of an INSERT or a COPY is
one step: the table first, then each index, in the order of names the model
leaves open, the first that refuses ending the statement with the row placed
and the indexes before it told. A row refused before it is placed ends an
INSERT; COPY counts it and goes on, until it has counted too many. A DELETE
collects its rows, by a scan, an index or an ordered descent, and then removes
them one at a time. What ends well ends in a flush. `file` holds the entries of
the index files, open or not, `opened` whether this process has a route to each
index. `Crash` may happen between any two steps. Bulk loading into a tree file
that exists adds to it; a hash file is created anew.

**AccessPath.** A row is its value in one column. `Tighten` is
`KeyRange.tighten`, `Candidates` the paths `_indexed_paths` and
`_ordered_paths` offer, `Returned` the rows that come out of the path and the
Filter above it. The cost model may prefer any candidate.

**WhereClause.** A token is a record with the type and value the lexer gives it,
a tree a record per node of `sql/ast.py`. `Disjunction`, `Conjunction`,
`Negation` and `Test` are the levels of the descent, `Binds` what the binder
refuses, `Split` and `Reading` are `split_conjuncts` and `as_sargable`,
`Rebuilt` the Filter left above a path and `Evaluate` what the executor does
with it, `None` for UNKNOWN. A client sends the text of a tree (`TextOf`, the
inverse of the grammar), or that text with one token lost or sent twice.

## 3. Runs

Runs that pass:

- `table`: the paged store and the memory backend implement `StoredTable`
  (`PortSpec`), for a HEAP table and a SEQUENTIAL one: an insert takes an RID
  never used, a delete removes one row and no other, a flush makes everything
  durable, a restart finds what was flushed, a reorganization keeps the rows; a
  restart of the memory backend is the table dropped and created. In memory the
  two lists of a table never part (`SlicesExact`), and an index that answers has
  the rows of the table, so after a restart it does not answer until it is
  created again (`MemoryIndexExact`); both are checked for every pair of bounds.
  Bounds: two keys, pages of two records, up to three pages (heap) or two
  overflow pages and the main file (sequential), five slots in memory. Two slots
  tell first and last apart, three pages a page from its neighbours on both
  sides, and equal keys are allowed.
- `search`: three keys, main pages filled with two of three records, an
  overflow page. `TailPlaced` relates memory to disk, `RidsStable` says what no operation may do to an address,
  `MainOrdered` is what the descent relies on; `SearchExact` and `RangeExact`
  compare it with a scan for all keys and all bounds, `None` included.
- `hash`: buckets of one entry, a directory page of two slots, depth up to two,
  three entries. In one instance the keys are 0 and 2, which agree on the lowest
  bit, so a first split separates nothing and a second does, and entries repeat
  or are refused by the packing; in the other a third key has a bucket of its
  own while one is split. Every split, merge, chain and directory growth
  happens, the free list is used again, and the process may stop before any page
  write. Search answers exactly (`SearchIsExact`), each page has one owner
  (`PageOwnedOnce`), a closed file can be opened (`Reopenable`). The header is
  written only at the end of a call, so a stop can lose entries: `StopIsConfined`
  says of which bucket, and that no other key is touched. Two stops are worse,
  and the property promises nothing there; that it holds shows that no other stop
  is. When the directory gets a page more, the page before is linked to it first:
  until the new one is written it leads on to page 0, and `open` may go round in
  the file for ever, or take other pages for the directory, so the whole index is
  out of reach. And once a split has drained the chain of a bucket, a search of
  that bucket goes through a freed page to the header, which it reads as entries:
  it may not end, or find addresses nobody stored. `InsertEnds` is the termination
  that a comment of `_insert_key` claims of its recursion.
- `files`: one behaviour for each part of the physical layer.
  - The tree: five keys with two to a leaf and to an inner node, the fewest that
    split an inner node; one address, as an entry moves as a pair. At rest,
    search and range search answer exactly what was stored and the tree is
    balanced and linked both ways; at every write, the first that a stop cuts
    short included, every key still has a leaf and nothing is found at a wrong
    address.
  - The heap file: three pages of two records and three ids, which repeat, so
    that the record moved comes from the same page, the next or one further, and
    pages emptied by removals stand at the end. At every write no record is
    lost but the one being removed; at rest the file has what was stored. Two
    stops, the second in a file that the first left with a record twice.
  - The sequential file: five records of three keys, two to a page, so that
    chains of two and a second page of overflow exist and a reorganization, which
    fills a page to three quarters, writes five pages of one record. The main area is in order at
    every write; at rest search finds exactly what is stored, from the least key
    of the main area on (`sequential_below` is about the others); no write of an
    insert or a reorganization loses a record that a reorganization could not
    bring back. Two stops, one for the insert and one for the reorganization.
  - The storage service: three threads, two pages of two records: two requests
    that overlap and a third that comes later, allocations that return the same
    page included. Records of inserts that overlapped may be lost; a record
    whose insert no other overlapped never is (`SettledRecordsStay`).
  - The hash service: three threads, two names, two creations in one file. An
    index whose creation no other overlapped is in every catalog that can be
    read and is served by the object of its own header, and the header page of
    every listed index is in its file. A stop between emptying the catalog and
    writing it leaves one that cannot be read, and of that nothing is promised.

  Threads, index names and contents of records are only compared with each
  other, so the run takes states up to their permutations.
- `engine`: two keys; a tree and a hash, alone or together; a HEAP table of two
  pages of one record with statements of up to two rows, and a SEQUENTIAL one
  with a main page, an overflow page and statements of one. Every statement,
  every way one fails, restarts between any two steps, and a crash inside DROP
  TABLE. An open index that has the rows of the table keeps having them, but for
  a statement that fails and a reorganization, whatever the other index does
  (`IndexKept`); an open hash of a HEAP table never leads to a row with another
  key (`HashNeverMisleads`); no key of a tree has two entries (part of
  `EngineTypeOK`); what an INSERT, a COPY or a DELETE that succeeded did survives
  the process (`DurableAfterSuccess`).
- `where`: a behaviour either folds the conjuncts of one column (up to three
  conjuncts, three literals, column values around and between them: enough for
  every order of equality, bound and bound) or plans one statement over two
  columns. The clauses are every simple predicate over one value, in both orders
  and with NULL, alone, negated and beside another; and, over six of them, AND
  and OR of pairs, their negations and the pairs of those, which is every shape
  of precedence and parentheses of three predicates, and that of two pairs. `ReadAsWritten`: the tree
  read is the one written, and a damaged text that is still accepted loses no
  token but a parenthesis. `PlanKeepsRows` and `PlanAddsNoRows` compare what
  comes out of any plan with the clause, for every row with values and NULLs. A
  text of up to nine tokens may arrive damaged: the simple predicates, most of
  their negations, and the pairs of comparisons.

Runs that end in a violation; each states what the repository says of the
program, and the counterexample is what the code does:

- `search_emptied`: with pages 0, 1 and 2 of the main file live, delete all of
  page 1: `_locate_page` turns left at it and no longer reaches page 2.
- `hash_repeated`: fill a bucket at the depth limit until it chains, delete so
  that it merges to a smaller depth, insert again: `_split_bucket` drains the
  chain, frees it, and raises when a half does not fit.
- `bptree_stopped`: page 0 is said to be reserved for the root id. A stop
  between the two halves of a leaf split leaves the left leaf before a page of
  zeros; the next split of that leaf reads it as its neighbour, node 0, and
  writes that to page 0.
- `sequential_below`: a record below every key of the main area is chained from
  the first record of the first page, while search follows a chain from a record
  with a smaller key only. The next reorganization repairs it. No stop is
  needed.
- `engine_reorganized`: an index has the rows of the table; `reorganize` gives
  them new RIDs and the index keeps the old ones.
- `access_path_consumed`: `SequentialRangeScan` has inclusive bounds and
  consumes `>`; `k > 3 AND k = 2` folds to the equality alone.

**Fairness.** `ExtendibleHash` has weak fairness of the steps of one insert
(`InsertStep`) and of nothing else: an insert is one synchronous call that waits
for no lock, message or other call, so once begun it goes on, and the recursion
of `_insert_key` is what could keep it from ending. No call is ever obliged to
begin. The other modules assume none: their calls end after the steps they
have, and requests side by side in a service never wait for each other, so there
is no progress that could be in question. `CHECK_DEADLOCK FALSE` is set where
the model really stops: a plan that was chosen (`AccessPath`, `WhereClause`), a
hash whose insert raised or whose process stopped (`ExtendibleHash`), and a tree
whose page 0 was lost, on which no call returns (`BPlusTree`, `MCFiles`).

## 4. Proofs

`TableStoreProofs` proves, for any set of integer keys, any page capacity, both
kinds of table and any bounds, `TypeCorrect`, `TailAlwaysPlaced`,
`RidsAreStable`, `MainAlwaysOrdered` and `TableImplementsPort`. The type invariant
alone is not inductive: a flush writes page `tail.id`, and only because that is the last block or the one after it does the
file stay a sequence of pages without a gap, and keep the other blocks. So the
induction is on `IInv == TypeOK /\ TailPlaced`. It next says
what each operation does to the pages (`InsertAppends`, `DeleteEmptiesSlot`) and
so to the rows (`InsertAddsRow`, `DeleteRemovesRow`, `FlushKeepsRows`), and that
a clean table is what a restart finds (`CleanIsDurable`); `RidsAreStable` follows,
and only reorganize, drop and restart are outside it. `MainAlwaysOrdered` says
what the binary descent relies on: slot `a` of block `p` that reorganize writes
holds row `(p - 1) * PerPage + a` of the sorted rows (`RewrittenSlot`), so the
blocks are in order (`SortedPages`), any number of them when the process dies in
between, and a deletion only makes holes.

`TableImplementsPort` is the refinement of `StoredTable`, step by step: an insert
is the port's insert, whether it fills the page in memory or pushes it to disk
(`InsertIsPortInsert`), a deletion is buffered or on disk at once
(`DeleteIsPortDelete`), a crash leaves what was durable. A deletion from a block
is on disk and nothing is buffered for it only because the page in memory
differs from its block by holes and by rows at its end, which is `TailAhead`. For
a reorganization, RIDs and the rows of the sorted list correspond one to one
(`OneSlotForEachRow`, `RowIsRewritten`), so each key has as many rows as before
(`AllLaidOut`).

The first part of `EngineProofs` proves, for any keys, any page capacity and files of any
length, `SearchIsExact` and `RangeIsExact`. The loop of `_locate_page` is a
recursive function, and nothing here proves by induction what such a function
computes. Two arguments by a least number replace it. A pass leaves a shorter
span (`PassNarrows`), so if the loop had no answer for spans of some width,
there would be a least such width, and the answers for narrower spans extend to
it (`OnePageMore`, `LoopEnds`): the function is defined, and takes the step the
code takes (`DescentTakesSteps`). In the same way a property of all spans
follows from the pass that leads to a narrower one (`EverySpan`). With sorted
pages and no live page to the right of an emptied one, a page with the key stays
in the span (`KeyStaysInSpan`), and the pages a sweep wants stay in the span or
from its candidate on (`PassReaches`). What the pages hold is related to the
rows of the table by `RowsInPages`, `PagesRead` and, for the overflow after the
flush, `OverflowRead`.

`MCTableStoreProofs` carries the refinement over to the run `table`: a behaviour
of `MCTableStore` is one of a HEAP table, of a SEQUENTIAL table or of a table in
memory (`OneStore`), and in each of the three the port is implemented
(`EveryStoreImplementsPort`). In memory that needs that an RID handed out is new
(`RidIsNew`). It also proves `SlicesAreExact`. `MemoryInv` says that `order` has
every RID once and that `keys` has their keys beside it, sorted. An insert puts
both at the place bisect finds, a deletion takes both out at the place of the
RID; that a bisection of a sorted list splits it where the bound falls
(`Bisected`) comes from the least place that a set of places lacks
(`LeastElement`, `FirstPart`), which takes the place of an induction.

For the index in memory it proves `MemoryIndexIsExact`. `IndexInv` says of an index
that answers that its entries have the keys of the table's rows and no other, that
the list of each key (`Lists`) has the RIDs of its rows, each once, and that
`keys` has these keys, each once and sorted. An insert opens a list or
appends to one, and a key takes its place only with the first of its rows
(`IndexWithKeeps`); a deletion takes the RID from its list and, when that gets
empty, the key from the place where bisect finds it (`IndexWithoutKeeps`). CREATE
INDEX loads what the scan yields: each round takes one row in, new to the index
because `order` has no RID twice (`LoadIsExact`, with `MemoryInv`). A search by
range gathers the lists of the keys in the range, which ascend
(`BetweenIsExact`, `GatherIsExact`).

The first part of `QueryEngineProofs` proves, for clauses of any length over any integers,
`TypeCorrect`, `NoRowIsLost` and `PathsAreExact`. The invariant relates the
folded range to the conjuncts folded so far: the bounds hold every value wanted
(`BoundsCover`), hold only such values when an equality comes first
(`BoundsEnforce`), and close around that equality (`EqualityInside`). Each
follows from what one `tighten` does to the values a range admits
(`TightenNarrows`), proved once per operator.

`BPlusTreeProofs` proves, for any set of integer keys, nodes of any capacity, a
tree of any height and any number of keys, `TreeSearch`, `TreeRangeSearch`,
`TreeReadable` and `TreeKeepsBalance`. None of them is inductive. `TreeInv` says what the file
stands for. At rest it is a tree of the entries stored (`IsTree`): each page has a
level and a range, a convex set of integers; the children of a node are one level
down and their ranges are the shares that its separators cut its range into;
ranges of one level have no integer in common; a leaf has, in order, the entries
stored whose keys are in its range; and the next leaf has the integers right
after its own. That is what a descent needs: the pages it passes have the key in
their ranges (`RouteRanges`), and the leaf it ends at answers for it
(`LeafReached`). During an insert the writes still to come lead, each of them to
a file in which every descent ends at a leaf with no foreign entry (`Sound`), and
the last one to a tree with the new entry (`Leads`). Between a split and the
write of the parent the new page has no parent: the file is then a tree but for
one share, which is the range of two pages together (`Meant`), and a split higher
up hands the same to its own parent, until a node has room or the root grows
(`InnerHands`, `GrownTree`). `LevelAbove` is one round of that loop. Cutting a
range at a separator keeps it convex and beside its neighbours (`RangesCut`), and
inserting a separator changes one share into two (`KeysInserted`). A range
search adds the chain of leaves: no leaf is on it twice, since each has the
integers after those of the one before, so it is no longer than the file has
pages (`ChainIsShort`) and ends where nothing is above; from the leaf of the low
end it passes every key that is not below it (`CoversFrom`). The descent
and the way up are recursive functions on an interval, treated as in
`SequentialFileProofs`. After a stop nothing is promised of what the tree finds:
`bptree_stopped` shows why.

What holds after a stop too is its type, `TreeTypeCorrect`, which is not inductive
either: an insert splits whatever file the last stop left. `TypeInv` says that the
file is `FileFits`, pages that fit (`NodeFits`) and point to pages of the file,
and that each write still to come keeps it so or adds the next page (`WriteFits`,
`Grows`). A page allocated and never written reads as an internal node of page 0,
and writing that node back would replace page 0. But the only child of such a node
is page 0, whose only child is page 0 again (`Lost`), so a descent that meets one
never ends at a leaf (`PathToLeaf`). So every node that an
insert splits has its own number (`LeadsDown`), and what a split hands up is a key
and a page of the file (`HandsFit`).

`HeapFileProofs` proves, for any records, any page capacity, a file of any size
and any number of stops, `HeapTypeOK`, `HeapContent` and `HeapNoneLost`. Neither
of the last two is inductive: what a file holds in the middle of a call says
nothing of what the call will leave. `HInv` says it of the writes that are still
coming: each leaves a file that a stop may leave (`Sound`), with every record
that is wanted and one more at most, and the last one leaves what the call
promises (`Done`). Records are counted by their places, so that a write which
changes one place changes the number of one record, or of two (`RecordAdded`,
`RecordReplaced`, `LastRecordCut`); a remove within one page, which is one write,
is counted as the replacement and the cut after each other (`PutTwice`). A full
last page that is written again is as it was (`PutSame`). A stop that leaves the
last page without its number is where the promise ends (`torn`); the shape of
the file is kept even then.

`SequentialFileProofs` proves, for any set of integer keys, any page capacity,
files of any size and any number of stops, `SequentialOrder`, `SequentialContent`,
`SequentialNoneLost` and `SequentialSearch`. The induction is on `SInv`: besides the shape of the
two areas (`Shape`), `Promise` says of every write still coming that it leaves
the main area in order with each record that was there, and of the last one that
it leaves what the call promises. It is proved where a call computes its writes:
for a page with room (`InsertWithRoom`), for overflow (`InsertInOverflow`), for a
reorganization (`ReorganizationKeeps`); what is left after one write keeps it
(`KeptByTail`). That no record is lost in overflow needs that its pages carry
their own numbers, the last one perhaps not yet (`NearlyNumbered`); a stop right
after a page is allocated breaks just that, and there the promise ends (`torn`).
The loops of the code (reading, sorting, merging, halving) are recursive functions
on an interval. `LoopRuns` says that such a function exists and takes its steps,
`EveryRound` that a fact which each round hands on holds of the last one; both by a
least counterexample. With them: the halving ends at the last page whose first key
is not greater (`PassHalves`, `PageFound`), the sort gives the same records in
order (`SortedIsSorted`), the merge of two ordered lists is ordered and has the
records of both (`YieldOver`, `YieldMain`, `MergedIsMerged`), and cutting an
ordered list into pages gives an ordered area (`PagedIsArea`).

The search needs the chains of overflow as well, which are an invariant of their
own on top of `SInv` (`LinkPromise`, theorem `SequentialChains`). A record of the
main area owns the keys that an insert would chain from it (`IsOwner`); for a key
there is one owner at most (`OneOwner`). `Chains` says that a link leads to a
record that is there and, from overflow, to an older one; and that a record of
overflow comes right after its owner or after a record with the same owner,
unless the main area has its key: a reorganization that stopped half way leaves
the records of overflow without a link, but the main area has them too. It holds
whenever a call returns, and wherever one may stop without tearing a chain
(`Intact`); a stop that does tear one ends the promise, and the next
reorganization, which undoes all links, renews it. A new record comes between
its owner and what the owner had, so the chains grow in the middle
(`OverflowKeepsChains`); a page with room has no chains, and one that is full is
not sorted again (`RoomKeepsOwners`). Since links lead to older records, a chain
ends (`ChainShape`); a record that its owner's chain lacked would be followed from
a newer one that it lacks too, so there is none (`ChainHasOwned`). A key below
every key of the main area is excluded by the property (`Least`):
`sequential_below` shows that search does not look for it.

Its type, `SequentialTypeCorrect`, holds in every state. To the shape of the areas
it adds `NamePromise`, that in each file still to come a link names a page that
the overflow has then: a torn chain leads to a record that is not there yet, but
to a page that is.

`MCFilesProofs` carries the theorems of all three over to the run `files`: a behaviour of `MCFiles` is
one of each of its parts (`OneOfEach`). With the types of the record endpoints,
the types of the four give `FilesTypeCorrect`. It also has the theorems about the
services. For the record endpoints it proves, for any number of threads, any
records, any page capacity and a file of any size, `RecordsTypeCorrect` and
`SettledRecordsAreKept`.
`SettledRecordsStay` is not inductive: an insert will write a page it read long
before. `RecordsInv` adds what makes that harmless: an insert under way has read every
settled record of its page (`SeenAreSettled`), a page still being allocated has
none (`NoneInNewPages`), and a request that counts as alone shares its page with
no other (`AloneOnItsPage`), which is what makes both survive the moment a record
becomes settled. `ServiceTypeOK` is part of it, since a block is written at the
end of the file or inside it, never past the end.

For the index endpoints it proves, for any number of threads and any names,
`CreatedIsListed`, `CreatedIsServed` and `ListedIsThere`. None is inductive: a
creation saves a catalog it loaded long before. So the induction (`CatalogInv`) is over
`Views`, the catalog on disk together with those that creations under way have
loaded and may still save: every index listed by a view has its header page in
its file (`ViewsExist`), every view lists the indexes created alone
(`ViewsListCreated`), and an index nobody opened since the start is listed by
all of them alike (`ViewsAgree`), so a request that opens it opens the one the
catalog names (`OpeningsListed`).

`EngineProofs` proves, for any keys, any page capacity, both kinds of table and
any bounds, `EngineTypeCorrect` and `TailStaysPlaced`. Each step of the engine is
a step of the table or leaves it alone (`StatementsUseTheTable`); the one
exception is DROP TABLE cut short, which leaves the overflow behind. That a tree
has one entry for a key at most needs that the order in which a scan yields rows
is total (`ScanIsTotal`): of two rows with one key, CREATE INDEX loads one.

It also proves `HashesNeverMislead`, `SuccessIsDurable` and `IndexesStayExact`.
`RInv` adds to the engine's invariant what its statements remember: a DELETE
removes from each index the keys it collected steps ago, so each row it has
still to delete must have the key it was collected with (`DoomedKeepKeys`); on a
SEQUENTIAL table it collected them from the blocks on disk, so `TailAhead` is
needed here too.

The second part of `QueryEngineProofs` carries the engine's theorems over to the module that the run
`engine` checks: a behaviour of `MCEngine` is one of the engine on a HEAP table
or on a SEQUENTIAL one (`OneKindOfTable`), and the constants of both kinds meet
the engine's assumptions.

Assumptions: the named `ASSUME`s of the modules (keys and literals are integers,
`Hole` and `None` are not, a capacity is at least one, an unformatted page is no
sequence of records). What a fold or a recursion over
data computes is proved only where it is a loop over an interval, as above. The
others (the chain of pages of a hash, the parser), `ENABLED` and liveness stay
with TLC: `ExtendibleHash` and `WhereClause` are model-checked only.
`WhereClause` is the one module with RECURSIVE operators; no module with a
theorem reaches it.

## 5. Not modelled

- Text and layout: the characters of a token (`lexer.py`), the statements other
  than their WHERE clause, whose grammar has no recursion, names and types and
  the coercion of literals, codecs, byte offsets of a page, the JSON of the
  catalog. They keep no state, and one value in, one value
  out is what unit tests are good at.
- Prices of plans and the statistics they rest on: a wrong price picks another
  path, and the models let any path win. For the same reason EXPLAIN and the
  counters of disk accesses are left out. So are ORDER BY, LIMIT and the
  projection, which work on rows already found.
- The command line, the web front end, the benchmarks and the reports.
- In the storage service, two inserts into its one tree (`src/storage/main.py:166`),
  which interleave page by page: `BPlusTree` has one call at a time, and no text
  of the repository says what such inserts should preserve.
- In the hash service, two requests that each open one index
  (`src/hashing_dinamico/api.py:45`), with a directory and a free list each, and
  the client that keeps pages in the storage service, which is off by default.
- What the calls after a stop make of a hash file: its header may name a free
  page that is in use again. `ExtendibleHash` says what the next `open` and
  `search` find, and ends there.
- Pages of zeros at the end of a heap file or a sequential file after a stop
  (`torn`): the next insert overwrites page 0. The models have these states, but
  the properties exclude them, as nothing promises anything there.

## 6. Plan

The order so far: the table store and its port, searching it, the hash, the
engine over both, access paths, the tree, the two record files, the services;
then stops inside a call of the hash and its liveness, COPY and two indexes at
once, the memory backend, the WHERE clause. What is left:

1. Proofs: `PageOwnedOnce` and `DirectoryConsistent` of the hash, with the loops of `SequentialFileProofs` in
   place of folds.
2. Two objects open on one index of the hash service, over the page writes of
   `ExtendibleHash`; two inserts into one tree of the storage service.
3. ORDER BY over an ordered path, where the order a path delivers stands in for
   a sort.
