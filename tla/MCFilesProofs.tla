---------------------------- MODULE MCFilesProofs ----------------------------
(***************************************************************************)
(* What is proved of the physical layer: for any number of threads, what   *)
(* the record endpoints and the hash endpoints keep, and, from the theorems *)
(* about one heap file and one sequential file, what holds of those of the *)
(* composition.                                                            *)
(*                                                                         *)
(* Records (RecordsInv).  SettledRecordsStay is not inductive: an insert   *)
(* under way will write the page it read long ago.  What makes it safe is  *)
(* that this page already had every settled record (SeenAreSettled), and   *)
(* that a page somebody is still allocating has none (NoneInNewPages); both *)
(* need that a request that counts as alone has its page for itself.       *)
(*                                                                         *)
(* Hash indexes (CatalogInv).  None of the three properties is inductive,  *)
(* as a creation will save a catalog it loaded long ago.  Such a catalog   *)
(* counts as one that may come to be on disk (Views), and what holds of    *)
(* the catalog is shown of all of them.                                    *)
(***************************************************************************)
EXTENDS MCFiles, TLAPS

(* The record endpoints.                                                   *)

(* A request that counts as alone shares its page with no other. *)
AloneOnItsPage ==
  \A c, d \in Clients :
    c # d /\ call[c] # NoCall /\ call[d] # NoCall /\ call[c].page = call[d].page
      => ~call[c].alone

(* Inserts under way have read every settled record of their page. *)
SeenAreSettled ==
  \A s \in settled : \A c \in Clients :
    call[c].op = "insert" /\ call[c].page = s[1] =>
      s[2] \in DOMAIN call[c].seen /\ call[c].seen[s[2]] = s[3]

(* A page that is being allocated has no settled record. *)
NoneInNewPages ==
  \A s \in settled : \A c \in Clients : call[c].op = "allocate" => call[c].page # s[1]

RecordsInv == ServiceTypeOK /\ AloneOnItsPage /\ SeenAreSettled /\ NoneInNewPages /\ SettledRecordsStay

-----------------------------------------------------------------------------
(* What kind of record a request is follows from its op. *)
LEMMA CallKinds ==
  ASSUME NEW q \in Request
  PROVE  /\ q.op \in {"none", "allocate", "insert"}
         /\ q.op = "none" <=> q = NoCall
         /\ q.op = "allocate" => q \in [op : {"allocate"}, page : Nat, zeroed : BOOLEAN, alone : BOOLEAN]
         /\ q.op = "insert" => q \in [op : {"insert"}, page : Nat, alone : BOOLEAN, record : Records,
                                      seen : {s \in Seq(Records) : Len(s) < PageCapacity}]
  BY DEF Request, NoCall

(* A block written at a page of the file, or right after its end, leaves a file
   whose other pages are as before.                                        *)
LEMMA WrittenBlocks ==
  ASSUME NEW p \in Nat, NEW page \in Page, blocks \in Seq(Page), p <= Len(blocks),
         WriteBlock(p, page)
  PROVE  /\ blocks' \in Seq(Page)
         /\ Len(blocks') >= Len(blocks)
         /\ p < Len(blocks')
         /\ blocks'[p + 1] = page
         /\ \A q \in Pages : q # p => blocks'[q + 1] = blocks[q + 1]
  BY DEF WriteBlock, Pages

(* What a request keeps when another one starts for its page. *)
Same(q, r) ==
  /\ r.op = q.op
  /\ q.op # "none" => r.page = q.page
  /\ q.op = "allocate" => r.zeroed = q.zeroed
  /\ q.op = "insert" => r.seen = q.seen /\ r.record = q.record

(* A request that another one overlaps is otherwise the same request. *)
LEMMA NoLongerAlone ==
  ASSUME NEW q \in Request, q # NoCall, NEW b \in BOOLEAN
  PROVE  /\ [q EXCEPT !.alone = b] \in Request \ {NoCall}
         /\ [q EXCEPT !.alone = b].alone = b
         /\ Same(q, [q EXCEPT !.alone = b])
<1>1. CASE q.op = "allocate"
  <2>1. q \in [op : {"allocate"}, page : Nat, zeroed : BOOLEAN, alone : BOOLEAN]
    BY <1>1, CallKinds
  <2>2. [q EXCEPT !.alone = b] \in [op : {"allocate"}, page : Nat, zeroed : BOOLEAN, alone : BOOLEAN]
    BY <2>1
  <2> QED  BY <2>1, <2>2 DEF Request, NoCall, Same
<1>2. CASE q.op = "insert"
  <2> DEFINE Insertion == [op : {"insert"}, page : Nat, alone : BOOLEAN, record : Records,
                           seen : {t \in Seq(Records) : Len(t) < PageCapacity}]
  <2>1. q \in Insertion
    BY <1>2, CallKinds
  <2>2. [q EXCEPT !.alone = b] \in Insertion
    BY <2>1
  <2> QED  BY <2>1, <2>2 DEF Request, NoCall, Same
<1> QED  BY <1>1, <1>2, CallKinds

(* When a request starts, the others keep what they were doing, and those that
   still count as alone are.                                               *)
LEMMA RequestBegins ==
  ASSUME NEW c \in Clients, NEW p \in Nat, NEW q \in Request, q # NoCall, q.page = p,
         call \in [Clients -> Request], call[c] = NoCall, AloneOnItsPage, Begins(c, p, q)
  PROVE  /\ call' \in [Clients -> Request]
         /\ AloneOnItsPage'
         /\ Same(q, call'[c])
         /\ \A d \in Clients \ {c} : Same(call[d], call'[d])
<1> DEFINE Only == \A e \in Clients \ {c} : ~UnderWay(e, p)
<1>1. /\ call'[c] = [q EXCEPT !.alone = Only]
      /\ \A d \in Clients \ {c} :
           call'[d] = IF UnderWay(d, p) THEN [call[d] EXCEPT !.alone = FALSE] ELSE call[d]
  BY DEF Begins
<1>2. call'[c] \in Request \ {NoCall} /\ call'[c].alone = Only /\ Same(q, call'[c])
  <2>1. Only \in BOOLEAN
    OBVIOUS
  <2> HIDE DEF Only
  <2>2. /\ [q EXCEPT !.alone = Only] \in Request \ {NoCall}
        /\ [q EXCEPT !.alone = Only].alone = Only
        /\ Same(q, [q EXCEPT !.alone = Only])
    BY <2>1, NoLongerAlone
  <2> QED  BY <1>1, <2>2
<1>3. ASSUME NEW d \in Clients \ {c}
      PROVE  /\ call'[d] \in Request
             /\ Same(call[d], call'[d])
             /\ (call'[d] = NoCall) = (call[d] = NoCall)
             /\ UnderWay(d, p) => ~call'[d].alone
             /\ ~UnderWay(d, p) => call'[d] = call[d]
  <2>1. CASE UnderWay(d, p)
    <3>1. call[d] # NoCall /\ call'[d] = [call[d] EXCEPT !.alone = FALSE]
      BY <1>1, <2>1 DEF UnderWay
    <3> QED  BY <3>1, <2>1, NoLongerAlone
  <2>2. CASE ~UnderWay(d, p)
    BY <1>1, <2>2 DEF Same
  <2> QED  BY <2>1, <2>2
<1>4. call' \in [Clients -> Request]
  <2>1. \A d \in Clients : call'[d] \in Request
    BY <1>2, <1>3
  <2>2. DOMAIN call' = Clients /\ call' = [d \in Clients |-> call'[d]]
    BY DEF Begins
  <2> QED  BY <2>1, <2>2
<1>5. call'[c].page = p
  <2>1. q.op # "none"
    BY CallKinds
  <2> QED  BY <2>1, <1>2 DEF Same
<1>6. ASSUME NEW d \in Clients \ {c}, call'[d] # NoCall
      PROVE  call[d] # NoCall /\ call'[d].page = call[d].page
  <2>1. call[d] # NoCall
    BY <1>3, <1>6
  <2>2. call[d].op # "none"
    BY <2>1, CallKinds
  <2> QED  BY <2>1, <2>2, <1>3 DEF Same
<1>7. AloneOnItsPage'
  <2> SUFFICES ASSUME NEW d \in Clients, NEW e \in Clients, d # e,
                      call'[d] # NoCall, call'[e] # NoCall, call'[d].page = call'[e].page
               PROVE  ~call'[d].alone
    BY DEF AloneOnItsPage
  <2>1. CASE d = c
    <3>1. UnderWay(e, p)
      BY <2>1, <1>5, <1>6 DEF UnderWay
    <3> QED  BY <2>1, <3>1, <1>2
  <2>2. CASE d # c /\ e = c
    <3>1. UnderWay(d, p)
      BY <2>2, <1>5, <1>6 DEF UnderWay
    <3> QED  BY <2>2, <3>1, <1>3
  <2>3. CASE d # c /\ e # c
    <3>1. ~call[d].alone
      BY <2>3, <1>6 DEF AloneOnItsPage
    <3> QED  BY <2>3, <3>1, <1>3
  <2> QED  BY <2>1, <2>2, <2>3
<1> QED  BY <1>2, <1>3, <1>4, <1>7

-----------------------------------------------------------------------------
(* How the invariant follows, in the next state, once the types and the requests
   are known to be in order: nothing settled before is disturbed.          *)
LEMMA SettledKept ==
  ASSUME RecordsInv, settled' = settled, blocks' = blocks,
         \A c \in Clients :
           \/ call'[c].op = "none"
           \/ Same(call[c], call'[c])
           \/ call'[c].op = "insert" /\ call'[c].page \in Pages /\ Block(call'[c].page) # Unformatted
                /\ call'[c].seen = Block(call'[c].page)
           \/ call'[c].op = "allocate" /\ call'[c].page \notin Pages
  PROVE  SeenAreSettled' /\ NoneInNewPages' /\ SettledRecordsStay'
<1>1. SettledRecordsStay'
  BY DEF RecordsInv, SettledRecordsStay, Fetches, Block, Pages
<1>2. SeenAreSettled'
  <2> SUFFICES ASSUME NEW s \in settled, NEW c \in Clients,
                      call'[c].op = "insert", call'[c].page = s[1]
               PROVE  s[2] \in DOMAIN call'[c].seen /\ call'[c].seen[s[2]] = s[3]
    BY DEF SeenAreSettled
  <2>1. CASE Same(call[c], call'[c])
    BY <2>1 DEF RecordsInv, SeenAreSettled, Same
  <2>2. CASE call'[c].seen = Block(call'[c].page)
    BY <2>2 DEF RecordsInv, SettledRecordsStay, Fetches
  <2> QED  BY <2>1, <2>2
<1>3. NoneInNewPages'
  <2> SUFFICES ASSUME NEW s \in settled, NEW c \in Clients,
                      call'[c].op = "allocate"
               PROVE  call'[c].page # s[1]
    BY DEF NoneInNewPages
  <2>1. CASE Same(call[c], call'[c])
    BY <2>1 DEF RecordsInv, NoneInNewPages, Same
  <2>2. CASE call'[c].page \notin Pages
    BY <2>2 DEF RecordsInv, SettledRecordsStay
  <2> QED  BY <2>1, <2>2
<1> QED  BY <1>1, <1>2, <1>3

(* A page written with every settled record it had keeps all settled records. *)
LEMMA PageWritten ==
  ASSUME RecordsInv, NEW p \in Nat, p <= Len(blocks), NEW page \in Page, WriteBlock(p, page),
         \A s \in settled : s[1] = p => Fetches(page, s[2], s[3])
  PROVE  /\ blocks' \in Seq(Page) /\ Len(blocks') >= Len(blocks) /\ p < Len(blocks')
         /\ blocks'[p + 1] = page
         /\ \A s \in settled : s[1] \in Pages' /\ Fetches(Block(s[1])', s[2], s[3])
<1>1. /\ blocks' \in Seq(Page) /\ Len(blocks') >= Len(blocks) /\ p < Len(blocks')
      /\ blocks'[p + 1] = page
      /\ \A q \in Pages : q # p => blocks'[q + 1] = blocks[q + 1]
  BY WrittenBlocks DEF RecordsInv, ServiceTypeOK
<1>2. ASSUME NEW s \in settled
      PROVE  s[1] \in Pages' /\ Fetches(Block(s[1])', s[2], s[3])
  <2>1. s[1] \in Pages /\ Fetches(Block(s[1]), s[2], s[3])
    BY DEF RecordsInv, SettledRecordsStay
  <2>2. s[1] \in Pages'
    BY <1>1, <2>1 DEF Pages, RecordsInv, ServiceTypeOK
  <2>3. CASE s[1] = p
    <3>1. Block(s[1])' = page
      BY <1>1, <2>3 DEF Block
    <3> QED  BY <2>2, <2>3, <3>1
  <2>4. CASE s[1] # p
    <3>1. Block(s[1])' = Block(s[1])
      BY <1>1, <2>1, <2>4 DEF Block
    <3> QED  BY <2>1, <2>2, <3>1
  <2> QED  BY <2>3, <2>4
<1> QED  BY <1>1, <1>2

(* A file that only grows still has the pages that requests are for. *)
PageInFile(c) ==
  /\ call[c].op = "insert" => call[c].page < Len(blocks)
  /\ call[c].op = "allocate" => IF call[c].zeroed THEN call[c].page < Len(blocks)
                                                  ELSE call[c].page <= Len(blocks)

(* A file that only grows keeps the pages that requests are about. *)
LEMMA PagesStayInFile ==
  ASSUME ServiceTypeOK, blocks' \in Seq(Page), Len(blocks') >= Len(blocks),
         NEW d \in Clients, call'[d].op = "none" \/ call'[d] = call[d]
  PROVE  PageInFile(d)'
<1>1. CASE call'[d].op = "none"
  BY <1>1 DEF PageInFile
<1>2. CASE call'[d] = call[d] /\ call[d].op # "none"
  <2>1. call[d].page \in Nat
    BY <1>2, CallKinds DEF ServiceTypeOK
  <2> QED  BY <1>2, <2>1 DEF PageInFile, ServiceTypeOK
<1> QED  BY <1>1, <1>2

-----------------------------------------------------------------------------
(* A service over an empty file. *)
LEMMA RecordsInitHolds == ServiceInit => RecordsInv
<1> SUFFICES ASSUME ServiceInit PROVE RecordsInv
  OBVIOUS
<1>1. \A c \in Clients : call[c] = NoCall
  BY DEF ServiceInit
<1>2. ServiceTypeOK
  BY <1>1 DEF ServiceInit, ServiceTypeOK, Request, NoCall
<1> QED  BY <1>1, <1>2 DEF ServiceInit, RecordsInv, AloneOnItsPage, SeenAreSettled, NoneInNewPages,
                           SettledRecordsStay

(* A request takes the next page id, and whoever else has it is not alone. *)
LEMMA AllocateStarts ==
  ASSUME RecordsInv, NEW c \in Clients, StartAllocate(c)
  PROVE  RecordsInv'
<1> DEFINE p == NewPageId
           q == Allocating(p, FALSE)
<1>1. p \in Nat /\ p = Len(blocks) /\ p \notin Pages
  BY DEF NewPageId, Pages, RecordsInv, ServiceTypeOK
<1>2. q \in Request /\ q # NoCall /\ q.page = p /\ q.op = "allocate" /\ ~q.zeroed
  BY <1>1 DEF Allocating, Request, NoCall
<1>3. /\ call' \in [Clients -> Request] /\ AloneOnItsPage'
      /\ Same(q, call'[c])
      /\ \A d \in Clients \ {c} : Same(call[d], call'[d])
  <2> HIDE DEF q, p
  <2> QED  BY <1>1, <1>2, RequestBegins DEF StartAllocate, RecordsInv, ServiceTypeOK, p, q
<1>4. call'[c].op = "allocate" /\ ~call'[c].zeroed /\ call'[c].page = p
  BY <1>2, <1>3 DEF Same
<1>5. ServiceTypeOK'
  BY <1>1, <1>3, <1>4 DEF RecordsInv, ServiceTypeOK, StartAllocate, Same
<1>6. SeenAreSettled' /\ NoneInNewPages' /\ SettledRecordsStay'
  BY <1>1, <1>3, <1>4, SettledKept DEF StartAllocate
<1> QED  BY <1>3, <1>5, <1>6 DEF RecordsInv

(* An insert reads its page, and whoever else has it is not alone. *)
LEMMA InsertStarts ==
  ASSUME RecordsInv, NEW c \in Clients, NEW p \in Pages, NEW r \in Records, StartInsert(c, p, r)
  PROVE  RecordsInv'
<1> DEFINE q == Inserting(p, Block(p), r)
<1>1. p \in Nat /\ p < Len(blocks) /\ Block(p) \in Page /\ Block(p) # Unformatted
      /\ Len(Block(p)) < PageCapacity
  BY DEF Pages, RecordsInv, ServiceTypeOK, Block, StartInsert, HasRoom
<1>2. q \in Request /\ q # NoCall /\ q.page = p /\ q.op = "insert" /\ q.seen = Block(p)
  BY <1>1 DEF Inserting, Request, NoCall, Page
<1>3. /\ call' \in [Clients -> Request] /\ AloneOnItsPage'
      /\ Same(q, call'[c])
      /\ \A d \in Clients \ {c} : Same(call[d], call'[d])
  <2> HIDE DEF q
  <2> QED  BY <1>1, <1>2, RequestBegins DEF StartInsert, RecordsInv, ServiceTypeOK, q
<1>4. call'[c].op = "insert" /\ call'[c].seen = Block(p) /\ call'[c].page = p
  BY <1>2, <1>3 DEF Same
<1>5. ServiceTypeOK'
  BY <1>1, <1>3, <1>4 DEF RecordsInv, ServiceTypeOK, StartInsert, Same
<1>6. SeenAreSettled' /\ NoneInNewPages' /\ SettledRecordsStay'
  BY <1>1, <1>3, <1>4, SettledKept DEF StartInsert
<1> QED  BY <1>3, <1>5, <1>6 DEF RecordsInv

(* A page being allocated is zeros first, also over what another put there. *)
LEMMA ZeroesWritten ==
  ASSUME RecordsInv, NEW c \in Clients, ZeroPage(c)
  PROVE  RecordsInv'
<1> DEFINE p == call[c].page
<1>1. call[c] \in [op : {"allocate"}, page : Nat, zeroed : BOOLEAN, alone : BOOLEAN]
  BY CallKinds DEF ZeroPage, RecordsInv, ServiceTypeOK
<1>2. p \in Nat /\ p <= Len(blocks)
  BY <1>1 DEF RecordsInv, ServiceTypeOK, ZeroPage
<1>3. \A s \in settled : s[1] # p
  BY DEF RecordsInv, NoneInNewPages, ZeroPage
<1>4. /\ blocks' \in Seq(Page) /\ Len(blocks') >= Len(blocks) /\ p < Len(blocks')
      /\ \A s \in settled : s[1] \in Pages' /\ Fetches(Block(s[1])', s[2], s[3])
  BY <1>2, <1>3, PageWritten DEF ZeroPage, Page
<1>5. /\ call'[c].op = "allocate" /\ call'[c].page = p /\ call'[c].zeroed
      /\ call'[c].alone = call[c].alone /\ call'[c] # NoCall /\ call[c] # NoCall
      /\ call'[c] \in [op : {"allocate"}, page : Nat, zeroed : BOOLEAN, alone : BOOLEAN]
      /\ \A d \in Clients \ {c} : call'[d] = call[d]
  <2>1. /\ call'[c] = [call[c] EXCEPT !.zeroed = TRUE]
        /\ \A d \in Clients \ {c} : call'[d] = call[d]
    BY DEF ZeroPage, RecordsInv, ServiceTypeOK
  <2>2. call'[c] \in [op : {"allocate"}, page : Nat, zeroed : BOOLEAN, alone : BOOLEAN]
    BY <1>1, <2>1
  <2>3. call'[c].page = p /\ call'[c].zeroed /\ call'[c].alone = call[c].alone
    BY <1>1, <2>1
  <2> QED  BY <1>1, <2>1, <2>2, <2>3 DEF NoCall
<1>6. call' \in [Clients -> Request]
  <2>1. call'[c] \in Request
    BY <1>5 DEF Request
  <2> QED  BY <2>1 DEF ZeroPage, RecordsInv, ServiceTypeOK
<1>7. ServiceTypeOK'
  <2>1. \A d \in Clients \ {c} : PageInFile(d)'
    BY <1>4, <1>5, PagesStayInFile DEF RecordsInv
  <2>2. PageInFile(c)'
    BY <1>4, <1>5 DEF PageInFile
  <2> QED  BY <1>4, <1>6, <2>1, <2>2 DEF RecordsInv, ServiceTypeOK, PageInFile, ZeroPage
<1>8. AloneOnItsPage'
  BY <1>5 DEF RecordsInv, AloneOnItsPage
<1>9. SeenAreSettled' /\ NoneInNewPages'
  BY <1>3, <1>5 DEF RecordsInv, SeenAreSettled, NoneInNewPages, ZeroPage
<1>10. SettledRecordsStay'
  BY <1>4 DEF SettledRecordsStay, ZeroPage
<1> QED  BY <1>7, <1>8, <1>9, <1>10 DEF RecordsInv

(* A page being allocated is formatted, with no record. *)
LEMMA PageFormatted ==
  ASSUME RecordsInv, NEW c \in Clients, FormatPage(c)
  PROVE  RecordsInv'
<1> DEFINE p == call[c].page
<1>1. call[c] \in [op : {"allocate"}, page : Nat, zeroed : BOOLEAN, alone : BOOLEAN]
  BY CallKinds DEF FormatPage, RecordsInv, ServiceTypeOK
<1>2. p \in Nat /\ p <= Len(blocks)
  BY <1>1 DEF RecordsInv, ServiceTypeOK, FormatPage
<1>3. \A s \in settled : s[1] # p
  BY DEF RecordsInv, NoneInNewPages, FormatPage
<1>4. <<>> \in Page
  BY PageCapacityAssumption DEF Page
<1>5. /\ blocks' \in Seq(Page) /\ Len(blocks') >= Len(blocks)
      /\ \A s \in settled : s[1] \in Pages' /\ Fetches(Block(s[1])', s[2], s[3])
  BY <1>2, <1>3, <1>4, PageWritten DEF FormatPage
<1>6. /\ call'[c] = NoCall /\ call'[c].op = "none"
      /\ \A d \in Clients \ {c} : call'[d] = call[d]
      /\ call' \in [Clients -> Request]
  BY DEF FormatPage, Ends, RecordsInv, ServiceTypeOK, NoCall, Request
<1>7. ServiceTypeOK'
  <2>1. \A d \in Clients : PageInFile(d)'
    BY <1>5, <1>6, PagesStayInFile DEF RecordsInv
  <2> QED  BY <1>5, <1>6, <2>1 DEF RecordsInv, ServiceTypeOK, PageInFile, FormatPage
<1>8. AloneOnItsPage'
  BY <1>6 DEF RecordsInv, AloneOnItsPage
<1>9. SeenAreSettled' /\ NoneInNewPages'
  BY <1>6 DEF RecordsInv, SeenAreSettled, NoneInNewPages, FormatPage
<1>10. SettledRecordsStay'
  BY <1>5 DEF SettledRecordsStay, FormatPage
<1> QED  BY <1>7, <1>8, <1>9, <1>10 DEF RecordsInv

(* The page read was written by whoever overlapped; but the settled records are
   in it, and a record that settles now shares the page with no request.   *)
LEMMA InsertFinishes ==
  ASSUME RecordsInv, NEW c \in Clients, FinishInsert(c)
  PROVE  RecordsInv'
<1> DEFINE p    == call[c].page
           seen == call[c].seen
           page == Append(seen, call[c].record)
           new  == <<p, Len(seen) + 1, call[c].record>>
<1>1. /\ p \in Nat /\ seen \in Seq(Records) /\ Len(seen) < PageCapacity
      /\ call[c].record \in Records /\ call[c] # NoCall
  BY CallKinds DEF FinishInsert, RecordsInv, ServiceTypeOK, NoCall
<1>2. p < Len(blocks)
  BY DEF RecordsInv, ServiceTypeOK, FinishInsert
<1>3. /\ page \in Page /\ page # Unformatted
      /\ \A i \in DOMAIN seen : i \in DOMAIN page /\ page[i] = seen[i]
      /\ Len(seen) + 1 \in DOMAIN page /\ page[Len(seen) + 1] = call[c].record
  <2>1. page \in Seq(Records) /\ Len(page) = Len(seen) + 1
    BY <1>1
  <2>2. \A i \in 1..Len(seen) : page[i] = seen[i]
    BY <1>1
  <2>3. page[Len(seen) + 1] = call[c].record
    BY <1>1
  <2>4. page \in Page /\ page # Unformatted
    <3>1. Len(page) <= PageCapacity
      BY <1>1, <2>1, PageCapacityAssumption
    <3> HIDE DEF page
    <3>2. page # Unformatted
      BY <2>1, UnformattedAssumption
    <3> QED  BY <2>1, <3>1, <3>2 DEF Page
  <2>5. Len(seen) \in Nat /\ DOMAIN seen = 1..Len(seen) /\ DOMAIN page = 1..(Len(seen) + 1)
    BY <1>1, <2>1
  <2> HIDE DEF page, seen
  <2> QED  BY <2>2, <2>3, <2>4, <2>5
<1>4. \A s \in settled : s[1] = p => Fetches(page, s[2], s[3])
  BY <1>3 DEF RecordsInv, SeenAreSettled, FinishInsert, Fetches
<1>5. /\ blocks' \in Seq(Page) /\ Len(blocks') >= Len(blocks) /\ p < Len(blocks')
      /\ blocks'[p + 1] = page
      /\ \A s \in settled : s[1] \in Pages' /\ Fetches(Block(s[1])', s[2], s[3])
  <2>1. WriteBlock(p, page)
    BY DEF FinishInsert
  <2> HIDE DEF page
  <2> QED  BY <1>1, <1>2, <1>3, <1>4, <2>1, PageWritten DEF RecordsInv, ServiceTypeOK
<1>6. /\ call'[c] = NoCall /\ call'[c].op = "none"
      /\ \A d \in Clients \ {c} : call'[d] = call[d]
      /\ call' \in [Clients -> Request]
  BY DEF FinishInsert, Ends, RecordsInv, ServiceTypeOK, NoCall, Request
<1>7. settled' \subseteq settled \cup {new} /\ (new \in settled' /\ new \notin settled => call[c].alone)
  BY DEF FinishInsert
<1>8. ServiceTypeOK'
  <2>1. \A d \in Clients : PageInFile(d)'
    BY <1>5, <1>6, PagesStayInFile DEF RecordsInv
  <2>2. new \in Nat \X (Nat \ {0}) \X Records
    BY <1>1
  <2> QED  BY <1>5, <1>6, <1>7, <2>1, <2>2 DEF RecordsInv, ServiceTypeOK, PageInFile
<1>9. AloneOnItsPage'
  BY <1>6 DEF RecordsInv, AloneOnItsPage
<1>10. ASSUME NEW s \in settled', s \notin settled, NEW d \in Clients, call'[d].op # "none"
       PROVE  call'[d].page # s[1]
  <2>1. s = new /\ call[c].alone
    BY <1>7, <1>10
  <2>2. d # c /\ call'[d] = call[d] /\ call[d] # NoCall
    BY <1>6, <1>10 DEF NoCall
  <2> QED  BY <1>1, <2>1, <2>2 DEF RecordsInv, AloneOnItsPage
<1>11. SeenAreSettled'
  BY <1>6, <1>10 DEF RecordsInv, SeenAreSettled
<1>12. NoneInNewPages'
  BY <1>6, <1>10 DEF RecordsInv, NoneInNewPages
<1>13. SettledRecordsStay'
  <2> SUFFICES ASSUME NEW s \in settled'
               PROVE  s[1] \in Pages' /\ Fetches(Block(s[1])', s[2], s[3])
    BY DEF SettledRecordsStay
  <2>1. CASE s \in settled
    BY <1>5, <2>1
  <2>2. CASE s \notin settled
    <3>1. s[1] = p /\ s[2] = Len(seen) + 1 /\ s[3] = call[c].record
      BY <1>7, <2>2
    <3>2. p \in 0..(Len(blocks') - 1)
      BY <1>1, <1>5
    <3>3. blocks'[s[1] + 1] = page
      BY <1>5, <3>1
    <3>4. Fetches(page, s[2], s[3])
      BY <1>3, <3>1 DEF Fetches
    <3> HIDE DEF page, p
    <3> QED  BY <3>1, <3>2, <3>3, <3>4 DEF Pages, Block
  <2> QED  BY <2>1, <2>2
<1> QED  BY <1>8, <1>9, <1>11, <1>12, <1>13 DEF RecordsInv

(* A stop forgets the requests; the file and what is settled in it stay. *)
LEMMA RecordsServiceStops ==
  ASSUME RecordsInv, StopService
  PROVE  RecordsInv'
<1>1. \A c \in Clients : call'[c] = NoCall /\ call'[c].op = "none"
  BY DEF StopService, NoCall
<1>2. ServiceTypeOK' /\ AloneOnItsPage'
  BY <1>1 DEF RecordsInv, ServiceTypeOK, AloneOnItsPage, StopService, Request
<1>3. SeenAreSettled' /\ NoneInNewPages' /\ SettledRecordsStay'
  BY <1>1, SettledKept DEF StopService
<1> QED  BY <1>2, <1>3 DEF RecordsInv

-----------------------------------------------------------------------------
(* The invariant, for every behaviour of the service. *)
THEOREM RecordsInvariant == ServiceSpec => []RecordsInv
<1>1. RecordsInv /\ [ServiceNext]_serviceVars => RecordsInv'
  <2> SUFFICES ASSUME RecordsInv, [ServiceNext]_serviceVars PROVE RecordsInv'
    OBVIOUS
  <2>1. ASSUME NEW c \in Clients, StartAllocate(c) PROVE RecordsInv'
    BY <2>1, AllocateStarts
  <2>2. ASSUME NEW c \in Clients, ZeroPage(c) PROVE RecordsInv'
    BY <2>2, ZeroesWritten
  <2>3. ASSUME NEW c \in Clients, FormatPage(c) PROVE RecordsInv'
    BY <2>3, PageFormatted
  <2>4. ASSUME NEW c \in Clients, NEW p \in Pages, NEW r \in Records, StartInsert(c, p, r)
        PROVE RecordsInv'
    BY <2>4, InsertStarts
  <2>5. ASSUME NEW c \in Clients, FinishInsert(c) PROVE RecordsInv'
    BY <2>5, InsertFinishes
  <2>6. CASE StopService
    BY <2>6, RecordsServiceStops
  <2>7. CASE UNCHANGED serviceVars
    BY <2>7 DEF serviceVars, RecordsInv, ServiceTypeOK, AloneOnItsPage, SeenAreSettled, NoneInNewPages,
                SettledRecordsStay, Pages, Block
  <2> QED  BY <2>1, <2>2, <2>3, <2>4, <2>5, <2>6, <2>7 DEF ServiceNext
<1> QED  BY <1>1, RecordsInitHolds, PTL DEF ServiceSpec

(* Pages never overflow, and no request is for a page beyond the next one
   (src/storage/main.py, the handlers of /pages and /records).             *)
THEOREM RecordsTypeCorrect == ServiceSpec => []ServiceTypeOK
<1>1. RecordsInv => ServiceTypeOK
  BY DEF RecordsInv
<1> QED  BY <1>1, RecordsInvariant, PTL

(* A record whose insert no other request for its page overlapped is found at
   its RID ever after, for any number of threads (insert_record, get_record). *)
THEOREM SettledRecordsAreKept == ServiceSpec => []SettledRecordsStay
<1>1. RecordsInv => SettledRecordsStay
  BY DEF RecordsInv
<1> QED  BY <1>1, RecordsInvariant, PTL

-----------------------------------------------------------------------------
(* The hash endpoints.                                                     *)

Catalogs  == UNION {[S -> Nat] : S \in SUBSET Names}
Stages    == {"named", "sized", "built", "saving"}
Creations == [op : Stages, name : Names, found : Catalogs, header : Nat, alone : BOOLEAN]
Openings  == [op : {"opening"}, name : Names, header : Nat]

(* The service's variables have their types. *)
HashServiceTypeOK ==
  /\ catalog \in Catalogs \cup {NoText, Garbled}
  /\ opened \in Catalogs
  /\ pages \in [Names -> Nat]
  /\ request \in [Workers -> {Idle} \cup Creations \cup Openings]
  /\ created \subseteq Names \X Nat

(* The catalogs a request may read, now or after a save. *)
Views == {request[c].found : c \in {d \in Workers : Creating(d)}}
           \cup (IF Readable THEN {catalog} ELSE {})

Lists(f, n, header) == n \in DOMAIN f /\ f[n] = header

(* Every view has only indexes whose header page is in their file ... *)
ViewsExist == \A f \in Views : \A n \in DOMAIN f : f[n] < pages[n]

(* ... and every index created alone ... *)
ViewsListCreated == \A f \in Views : \A e \in created : Lists(f, e[1], e[2])

(* ... and an index that is listed and was never opened since the service
   started is listed by all of them alike, as nobody created it since ...  *)
ViewsAgree ==
  \A f, g \in Views : \A n \in DOMAIN f : n \notin DOMAIN opened => Lists(g, n, f[n])

(* ... and so is an index that somebody is opening, so it is in no way to be
   created.                                                                *)
OpeningsListed ==
  \A d \in Workers : request[d].op = "opening" =>
    /\ \A f \in Views : Lists(f, request[d].name, request[d].header)
    /\ \A e \in created : e[1] = request[d].name => e[2] = request[d].header

(* A creation is of a name it did not find, in its file; once built, the index
   is open.                                                      *)
CreationsInOrder ==
  \A c \in Workers : Creating(c) =>
    /\ request[c].name \notin DOMAIN request[c].found
    /\ request[c].header <= pages[request[c].name]
    /\ request[c].op \notin {"named", "sized"} =>
         /\ request[c].header < pages[request[c].name]
         /\ request[c].name \in DOMAIN opened

(* A creation that counts as alone is the only one, and what it has opened is
   the index it will list.                                                 *)
AloneOnItsName ==
  \A c \in Workers : Creating(c) /\ request[c].alone =>
    /\ \A d \in Workers : Creating(d) => d = c
    /\ request[c].op \notin {"named", "sized"} => opened[request[c].name] = request[c].header

CatalogInv ==
  /\ HashServiceTypeOK
  /\ ViewsExist
  /\ ViewsListCreated
  /\ ViewsAgree
  /\ OpeningsListed
  /\ CreationsInOrder
  /\ AloneOnItsName
  /\ CreatedServedAsListed

-----------------------------------------------------------------------------
(* A catalog with one index more. *)
OneMore(f, n, h, g) ==
  /\ g \in Catalogs
  /\ DOMAIN g = DOMAIN f \cup {n}
  /\ g[n] = h
  /\ \A m \in DOMAIN f : m # n => g[m] = f[m]

LEMMA WithOneMore ==
  ASSUME NEW f \in Catalogs, NEW n \in Names, NEW h \in Nat
  PROVE  OneMore(f, n, h, With(f, n, h))
<1>1. PICK S \in SUBSET Names : f \in [S -> Nat]
  BY DEF Catalogs
<1>2. With(f, n, h) = [m \in S \cup {n} |-> IF m = n THEN h ELSE f[m]]
  BY <1>1 DEF With
<1>3. With(f, n, h) \in [S \cup {n} -> Nat]
  BY <1>1, <1>2
<1>4. S \cup {n} \in SUBSET Names
  OBVIOUS
<1>5. With(f, n, h) \in Catalogs
  BY <1>3, <1>4 DEF Catalogs
<1> QED  BY <1>1, <1>2, <1>5 DEF OneMore

(* A catalog file that is not there reads as a catalog with no index. *)
LEMMA NoIndexYet == <<>> \in Catalogs /\ DOMAIN <<>> = {}
<1>1. <<>> \in [{} -> Nat]
  OBVIOUS
<1> QED  BY <1>1 DEF Catalogs

(* What kind of record a request is follows from its op. *)
LEMMA RequestKinds ==
  ASSUME HashServiceTypeOK, NEW c \in Workers
  PROVE  /\ Creating(c) <=> request[c] \in Creations
         /\ request[c].op = "opening" <=> request[c] \in Openings
         /\ Creating(c) => request[c].op # "opening" /\ request[c] # Idle
         /\ request[c] = Idle => request[c].op = "idle"
  BY DEF HashServiceTypeOK, Creating, Creations, Openings, Stages, Idle

(* Every view is a catalog. *)
LEMMA ViewsAreCatalogs ==
  ASSUME HashServiceTypeOK
  PROVE  /\ Views \subseteq Catalogs
         /\ \A f \in Views : \A n \in DOMAIN f : n \in Names /\ f[n] \in Nat
<1>1. Views \subseteq Catalogs
  BY RequestKinds DEF Views, HashServiceTypeOK, Readable, Creations
<1> QED  BY <1>1 DEF Catalogs

(* What is at rest: a step that makes no new view, forgets no open index and
   creates none keeps what relates the views to the rest of the state.     *)
LEMMA ViewsKept ==
  ASSUME HashServiceTypeOK, HashServiceTypeOK', ViewsExist, ViewsListCreated, ViewsAgree,
         Views' \subseteq Views, created' = created, DOMAIN opened \subseteq DOMAIN opened',
         \A n \in Names : pages[n] <= pages'[n]
  PROVE  ViewsExist' /\ ViewsListCreated' /\ ViewsAgree'
<1>1. ViewsExist'
  BY ViewsAreCatalogs DEF ViewsExist, HashServiceTypeOK
<1>2. ViewsListCreated'
  BY DEF ViewsListCreated, Lists
<1>3. ViewsAgree'
  BY DEF ViewsAgree, Lists
<1> QED  BY <1>1, <1>2, <1>3

-----------------------------------------------------------------------------
(* A service over an empty directory. *)
LEMMA CatalogInitHolds == HashServiceInit => CatalogInv
<1> SUFFICES ASSUME HashServiceInit PROVE CatalogInv
  OBVIOUS
<1>1. HashServiceTypeOK
  BY NoIndexYet DEF HashServiceInit, HashServiceTypeOK
<1>2. \A c \in Workers : request[c] = Idle /\ ~Creating(c) /\ request[c].op = "idle"
  BY DEF HashServiceInit, Creating, Idle
<1>3. \A f \in Views : f = <<>>
  BY <1>2 DEF Views, HashServiceInit, Readable
<1>4. \A f \in Views : DOMAIN f = {}
  BY <1>3, NoIndexYet
<1>5. created = {}
  BY DEF HashServiceInit
<1>6. ViewsExist /\ ViewsListCreated /\ ViewsAgree
  BY <1>4, <1>5 DEF ViewsExist, ViewsListCreated, ViewsAgree
<1>7. OpeningsListed /\ CreationsInOrder /\ AloneOnItsName /\ CreatedServedAsListed
  BY <1>2, <1>5 DEF OpeningsListed, CreationsInOrder, AloneOnItsName, CreatedServedAsListed
<1> QED  BY <1>1, <1>6, <1>7 DEF CatalogInv

(* A step that starts no creation and leaves no other catalog makes no view. *)
LEMMA NoNewView ==
  ASSUME \A d \in Workers : Creating(d)' => Creating(d) /\ request'[d].found = request[d].found,
         Readable' => Readable /\ catalog' = catalog
  PROVE  Views' \subseteq Views
  BY DEF Views

(* A creation that comes to its next stage. *)
LEMMA CreationAdvances ==
  ASSUME HashServiceTypeOK, NEW c \in Workers, Creating(c), NEW stage \in Stages,
         Advance(c, stage)
  PROVE  /\ request' \in [Workers -> {Idle} \cup Creations \cup Openings]
         /\ \A d \in Workers : d # c => request'[d] = request[d]
         /\ request'[c].op = stage /\ request'[c].name = request[c].name
         /\ request'[c].header = request[c].header /\ request'[c].found = request[c].found
         /\ request'[c].alone = request[c].alone
         /\ \A d \in Workers : Creating(d)' <=> Creating(d)
         /\ \A d \in Workers : request'[d].op = "opening" => d # c
         /\ \A d \in Workers : Creating(d) => request'[d].found = request[d].found
<1>1. request[c] \in Creations
  BY RequestKinds
<1>2. request' = [request EXCEPT ![c] = [request[c] EXCEPT !.op = stage]]
  BY <1>1 DEF Advance
<1>3. [request[c] EXCEPT !.op = stage] \in Creations
  BY <1>1 DEF Creations
<1>4. request'[c] = [request[c] EXCEPT !.op = stage] /\ \A d \in Workers : d # c => request'[d] = request[d]
  BY <1>2 DEF HashServiceTypeOK
<1>5. request' \in [Workers -> {Idle} \cup Creations \cup Openings]
  BY <1>2, <1>3 DEF HashServiceTypeOK
<1>6. /\ request'[c].op = stage /\ request'[c].name = request[c].name
      /\ request'[c].header = request[c].header /\ request'[c].found = request[c].found
      /\ request'[c].alone = request[c].alone
  BY <1>1, <1>4 DEF Creations
<1>7. \A d \in Workers : d # c => request'[d] = request[d]
  BY <1>4
<1> QED  BY <1>5, <1>6, <1>7 DEF Creating, Stages

(* The header page is the next of its file. *)
LEMMA HeaderTaken ==
  ASSUME CatalogInv, NEW c \in Workers, TakeHeader(c)
  PROVE  CatalogInv'
<1> DEFINE n == request[c].name
<1>1. Creating(c) /\ request[c] \in Creations /\ request[c].op = "named"
  BY RequestKinds DEF TakeHeader, CatalogInv, Creating
<1>2. n \in Names /\ pages[n] \in Nat
  BY <1>1 DEF Creations, CatalogInv, HashServiceTypeOK
<1>3. /\ request'[c] = [request[c] EXCEPT !.op = "sized", !.header = pages[n]]
      /\ \A d \in Workers : d # c => request'[d] = request[d]
  BY DEF TakeHeader, CatalogInv, HashServiceTypeOK
<1>4. /\ request'[c] \in Creations
      /\ request'[c].op = "sized" /\ request'[c].name = n /\ request'[c].header = pages[n]
      /\ request'[c].found = request[c].found /\ request'[c].alone = request[c].alone
  BY <1>1, <1>2, <1>3 DEF Creations, Stages
<1>5. request' \in [Workers -> {Idle} \cup Creations \cup Openings]
  BY <1>3, <1>4 DEF TakeHeader, CatalogInv, HashServiceTypeOK
<1>6. /\ \A d \in Workers : Creating(d)' <=> Creating(d)
      /\ \A d \in Workers : request'[d].op = "opening" => d # c
      /\ \A d \in Workers : request'[d].found = request[d].found
  BY <1>1, <1>3, <1>4 DEF Creating
<1>7. HashServiceTypeOK'
  BY <1>5 DEF TakeHeader, CatalogInv, HashServiceTypeOK
<1>8. Views' \subseteq Views
  BY <1>6, NoNewView DEF TakeHeader, Readable
<1>9. ViewsExist' /\ ViewsListCreated' /\ ViewsAgree'
  BY <1>7, <1>8, ViewsKept DEF TakeHeader, CatalogInv, HashServiceTypeOK
<1>10. OpeningsListed'
  <2>1. \A d \in Workers : request'[d].op = "opening" => request'[d] = request[d]
    BY <1>3, <1>6
  <2>2. created' = created
    BY DEF TakeHeader
  <2> QED  BY <2>1, <2>2, <1>8 DEF CatalogInv, OpeningsListed, Lists
<1>11. CreationsInOrder'
  <2> SUFFICES ASSUME NEW d \in Workers, Creating(d)'
               PROVE  /\ request'[d].name \notin DOMAIN request'[d].found
                      /\ request'[d].header <= pages[request'[d].name]
                      /\ request'[d].op \notin {"named", "sized"} =>
                           /\ request'[d].header < pages[request'[d].name]
                           /\ request'[d].name \in DOMAIN opened
    BY DEF CreationsInOrder, TakeHeader
  <2>1. CASE d = c
    BY <2>1, <1>1, <1>2, <1>4 DEF CatalogInv, CreationsInOrder
  <2>2. CASE d # c
    BY <2>2, <1>3, <1>6 DEF CatalogInv, CreationsInOrder
  <2> QED  BY <2>1, <2>2
<1>12. AloneOnItsName'
  BY <1>1, <1>3, <1>4, <1>6 DEF TakeHeader, CatalogInv, AloneOnItsName
<1>13. CreatedServedAsListed'
  BY DEF TakeHeader, CatalogInv, CreatedServedAsListed
<1> QED  BY <1>7, <1>9, <1>10, <1>11, <1>12, <1>13 DEF CatalogInv

(* The files of a new index are written before any catalog lists it. *)
LEMMA IndexBuilt ==
  ASSUME CatalogInv, NEW c \in Workers, BuildIndex(c)
  PROVE  CatalogInv'
<1> DEFINE n == request[c].name
           h == request[c].header
<1>1. Creating(c) /\ request[c] \in Creations /\ request[c].op = "sized"
  BY RequestKinds DEF BuildIndex, CatalogInv, Creating
<1>2. n \in Names /\ h \in Nat
  BY <1>1 DEF Creations
<1>3. /\ request' \in [Workers -> {Idle} \cup Creations \cup Openings]
      /\ \A d \in Workers : d # c => request'[d] = request[d]
      /\ request'[c].op = "built" /\ request'[c].name = request[c].name
      /\ request'[c].header = request[c].header /\ request'[c].found = request[c].found
      /\ request'[c].alone = request[c].alone
      /\ \A d \in Workers : Creating(d)' <=> Creating(d)
      /\ \A d \in Workers : request'[d].op = "opening" => d # c
      /\ \A d \in Workers : Creating(d) => request'[d].found = request[d].found
  BY <1>1, CreationAdvances DEF BuildIndex, CatalogInv, Stages
<1>4. /\ opened' \in Catalogs
      /\ DOMAIN opened' = DOMAIN opened \cup {n}
      /\ opened'[n] = h
      /\ \A m \in DOMAIN opened : m # n => opened'[m] = opened[m]
  <2>1. opened \in Catalogs /\ opened' = With(opened, n, h)
    BY DEF BuildIndex, CatalogInv, HashServiceTypeOK
  <2>2. OneMore(opened, n, h, With(opened, n, h))
    BY <1>2, <2>1, WithOneMore
  <2> QED  BY <2>1, <2>2 DEF OneMore
<1>5. /\ pages' \in [Names -> Nat]
      /\ pages'[n] = pages[n] + 3
      /\ \A m \in Names : pages[m] <= pages'[m]
  BY <1>2 DEF BuildIndex, CatalogInv, HashServiceTypeOK, NewIndexPages
<1>6. HashServiceTypeOK'
  BY <1>3, <1>4, <1>5 DEF BuildIndex, CatalogInv, HashServiceTypeOK
<1>7. Views' \subseteq Views
  BY <1>3, NoNewView DEF BuildIndex, Readable
<1>8. ViewsExist' /\ ViewsListCreated' /\ ViewsAgree'
  BY <1>4, <1>5, <1>6, <1>7, ViewsKept DEF BuildIndex, CatalogInv
<1>9. OpeningsListed'
  BY <1>3, <1>7 DEF BuildIndex, CatalogInv, OpeningsListed, Lists
<1>10. CreationsInOrder'
  <2> SUFFICES ASSUME NEW d \in Workers, Creating(d)'
               PROVE  /\ request'[d].name \notin DOMAIN request'[d].found
                      /\ request'[d].header <= pages'[request'[d].name]
                      /\ request'[d].op \notin {"named", "sized"} =>
                           /\ request'[d].header < pages'[request'[d].name]
                           /\ request'[d].name \in DOMAIN opened'
    BY DEF CreationsInOrder
  <2>1. request[d] \in Creations /\ request[d].name \in Names /\ request[d].header \in Nat
    BY <1>3, RequestKinds DEF CatalogInv, Creations
  <2>2. CASE d = c
    BY <2>2, <1>1, <1>2, <1>3, <1>4, <1>5 DEF CatalogInv, CreationsInOrder, HashServiceTypeOK
  <2>3. CASE d # c
    BY <2>1, <2>3, <1>3, <1>4, <1>5 DEF CatalogInv, CreationsInOrder, HashServiceTypeOK
  <2> QED  BY <2>2, <2>3
<1>11. AloneOnItsName'
  BY <1>1, <1>3, <1>4 DEF CatalogInv, AloneOnItsName
<1>12. CreatedServedAsListed'
  <2>1. request[c].found \in Views
    BY <1>1 DEF Views
  <2>2. \A e \in created : e[1] # n
    BY <1>1, <2>1 DEF CatalogInv, ViewsListCreated, Lists, CreationsInOrder
  <2> QED  BY <2>2, <1>4 DEF BuildIndex, CatalogInv, CreatedServedAsListed
<1> QED  BY <1>6, <1>8, <1>9, <1>10, <1>11, <1>12 DEF CatalogInv

(* Opening the catalog for writing empties it; the creation still has all of it. *)
LEMMA CatalogTruncated ==
  ASSUME CatalogInv, NEW c \in Workers, TruncateCatalog(c)
  PROVE  CatalogInv'
<1>1. Creating(c) /\ request[c] \in Creations /\ request[c].op = "built"
  BY RequestKinds DEF TruncateCatalog, CatalogInv, Creating
<1>2. /\ request' \in [Workers -> {Idle} \cup Creations \cup Openings]
      /\ \A d \in Workers : d # c => request'[d] = request[d]
      /\ request'[c].op = "saving" /\ request'[c].name = request[c].name
      /\ request'[c].header = request[c].header /\ request'[c].found = request[c].found
      /\ request'[c].alone = request[c].alone
      /\ \A d \in Workers : Creating(d)' <=> Creating(d)
      /\ \A d \in Workers : request'[d].op = "opening" => d # c
      /\ \A d \in Workers : Creating(d) => request'[d].found = request[d].found
  BY <1>1, CreationAdvances DEF TruncateCatalog, CatalogInv, Stages
<1>3. HashServiceTypeOK'
  BY <1>2 DEF TruncateCatalog, CatalogInv, HashServiceTypeOK
<1>4. Views' \subseteq Views
  BY <1>2, NoNewView DEF TruncateCatalog, Readable
<1>5. ViewsExist' /\ ViewsListCreated' /\ ViewsAgree'
  BY <1>3, <1>4, ViewsKept DEF TruncateCatalog, CatalogInv, HashServiceTypeOK
<1>6. OpeningsListed'
  BY <1>2, <1>4 DEF TruncateCatalog, CatalogInv, OpeningsListed, Lists
<1>7. CreationsInOrder'
  BY <1>1, <1>2 DEF TruncateCatalog, CatalogInv, CreationsInOrder
<1>8. AloneOnItsName'
  BY <1>1, <1>2 DEF TruncateCatalog, CatalogInv, AloneOnItsName
<1>9. CreatedServedAsListed'
  BY DEF TruncateCatalog, CatalogInv, CreatedServedAsListed
<1> QED  BY <1>3, <1>5, <1>6, <1>7, <1>8, <1>9 DEF CatalogInv

(* A stop forgets every request, open index and loaded catalog. *)
LEMMA HashServiceStops ==
  ASSUME CatalogInv, StopHashService
  PROVE  CatalogInv'
<1>1. \A d \in Workers : request'[d] = Idle /\ request'[d].op = "idle"
  BY DEF StopHashService, Idle
<1>2. \A d \in Workers : ~Creating(d)' /\ request'[d].op # "opening"
  BY <1>1 DEF Creating
<1>3. HashServiceTypeOK'
  BY NoIndexYet DEF StopHashService, CatalogInv, HashServiceTypeOK
<1>4. Views' \subseteq Views
  BY <1>2, NoNewView DEF StopHashService, Readable
<1>5. ViewsExist' /\ ViewsListCreated'
  BY <1>4 DEF StopHashService, CatalogInv, ViewsExist, ViewsListCreated, Lists
<1>6. ViewsAgree'
  <2>1. \A f \in Views' : f = catalog'
    BY <1>2 DEF Views
  <2> QED  BY <2>1 DEF ViewsAgree, Lists
<1>7. OpeningsListed' /\ CreationsInOrder' /\ AloneOnItsName'
  BY <1>2 DEF OpeningsListed, CreationsInOrder, AloneOnItsName
<1>8. CreatedServedAsListed'
  BY NoIndexYet DEF StopHashService, CreatedServedAsListed
<1> QED  BY <1>3, <1>5, <1>6, <1>7, <1>8 DEF CatalogInv

(* A request reads in the catalog which header page an index has. *)
LEMMA OpenStarts ==
  ASSUME CatalogInv, NEW c \in Workers, NEW n \in Names, StartOpen(c, n)
  PROVE  CatalogInv'
<1>1. catalog \in Views /\ catalog \in Catalogs /\ catalog[n] \in Nat
  BY ViewsAreCatalogs DEF StartOpen, CatalogInv, Views
<1>2. Opening(n, catalog[n]) \in Openings
  BY <1>1 DEF Opening, Openings
<1>3. /\ request'[c] = Opening(n, catalog[n])
      /\ \A d \in Workers : d # c => request'[d] = request[d]
      /\ request' \in [Workers -> {Idle} \cup Creations \cup Openings]
  BY <1>2 DEF StartOpen, CatalogInv, HashServiceTypeOK
<1>4. request'[c].op = "opening" /\ request'[c].name = n /\ request'[c].header = catalog[n]
  BY <1>3 DEF Opening
<1>5. \A d \in Workers : Creating(d)' => d # c /\ Creating(d) /\ request'[d] = request[d]
  BY <1>3, <1>4 DEF Creating
<1>6. \A d \in Workers : Creating(d) => Creating(d)'
  BY <1>3, RequestKinds DEF StartOpen, CatalogInv, Creating
<1>7. HashServiceTypeOK'
  BY <1>3 DEF StartOpen, CatalogInv, HashServiceTypeOK
<1>8. Views' \subseteq Views
  BY <1>5, NoNewView DEF StartOpen, Readable
<1>9. ViewsExist' /\ ViewsListCreated' /\ ViewsAgree'
  BY <1>7, <1>8, ViewsKept DEF StartOpen, CatalogInv, HashServiceTypeOK
<1>10. OpeningsListed'
  <2>1. \A f \in Views : Lists(f, n, catalog[n])
    BY <1>1 DEF StartOpen, CatalogInv, ViewsAgree
  <2>2. \A e \in created : e[1] = n => e[2] = catalog[n]
    BY <1>1 DEF CatalogInv, ViewsListCreated, Lists
  <2> QED  BY <2>1, <2>2, <1>3, <1>4, <1>8 DEF StartOpen, CatalogInv, OpeningsListed, Lists
<1>11. CreationsInOrder'
  BY <1>5 DEF StartOpen, CatalogInv, CreationsInOrder
<1>12. AloneOnItsName'
  BY <1>5 DEF StartOpen, CatalogInv, AloneOnItsName
<1>13. CreatedServedAsListed'
  BY DEF StartOpen, CatalogInv, CreatedServedAsListed
<1> QED  BY <1>7, <1>9, <1>10, <1>11, <1>12, <1>13 DEF CatalogInv

(* The object it opened replaces what another request opened. *)
LEMMA OpenFinishes ==
  ASSUME CatalogInv, NEW c \in Workers, FinishOpen(c)
  PROVE  CatalogInv'
<1> DEFINE n == request[c].name
           h == request[c].header
<1>1. n \in Names /\ h \in Nat
  BY RequestKinds DEF FinishOpen, CatalogInv, Openings
<1>2. /\ opened' \in Catalogs
      /\ DOMAIN opened' = DOMAIN opened \cup {n}
      /\ opened'[n] = h
      /\ \A m \in DOMAIN opened : m # n => opened'[m] = opened[m]
  <2>1. opened \in Catalogs /\ opened' = With(opened, n, h)
    BY DEF FinishOpen, CatalogInv, HashServiceTypeOK
  <2>2. OneMore(opened, n, h, With(opened, n, h))
    BY <1>1, <2>1, WithOneMore
  <2> QED  BY <2>1, <2>2 DEF OneMore
<1>3. /\ request'[c] = Idle
      /\ \A d \in Workers : d # c => request'[d] = request[d]
      /\ request' \in [Workers -> {Idle} \cup Creations \cup Openings]
  BY DEF FinishOpen, CatalogInv, HashServiceTypeOK
<1>4. \A d \in Workers : Creating(d)' \/ request'[d].op = "opening" => d # c /\ request'[d] = request[d]
  BY <1>3 DEF Creating, Idle
<1>5. \A d \in Workers : Creating(d)' => Creating(d) /\ request'[d] = request[d]
  BY <1>4 DEF Creating
<1>6. HashServiceTypeOK'
  BY <1>2, <1>3 DEF FinishOpen, CatalogInv, HashServiceTypeOK
<1>7. Views' \subseteq Views
  BY <1>5, NoNewView DEF FinishOpen, Readable
<1>8. ViewsExist' /\ ViewsListCreated' /\ ViewsAgree'
  BY <1>2, <1>6, <1>7, ViewsKept DEF FinishOpen, CatalogInv, HashServiceTypeOK
<1>9. OpeningsListed'
  BY <1>4, <1>7 DEF FinishOpen, CatalogInv, OpeningsListed, Lists
<1>10. CreationsInOrder'
  BY <1>2, <1>5 DEF FinishOpen, CatalogInv, CreationsInOrder
<1>11. AloneOnItsName'
  <2>1. \A d \in Workers : Creating(d) => request[d].found \in Views /\ request[d].name # n
    BY DEF FinishOpen, CatalogInv, Views, OpeningsListed, CreationsInOrder, Lists
  <2>2. \A d \in Workers : Creating(d) /\ request[d].op \notin {"named", "sized"} => request[d].name \in DOMAIN opened
    BY DEF CatalogInv, CreationsInOrder
  <2> QED  BY <2>1, <2>2, <1>2, <1>5 DEF CatalogInv, AloneOnItsName
<1>12. CreatedServedAsListed'
  <2>1. \A e \in created : e[1] = n => e[2] = h
    BY DEF FinishOpen, CatalogInv, OpeningsListed
  <2> QED  BY <2>1, <1>2 DEF FinishOpen, CatalogInv, CreatedServedAsListed
<1> QED  BY <1>6, <1>8, <1>9, <1>10, <1>11, <1>12 DEF CatalogInv

(* A creation loads the catalog, which it may save long after. *)
LEMMA CreationStarts ==
  ASSUME CatalogInv, NEW c \in Workers, NEW n \in Names, StartCreate(c, n)
  PROVE  CatalogInv'
<1> DEFINE free == ~\E e \in Workers : Creating(e)
<1>1. catalog \in Views /\ catalog \in Catalogs /\ pages[n] \in Nat /\ n \notin DOMAIN catalog
  BY ViewsAreCatalogs DEF StartCreate, IsFree, CatalogInv, Views, HashServiceTypeOK
<1>2. Creation(n, catalog, free) \in Creations
  BY <1>1 DEF Creation, Creations, Stages
<1>3. request'[c] = Creation(n, catalog, free)
  BY DEF StartCreate
<1>4. /\ request'[c].op = "named" /\ request'[c].name = n /\ request'[c].found = catalog
      /\ request'[c].header = 0 /\ request'[c].alone = free
  BY <1>3 DEF Creation
<1>5. \A d \in Workers : d # c /\ ~Creating(d) => request'[d] = request[d]
  BY DEF StartCreate
<1>6. \A d \in Workers : d # c /\ Creating(d) =>
        /\ request'[d] \in Creations
        /\ request'[d].op = request[d].op /\ request'[d].name = request[d].name
        /\ request'[d].found = request[d].found /\ request'[d].header = request[d].header
        /\ request'[d].alone = FALSE
  <2> SUFFICES ASSUME NEW d \in Workers, d # c, Creating(d)
               PROVE  /\ request'[d] \in Creations
                      /\ request'[d].op = request[d].op /\ request'[d].name = request[d].name
                      /\ request'[d].found = request[d].found
                      /\ request'[d].header = request[d].header
                      /\ request'[d].alone = FALSE
    OBVIOUS
  <2>1. request[d] \in Creations
    BY RequestKinds DEF CatalogInv
  <2>2. request'[d] = [request[d] EXCEPT !.alone = FALSE]
    BY DEF StartCreate
  <2> QED  BY <2>1, <2>2 DEF Creations
<1>7. \A d \in Workers : d # c => (Creating(d)' <=> Creating(d))
  BY <1>5, <1>6 DEF Creating
<1>8. HashServiceTypeOK'
  <2>1. \A d \in Workers : request'[d] \in {Idle} \cup Creations \cup Openings
    BY <1>2, <1>3, <1>5, <1>6 DEF CatalogInv, HashServiceTypeOK
  <2>2. request' = [d \in Workers |-> request'[d]]
    BY DEF StartCreate
  <2> QED  BY <2>1, <2>2 DEF StartCreate, CatalogInv, HashServiceTypeOK
<1>9. Views' \subseteq Views
  BY <1>1, <1>4, <1>6, <1>7 DEF Views, StartCreate, Readable
<1>10. ViewsExist' /\ ViewsListCreated' /\ ViewsAgree'
  BY <1>8, <1>9, ViewsKept DEF StartCreate, CatalogInv, HashServiceTypeOK
<1>11. OpeningsListed'
  <2>1. \A d \in Workers : request'[d].op = "opening" => request'[d] = request[d]
    BY <1>4, <1>5, <1>6 DEF Creating
  <2>2. created' = created
    BY DEF StartCreate
  <2> QED  BY <2>1, <2>2, <1>9 DEF CatalogInv, OpeningsListed, Lists
<1>12. CreationsInOrder'
  <2> SUFFICES ASSUME NEW d \in Workers, Creating(d)'
               PROVE  /\ request'[d].name \notin DOMAIN request'[d].found
                      /\ request'[d].header <= pages[request'[d].name]
                      /\ request'[d].op \notin {"named", "sized"} =>
                           /\ request'[d].header < pages[request'[d].name]
                           /\ request'[d].name \in DOMAIN opened
    BY DEF CreationsInOrder, StartCreate
  <2>1. CASE d = c
    BY <2>1, <1>1, <1>4
  <2>2. CASE d # c
    BY <2>2, <1>6, <1>7 DEF CatalogInv, CreationsInOrder
  <2> QED  BY <2>1, <2>2
<1>13. AloneOnItsName'
  BY <1>4, <1>6, <1>7 DEF AloneOnItsName
<1>14. CreatedServedAsListed'
  BY DEF StartCreate, CatalogInv, CreatedServedAsListed
<1> QED  BY <1>8, <1>10, <1>11, <1>12, <1>13, <1>14 DEF CatalogInv

(* A creation saves the catalog it loaded and its own index. *)
LEMMA CatalogWritten ==
  ASSUME CatalogInv, NEW c \in Workers, WriteCatalog(c)
  PROVE  CatalogInv'
<1> DEFINE n == request[c].name
           h == request[c].header
           found == request[c].found
           new == WithIndex(c)
<1>1. Creating(c) /\ request[c] \in Creations /\ request[c].op = "saving"
  BY RequestKinds DEF WriteCatalog, CatalogInv, Creating
<1>2. n \in Names /\ h \in Nat /\ found \in Catalogs /\ found \in Views
  BY <1>1 DEF Creations, Views
<1>3. n \notin DOMAIN found /\ h < pages[n] /\ n \in DOMAIN opened
  BY <1>1 DEF CatalogInv, CreationsInOrder
<1>4. /\ new \in Catalogs
      /\ DOMAIN new = DOMAIN found \cup {n}
      /\ new[n] = h
      /\ \A m \in DOMAIN found : new[m] = found[m]
  <2>1. new = With(found, n, h)
    BY DEF WithIndex
  <2>2. OneMore(found, n, h, With(found, n, h))
    BY <1>2, WithOneMore
  <2> QED  BY <1>3, <2>1, <2>2 DEF OneMore
<1> HIDE DEF new
<1>5. /\ request'[c] = Idle
      /\ \A d \in Workers : d # c => request'[d] = request[d]
      /\ request' \in [Workers -> {Idle} \cup Creations \cup Openings]
  BY DEF WriteCatalog, CatalogInv, HashServiceTypeOK
<1>6. /\ \A d \in Workers : Creating(d)' => d # c /\ Creating(d) /\ request'[d] = request[d]
      /\ \A d \in Workers : request'[d].op = "opening" => request'[d] = request[d]
  BY <1>5 DEF Creating, Idle
<1>7. catalog' = new \/ catalog' = Garbled
  BY DEF WriteCatalog, new
<1>8. \A e \in created' : e \in created \/ (request[c].alone /\ e = <<n, h>>)
  BY DEF WriteCatalog
<1>9. Views' \subseteq Views \cup {new}
  BY <1>6, <1>7 DEF Views, Readable
<1>10. request[c].alone => Views' \subseteq {new}
  BY <1>1, <1>6, <1>7 DEF Views, Readable, CatalogInv, AloneOnItsName
<1>11. \A f \in Views : \A m \in DOMAIN f : m \in Names /\ f[m] \in Nat
  BY ViewsAreCatalogs DEF CatalogInv
<1>12. HashServiceTypeOK'
  <2>1. created' \subseteq Names \X Nat
    BY <1>2, <1>8 DEF CatalogInv, HashServiceTypeOK
  <2> QED  BY <2>1, <1>4, <1>5, <1>7 DEF WriteCatalog, CatalogInv, HashServiceTypeOK
<1>13. ViewsExist'
  BY <1>2, <1>3, <1>4, <1>9 DEF WriteCatalog, CatalogInv, ViewsExist
<1>14. ViewsListCreated'
  <2>1. \A e \in created : Lists(new, e[1], e[2])
    BY <1>2, <1>4 DEF CatalogInv, ViewsListCreated, Lists
  <2>2. Lists(new, n, h)
    BY <1>4 DEF Lists
  <2>3. CASE request[c].alone
    BY <2>1, <2>2, <2>3, <1>8, <1>10 DEF ViewsListCreated, Lists
  <2>4. CASE ~request[c].alone
    BY <2>1, <2>4, <1>8, <1>9 DEF CatalogInv, ViewsListCreated, Lists
  <2> QED  BY <2>3, <2>4
<1>15. ViewsAgree'
  <2> SUFFICES ASSUME NEW f \in Views', NEW g \in Views', NEW m \in DOMAIN f,
                      m \notin DOMAIN opened
               PROVE  m \in DOMAIN g /\ g[m] = f[m]
    BY DEF ViewsAgree, Lists, WriteCatalog
  <2>1. m # n
    BY <1>3
  <2>2. PICK f0 \in Views : m \in DOMAIN f0 /\ f0[m] = f[m]
    BY <2>1, <1>2, <1>4, <1>9
  <2>3. \A g0 \in Views : m \in DOMAIN g0 /\ g0[m] = f[m]
    BY <2>2 DEF CatalogInv, ViewsAgree, Lists
  <2> QED  BY <2>3, <1>2, <1>4, <1>9
<1>16. OpeningsListed'
  <2> SUFFICES ASSUME NEW d \in Workers, request'[d].op = "opening"
               PROVE  /\ \A f \in Views' : Lists(f, request[d].name, request[d].header)
                      /\ \A e \in created' : e[1] = request[d].name => e[2] = request[d].header
    BY <1>6 DEF OpeningsListed, Lists
  <2>1. /\ \A f \in Views : Lists(f, request[d].name, request[d].header)
        /\ \A e \in created : e[1] = request[d].name => e[2] = request[d].header
    BY <1>6 DEF CatalogInv, OpeningsListed
  <2>2. request[d].name # n /\ Lists(new, request[d].name, request[d].header)
    BY <2>1, <1>2, <1>3, <1>4 DEF Lists
  <2> QED  BY <2>1, <2>2, <1>8, <1>9
<1>17. CreationsInOrder'
  BY <1>6 DEF WriteCatalog, CatalogInv, CreationsInOrder
<1>18. AloneOnItsName'
  BY <1>6 DEF WriteCatalog, CatalogInv, AloneOnItsName
<1>19. CreatedServedAsListed'
  <2>1. request[c].alone => opened[n] = h
    BY <1>1 DEF CatalogInv, AloneOnItsName
  <2> QED  BY <2>1, <1>8 DEF WriteCatalog, CatalogInv, CreatedServedAsListed
<1> QED  BY <1>12, <1>13, <1>14, <1>15, <1>16, <1>17, <1>18, <1>19 DEF CatalogInv

-----------------------------------------------------------------------------
(* What holds of every catalog that may come to be on disk, and of every index
   that is being opened, for any number of threads and any names.          *)
THEOREM CatalogInvariant == HashServiceSpec => []CatalogInv
<1>1. CatalogInv /\ [HashServiceNext]_hashServiceVars => CatalogInv'
  <2> SUFFICES ASSUME CatalogInv, [HashServiceNext]_hashServiceVars PROVE CatalogInv'
    OBVIOUS
  <2>1. ASSUME NEW c \in Workers, NEW n \in Names, StartCreate(c, n) PROVE CatalogInv'
    BY <2>1, CreationStarts
  <2>2. ASSUME NEW c \in Workers, NEW n \in Names, StartOpen(c, n) PROVE CatalogInv'
    BY <2>2, OpenStarts
  <2>3. ASSUME NEW c \in Workers, TakeHeader(c) PROVE CatalogInv'
    BY <2>3, HeaderTaken
  <2>4. ASSUME NEW c \in Workers, BuildIndex(c) PROVE CatalogInv'
    BY <2>4, IndexBuilt
  <2>5. ASSUME NEW c \in Workers, TruncateCatalog(c) PROVE CatalogInv'
    BY <2>5, CatalogTruncated
  <2>6. ASSUME NEW c \in Workers, WriteCatalog(c) PROVE CatalogInv'
    BY <2>6, CatalogWritten
  <2>7. ASSUME NEW c \in Workers, FinishOpen(c) PROVE CatalogInv'
    BY <2>7, OpenFinishes
  <2>8. CASE StopHashService
    BY <2>8, HashServiceStops
  <2>9. CASE UNCHANGED hashServiceVars
    BY <2>9 DEF hashServiceVars, CatalogInv, HashServiceTypeOK, ViewsExist, ViewsListCreated, ViewsAgree,
                OpeningsListed, CreationsInOrder, AloneOnItsName, CreatedServedAsListed, Lists, Views,
                Readable, Creating
  <2> QED  BY <2>1, <2>2, <2>3, <2>4, <2>5, <2>6, <2>7, <2>8, <2>9 DEF HashServiceNext
<1> QED  BY <1>1, CatalogInitHolds, PTL DEF HashServiceSpec

(* An index whose creation no other overlapped is in every catalog that can be
   read (create_index loads the catalog at its start and saves it at its end). *)
THEOREM CreatedIsListed == HashServiceSpec => []CreatedStayListed
<1>1. CatalogInv => CreatedStayListed
  BY DEF CatalogInv, ViewsListCreated, Views, Lists, CreatedStayListed
<1> QED  BY <1>1, CatalogInvariant, PTL

(* ... and is served by the object of its own header page, whoever opens it and
   whatever is created under other names (create_index, _get_index).     *)
THEOREM CreatedIsServed == HashServiceSpec => []CreatedServedAsListed
<1>1. CatalogInv => CreatedServedAsListed
  BY DEF CatalogInv
<1> QED  BY <1>1, CatalogInvariant, PTL

(* The header page of every index in a readable catalog is in its file, however
   creations overlap and wherever the service stops.                       *)
THEOREM ListedIsThere == HashServiceSpec => []ListedExist
<1>1. CatalogInv => ListedExist
  BY DEF CatalogInv, ViewsExist, Views, ListedExist
<1> QED  BY <1>1, CatalogInvariant, PTL

-----------------------------------------------------------------------------
(* The composition.                                                        *)

(* A behaviour of the physical layer is one of each of its parts, whichever of
   them takes the steps.                                                   *)
LEMMA OneOfEach ==
  FilesSpec => ServiceSpec /\ HashServiceSpec /\ Tree!Spec /\ Heap!Spec /\ Sequential!Spec
<1>1. FilesInit => ServiceInit /\ HashServiceInit /\ Tree!Init /\ Heap!Init /\ Sequential!Init
  BY DEF FilesInit
<1>2. [FilesNext]_filesVars => [ServiceNext]_serviceVars
  BY DEF FilesNext, filesVars, serviceVars
<1>3. [FilesNext]_filesVars => [HashServiceNext]_hashServiceVars
  BY DEF FilesNext, filesVars, hashServiceVars
<1>4. [FilesNext]_filesVars => [Heap!Next]_(Heap!vars)
  BY DEF FilesNext, filesVars, heapVars, Heap!vars
<1>5. [FilesNext]_filesVars => [Sequential!Next]_(Sequential!vars)
  BY DEF FilesNext, filesVars, seqVars, Sequential!vars
<1>6. [FilesNext]_filesVars => [Tree!Next]_(Tree!vars)
  BY DEF FilesNext, filesVars, treeVars, Tree!vars
<1> QED  BY <1>1, <1>2, <1>3, <1>4, <1>5, <1>6, PTL
         DEF FilesSpec, ServiceSpec, HashServiceSpec, Tree!Spec, Heap!Spec, Sequential!Spec

(* The tree's parameters are what its theorems suppose. *)
LEMMA TreeParameters == Tree!Parameters
BY TreeAssumption DEF Tree!Parameters, Tree!NoRid

(* Between calls, until one is cut short, search finds exactly the keys inserted
   and not removed since (BPlusTree.search, src/storage/bplus_tree.py).    *)
THEOREM TreeFindsExactly == FilesSpec => []TreeSearchExact
<1>1. Tree!SearchExact => TreeSearchExact
  BY DEF TreeSearchExact
<1> QED  BY <1>1, OneOfEach, TreeParameters, Tree!TreeSearch, PTL

(* At every page write of an insert, the last before a stop included, each key
   leads to a leaf and is found at its address or not at all (_insert_rec). *)
THEOREM TreeStaysReadable == FilesSpec => []TreeReadableAtEveryWrite
<1>1. Tree!ReadableAtEveryWrite => TreeReadableAtEveryWrite
  BY DEF TreeReadableAtEveryWrite
<1> QED  BY <1>1, OneOfEach, TreeParameters, Tree!TreeReadable, PTL

(* Between calls all leaves are at one depth and linked both ways, whatever was
   split (_split_leaf, _split_internal and the new root of _insert).       *)
THEOREM TreeStaysBalanced == FilesSpec => []TreeBalanced
<1>1. Tree!TreeBalanced => TreeBalanced
  BY DEF TreeBalanced
<1> QED  BY <1>1, OneOfEach, TreeParameters, Tree!TreeKeepsBalance, PTL

(* Between calls a range search lists exactly the keys between its ends, in
   ascending order (BPlusTree.range_search, src/storage/bplus_tree.py).     *)
THEOREM TreeRangesExactly == FilesSpec => []TreeRangeExact
<1>1. Tree!RangeExact => TreeRangeExact
  BY DEF TreeRangeExact
<1> QED  BY <1>1, OneOfEach, TreeParameters, Tree!TreeRangeSearch, PTL

(* The heap file's parameters are what its theorems suppose. *)
LEMMA HeapParameters == Heap!Parameters
BY HeapAssumption DEF Heap!Parameters

(* Between calls a heap file holds the records inserted and not removed, each as
   often as that (HeapFile.insert and remove, src/storage/heap_file.py).   *)
THEOREM HeapKeepsRecords == FilesSpec => []HeapContentExact
<1>1. Heap!ContentExact => HeapContentExact
  BY DEF HeapContentExact
<1> QED  BY <1>1, OneOfEach, HeapParameters, Heap!HeapContent, PTL

(* Wherever the process stops inside an insert or a remove, the file has every
   record but the one being removed (HeapFile.insert and remove).          *)
THEOREM HeapLosesNone == FilesSpec => []HeapNoRecordLost
<1>1. Heap!NoRecordLost => HeapNoRecordLost
  BY DEF HeapNoRecordLost
<1> QED  BY <1>1, OneOfEach, HeapParameters, Heap!HeapNoneLost, PTL

(* The sequential file's parameters are what its theorems suppose. *)
LEMMA SequentialParameters == Sequential!Parameters
BY HeapAssumption, SequentialAssumption DEF Sequential!Parameters

(* The main area is in key order, page after page, in every state and after every
   stop (SequentialFile.insert and reorganize, src/storage/sequential_file.py). *)
THEOREM SequentialStaysOrdered == FilesSpec => []SequentialMainOrdered
<1>1. Sequential!MainOrdered => SequentialMainOrdered
  BY DEF SequentialMainOrdered
<1> QED  BY <1>1, OneOfEach, SequentialParameters, Sequential!SequentialOrder, PTL

(* Between calls the two areas hold the records inserted, each as often as that,
   whichever of them a reorganization merged (SequentialFile.reorganize).  *)
THEOREM SequentialKeepsRecords == FilesSpec => []SequentialContentExact
<1>1. Sequential!ContentExact => SequentialContentExact
  BY DEF SequentialContentExact
<1> QED  BY <1>1, OneOfEach, SequentialParameters, Sequential!SequentialContent, PTL

(* Wherever the process stops inside an insert or a reorganization, each record
   stored before is in one of the two areas (SequentialFile.insert and reorganize). *)
THEOREM SequentialLosesNone == FilesSpec => []SequentialNoRecordLost
<1>1. Sequential!NoRecordLost => SequentialNoRecordLost
  BY DEF SequentialNoRecordLost
<1> QED  BY <1>1, OneOfEach, SequentialParameters, Sequential!SequentialNoneLost, PTL

(* Between calls a search of the sequential file ends and finds just the keys
   stored, through chains that grew in the middle and after a reorganization of
   torn ones, from the least key of the main area on (SequentialFile.search).  *)
THEOREM SequentialSearchesExactly == FilesSpec => []SequentialSearchExact
<1>1. Sequential!SearchExact => SequentialSearchExact
  BY DEF SequentialSearchExact
<1> QED  BY <1>1, OneOfEach, SequentialParameters, Sequential!SequentialSearch, PTL

(* In every state the pages of every file are nodes and records of the file,
   whichever writes a stop tore, and every answer is one a call can return
   (BPlusTree, HeapFile and SequentialFile under src/storage).             *)
THEOREM FilesTypeCorrect == FilesSpec => []FilesTypeOK
<1>1. ServiceTypeOK /\ Tree!TypeOK /\ Heap!TypeOK /\ Sequential!TypeOK => FilesTypeOK
  BY DEF FilesTypeOK
<1>2. FilesSpec => []ServiceTypeOK
  BY OneOfEach, RecordsTypeCorrect, PTL
<1>3. FilesSpec => []Tree!TypeOK
  BY OneOfEach, TreeParameters, Tree!TreeTypeCorrect, PTL
<1>4. FilesSpec => []Heap!TypeOK
  BY OneOfEach, HeapParameters, Heap!HeapTypeOK, PTL
<1>5. FilesSpec => []Sequential!TypeOK
  BY OneOfEach, SequentialParameters, Sequential!SequentialTypeCorrect, PTL
<1> QED  BY <1>1, <1>2, <1>3, <1>4, <1>5, PTL
=============================================================================
