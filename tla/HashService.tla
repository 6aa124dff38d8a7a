----------------------------- MODULE HashService -----------------------------
(***************************************************************************)
(* The index endpoints of the hash service (src/hashing_dinamico/api.py):  *)
(* threads of a pool share the dictionary of open indexes and the JSON     *)
(* catalog, with no lock.  Creating an index loads the catalog at its      *)
(* start and saves it whole at its end; saving it truncates the file and   *)
(* writes it when it is closed (a catalog is shorter than the buffer).     *)
(*                                                                         *)
(* What an index holds is ExtendibleHash; here it is its header page, and  *)
(* the pages that inserts add to a file are left out.                      *)
(***************************************************************************)
EXTENDS Integers

CONSTANTS
  Workers,      \* threads that serve a request each
  Names,        \* index names
  NoText,       \* the catalog was truncated and not yet written
  Garbled,      \* a text with the end of a longer one behind it: no JSON
  MaxHashPages  \* bound: pages of an index file before an index is created in it

VARIABLES
  catalog,  \* catalog.json: name -> header page, NoText or Garbled; no file is the empty catalog
  opened,   \* _open_indexes: name -> header page of the object that serves it
  pages,    \* name -> pages of its .hash.bin file
  request,  \* worker -> the request it serves, or Idle
  created   \* history: <<name, header>> of the creations that no other overlapped

hashServiceVars == <<catalog, opened, pages, request, created>>

Idle == [op |-> "idle"]
(* `found` is the catalog as loaded; `header` is not known yet; `alone`: no
   other creation was under way with this one.                             *)
Creation(n, found, alone) ==
  [op |-> "named", name |-> n, found |-> found, header |-> 0, alone |-> alone]
Opening(n, header) == [op |-> "opening", name |-> n, header |-> header]

Readable == catalog \notin {NoText, Garbled}
Creating(c) == request[c].op \in {"named", "sized", "built", "saving"}
With(f, n, header) == [m \in DOMAIN f \cup {n} |-> IF m = n THEN header ELSE f[m]]
Advance(c, stage) == request' = [request EXCEPT ![c].op = stage]

-----------------------------------------------------------------------------
HashServiceInit ==
  /\ catalog = <<>>
  /\ opened = <<>>
  /\ pages = [n \in Names |-> 0]
  /\ request = [c \in Workers |-> Idle]
  /\ created = {}

AlwaysFree(n) == TRUE   \* mutant: no 409
IsFree(n) == n \notin DOMAIN catalog

(* POST /indexes: the catalog is loaded and must not have the name (409).  An
   unreadable catalog is an error that changes nothing.                    *)
StartCreate(c, n) ==
  /\ request[c] = Idle
  /\ Readable
  /\ IsFree(n)
  /\ pages[n] <= MaxHashPages
  /\ request' = [d \in Workers |->
                   IF d = c THEN Creation(n, catalog, ~\E e \in Workers : Creating(e))
                   ELSE IF Creating(d) THEN [request[d] EXCEPT !.alone = FALSE]
                   ELSE request[d]]
  /\ UNCHANGED <<catalog, opened, pages, created>>

(* ... the size of the file names the header page, which it allocates next ... *)
TakeHeader(c) ==
  /\ request[c].op = "named"
  /\ request' = [request EXCEPT ![c].op = "sized", ![c].header = pages[request[c].name]]
  /\ UNCHANGED <<catalog, opened, pages, created>>

NewIndexPages == 3   \* header, bucket, directory

BuildInMemory(c) ==   \* mutant: no page reaches the file yet
  /\ request[c].op = "sized"
  /\ opened' = With(opened, request[c].name, request[c].header)
  /\ Advance(c, "built")
  /\ UNCHANGED <<catalog, pages, created>>

(* ... the pages of the new index are written, and it is open ... *)
BuildIndex(c) ==
  /\ request[c].op = "sized"
  /\ pages' = [pages EXCEPT ![request[c].name] = @ + NewIndexPages]
  /\ opened' = With(opened, request[c].name, request[c].header)
  /\ Advance(c, "built")
  /\ UNCHANGED <<catalog, created>>

(* ... catalog.json is opened for writing, which empties it ... *)
TruncateCatalog(c) ==
  /\ request[c].op = "built"
  /\ catalog' = NoText
  /\ Advance(c, "saving")
  /\ UNCHANGED <<opened, pages, created>>

OnlyItself(c) == With(<<>>, request[c].name, request[c].header)   \* mutant: a new catalog
WithIndex(c) == With(request[c].found, request[c].name, request[c].header)

(* ... and the catalog that was loaded is written, with the new index.  Over
   the text of another request it leaves the end of that one, if it is longer:
   the length of a text depends on the names in it.                        *)
WriteCatalog(c) ==
  /\ request[c].op = "saving"
  /\ \/ catalog' = WithIndex(c)
     \/ catalog \notin {NoText, WithIndex(c)} /\ catalog' = Garbled
  /\ created' = IF request[c].alone
                THEN created \cup {<<request[c].name, request[c].header>>} ELSE created
  /\ request' = [request EXCEPT ![c] = Idle]
  /\ UNCHANGED <<opened, pages>>

(* insert, search, delete and stats: the first request for an index looks it up
   in the catalog (404 if it is not there) ...                             *)
StartOpen(c, n) ==
  /\ request[c] = Idle
  /\ n \notin DOMAIN opened
  /\ Readable
  /\ n \in DOMAIN catalog
  /\ request' = [request EXCEPT ![c] = Opening(n, catalog[n])]
  /\ UNCHANGED <<catalog, opened, pages, created>>

(* ... reads its header and directory, and keeps the object for all. *)
FinishOpen(c) ==
  /\ request[c].op = "opening"
  /\ opened' = With(opened, request[c].name, request[c].header)
  /\ request' = [request EXCEPT ![c] = Idle]
  /\ UNCHANGED <<catalog, pages, created>>

(* The service stops, whatever it was doing, and starts again. *)
StopHashService ==
  /\ opened' = <<>>
  /\ request' = [c \in Workers |-> Idle]
  /\ UNCHANGED <<catalog, pages, created>>

HashServiceNext ==
  \/ \E c \in Workers :
       \/ \E n \in Names : StartCreate(c, n) \/ StartOpen(c, n)
       \/ TakeHeader(c)
       \/ BuildIndex(c)
       \/ TruncateCatalog(c)
       \/ WriteCatalog(c)
       \/ FinishOpen(c)
  \/ StopHashService

HashServiceSpec == HashServiceInit /\ [][HashServiceNext]_hashServiceVars

-----------------------------------------------------------------------------
(* Properties.                                                             *)

(* An index whose creation no other creation overlapped is in every catalog
   that can be read, whatever creations overlap later and wherever the service
   stops: saving a catalog loaded earlier never drops it.                  *)
CreatedStayListed ==
  Readable => \A e \in created : e[1] \in DOMAIN catalog /\ catalog[e[1]] = e[2]

(* ... and the object that serves it is the one of its own header page: it is
   not created again behind the requests that already use it, nor opened from
   another header.                                                         *)
CreatedServedAsListed ==
  \A e \in created : e[1] \in DOMAIN opened => opened[e[1]] = e[2]

(* The header page of a listed index is in its file, so a new process can open
   it: the file comes before the catalog, wherever the service stops.      *)
ListedExist ==
  Readable => \A n \in DOMAIN catalog : catalog[n] < pages[n]
=============================================================================
