----------------------------- MODULE IndexPort -----------------------------
(***************************************************************************)
(* What an index promises to the engine (IndexManager in                   *)
(* queryengine/storage/port.py): a bag of (key, RID) entries, that insert  *)
(* adds to, delete takes one from, and that nothing else changes.  A hash  *)
(* that splits, merges, chains or reopens its file is a stutter here.      *)
(***************************************************************************)
EXTENDS Naturals

CONSTANTS
  IndexKeys,   \* key values of the indexed column
  IndexRids    \* addresses of rows

VARIABLE content   \* how many times the index answers rid for key

Entries == IndexKeys \X IndexRids

Init == content = [e \in Entries |-> 0]

OthersKept(e) == \A d \in Entries \ {e} : content'[d] = content[d]

Insert(e) == content'[e] = content[e] + 1 /\ OthersKept(e)

Delete(e) == content'[e] = content[e] - 1 /\ OthersKept(e)

Next == \E e \in Entries : Insert(e) \/ Delete(e)

Spec == Init /\ [][Next]_content
=============================================================================
