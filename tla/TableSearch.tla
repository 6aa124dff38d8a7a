---------------------------- MODULE TableSearch -----------------------------
(***************************************************************************)
(* Ordered access to a SEQUENTIAL table (diskstore.py, search_key,         *)
(* range_key and _locate_page): a binary descent over the pages of the main*)
(* file and a linear sweep of the overflow area.                           *)
(*                                                                         *)
(* Both operations start by flushing the table (TableStore's Flush) and    *)
(* then only read, so they are operators over the state they would read:   *)
(* the set of RIDs each would return if it were called now.                *)
(***************************************************************************)
EXTENDS TableStore

NoPage  == -1
NoBound == Hole   \* None as a bound of range_key

PageIndexes == 0..(Len(main) - 1)

(* _records_of: the slots of a page whose record is live, and their keys. *)
LiveSlots(p) == {i \in DOMAIN main[p + 1] : main[p + 1][i] # Hole}
IsEmptied(p) == LiveSlots(p) = {}
FirstKey(p) == main[p + 1][CHOOSE i \in LiveSlots(p) : \A j \in LiveSlots(p) : i <= j]

(* Mutant of LastKey: the first live key, as if a page held one record. *)
OnlyKey(p) == FirstKey(p)

LastKey(p) == main[p + 1][CHOOSE i \in LiveSlots(p) : \A j \in LiveSlots(p) : j <= i]

(* The variables of the loop of _locate_page. *)
Span      == [low : 0..Len(main), high : -1..(Len(main) - 1), candidate : -1..(Len(main) - 1)]
WholeFile == [low |-> 0, high |-> Len(main) - 1, candidate |-> NoPage]
Middle(at) == (at.low + at.high) \div 2

Encloses(p, key) == ~IsEmptied(p) /\ FirstKey(p) <= key /\ key <= LastKey(p)

(* A page with no live record sends the search to its left. *)
Narrowed(at, key, floor) ==
  LET middle == Middle(at)
  IN  IF IsEmptied(middle) THEN [at EXCEPT !.high = middle - 1]
      ELSE IF key < FirstKey(middle)
        THEN [at EXCEPT !.high = middle - 1, !.candidate = IF floor THEN middle ELSE @]
        ELSE [at EXCEPT !.low = middle + 1]

(* No page encloses the key: a sweep (floor) wants the page to start from. *)
Missed(at, floor) ==
  IF ~floor THEN NoPage
  ELSE IF at.candidate # NoPage THEN at.candidate ELSE Larger(0, at.low - 1)

Descent(key, floor) ==
  LET descend[at \in Span] ==
        IF at.low > at.high THEN Missed(at, floor)
        ELSE IF Encloses(Middle(at), key) THEN Middle(at)
        ELSE descend[Narrowed(at, key, floor)]
  IN  descend

(* _locate_page.  The page whose first and last live keys enclose key, or
   NoPage; with floor, the page to sweep from.                             *)
LocatePage(key, floor) == Descent(key, floor)[WholeFile]

Within(key, lower, upper) ==
  /\ lower = NoBound \/ key >= lower
  /\ upper = NoBound \/ key <= upper

InPages(pages, lower, upper) ==
  {rid \in pages \X (0..(Capacity - 1)) :
     LET page == main[rid[1] + 1] IN
     /\ rid[2] < Len(page)
     /\ page[rid[2] + 1] # Hole
     /\ Within(page[rid[2] + 1], lower, upper)}

(* _scan_overflow, after the flush both operations start with. *)
InOverflow(lower, upper) ==
  LET flushed == FlushedFill IN
  {<<OverflowId(at[1] - 1), at[2] - 1>> : at \in
     {ji \in (1..Len(flushed)) \X (1..Capacity) :
        LET page == flushed[ji[1]] IN
        /\ ji[2] <= Len(page)
        /\ page[ji[2]] # Hole
        /\ Within(page[ji[2]], lower, upper)}}

SearchKey(key) ==
  InPages({LocatePage(key, FALSE)} \ {NoPage}, key, key) \cup InOverflow(key, key)

(* Mutant of SweepStart: the sweep starts past the page that holds the bound
   when the bound falls between two pages.                                 *)
SweepStartAfter(lower) ==
  IF lower = NoBound THEN 0
  ELSE LocatePage(lower, TRUE) + (IF LocatePage(lower, FALSE) = NoPage THEN 1 ELSE 0)

(* The sweep skips emptied pages and stops at the first one past the bound. *)
SweepStart(lower) == IF lower = NoBound THEN 0 ELSE LocatePage(lower, TRUE)
Swept(lower, upper) ==
  LET start == SweepStart(lower) IN
  {p \in PageIndexes :
     /\ p >= start
     /\ upper # NoBound => \A q \in start..p : IsEmptied(q) \/ FirstKey(q) <= upper}

RangeKey(lower, upper) ==
  InPages(Swept(lower, upper), lower, upper) \cup InOverflow(lower, upper)

-----------------------------------------------------------------------------
(* Properties.                                                             *)

RowsWithin(rows, lower, upper) == {rid \in DOMAIN rows : Within(rows[rid], lower, upper)}

DistinctKeys(rows) == \A r, q \in DOMAIN rows : rows[r] = rows[q] => r = q

(* Pages emptied by deletes have no live page to their right. *)
EmptiedLast == \A p, q \in PageIndexes : p < q /\ IsEmptied(p) => IsEmptied(q)

(* With no live page to the right of an emptied one, search_key finds a row
   whenever there is one, and every one when no key is repeated; it never
   returns a deleted row or another key's.                                 *)
SearchExact ==
  Ordered /\ open =>
    LET rows == Rows IN
    \A k \in Keys :
      LET wanted == RowsWithin(rows, k, k)
          found  == SearchKey(k)
      IN  /\ found \subseteq wanted
          /\ EmptiedLast /\ wanted # {} => found # {}
          /\ EmptiedLast /\ DistinctKeys(rows) => found = wanted

(* Under the same conditions range_key returns exactly the rows between its
   inclusive bounds, either of which may be absent, although its sweep starts
   and stops early; it never returns a row outside them.                   *)
RangeExact ==
  Ordered /\ open =>
    LET rows  == Rows
        exact == EmptiedLast /\ DistinctKeys(rows)
    IN  \A lower, upper \in Keys \cup {NoBound} :
          LET wanted == RowsWithin(rows, lower, upper)
              found  == RangeKey(lower, upper)
          IN  found \subseteq wanted /\ (exact => found = wanted)

(* A table scan and an ordered lookup agree (diskstore.py: "Binary search for
   the page whose key span contains key"), whatever was deleted before.    *)
SearchFindsEveryRow ==
  Ordered /\ open /\ DistinctKeys(Rows) =>
    \A k \in Keys : SearchKey(k) = RowsWithin(Rows, k, k)

=============================================================================
