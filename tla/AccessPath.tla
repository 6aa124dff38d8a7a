----------------------------- MODULE AccessPath -----------------------------
(***************************************************************************)
(* Access path selection for one WHERE clause over one integer column      *)
(* (queryengine/planner): key_ranges folds the conjuncts into a KeyRange   *)
(* (predicates.py), one tighten at a time; _access_path then picks a path  *)
(* and keeps, in a Filter above it, the conjuncts the path does not        *)
(* consume (planner.py); the executor yields the rows of the path.         *)
(*                                                                         *)
(* A row is represented by its value in the column.  The cost model decides*)
(* between the paths; here any of them may win.  A conjunct that is not    *)
(* sargable stands as NE: it narrows nothing and is always filtered.       *)
(***************************************************************************)
EXTENDS Integers, Sequences

CONSTANTS
  Literals,       \* constants a WHERE clause compares with
  ColumnValues,   \* values of the column
  None,           \* Python's None: no bound
  MaxConjuncts    \* bound: conjuncts in the clause

ASSUME LiteralsAssumption == Literals \subseteq Int
ASSUME ValuesAssumption   == ColumnValues \subseteq Int
ASSUME NoneAssumption     == None \notin Int
ASSUME BoundAssumption    == MaxConjuncts \in Nat

VARIABLES
  conjuncts,   \* the conjuncts folded so far, in the order of the clause
  range,       \* the KeyRange they make
  path         \* the access path chosen, or Unplanned

vars == <<conjuncts, range, path>>

Operators == {"EQ", "NE", "GT", "GE", "LT", "LE"}
Predicate == [op : Operators, value : Literals]

Unplanned == "Unplanned"
Paths == {"SeqScan", "IndexScan", "IndexRangeScan", "SequentialSearch", "SequentialRangeScan"}

KeyRange == [lower : Literals \cup {None}, upper : Literals \cup {None},
             lower_inclusive : BOOLEAN, upper_inclusive : BOOLEAN,
             equality : Literals \cup {None}, has_equality : BOOLEAN, empty : BOOLEAN]

NewRange == [lower |-> None, upper |-> None,
             lower_inclusive |-> TRUE, upper_inclusive |-> TRUE,
             equality |-> None, has_equality |-> FALSE, empty |-> FALSE]

(* Whether the row with value v satisfies p: what the Filter evaluates. *)
Satisfies(v, p) ==
  CASE p.op = "EQ" -> v = p.value
    [] p.op = "NE" -> v # p.value
    [] p.op = "GT" -> v > p.value
    [] p.op = "GE" -> v >= p.value
    [] p.op = "LT" -> v < p.value
    [] p.op = "LE" -> v <= p.value

-----------------------------------------------------------------------------
(* KeyRange.tighten                                                        *)

(* A later equality overrides the bounds; only another one is compared. *)
TightenEquality(r, v) ==
  [lower |-> v, upper |-> v, lower_inclusive |-> TRUE, upper_inclusive |-> TRUE,
   equality |-> v, has_equality |-> TRUE,
   empty |-> r.empty \/ (r.has_equality /\ r.equality # v)]

(* Mutant of RaisesLower: the last lower bound wins, not the highest. *)
RaisesLowerAlways(r, v, inclusive) == TRUE

RaisesLower(r, v, inclusive) ==
  r.lower = None \/ v > r.lower \/ (v = r.lower /\ ~inclusive)
LowersUpper(r, v, inclusive) ==
  r.upper = None \/ v < r.upper \/ (v = r.upper /\ ~inclusive)

TightenLower(r, v, inclusive) ==
  IF RaisesLower(r, v, inclusive)
    THEN [r EXCEPT !.lower = v, !.lower_inclusive = inclusive] ELSE r
TightenUpper(r, v, inclusive) ==
  IF LowersUpper(r, v, inclusive)
    THEN [r EXCEPT !.upper = v, !.upper_inclusive = inclusive] ELSE r

IsEmpty(r) ==
  IF r.lower = None \/ r.upper = None THEN r.empty
  ELSE IF r.lower > r.upper THEN TRUE
  ELSE IF r.lower = r.upper THEN ~(r.lower_inclusive /\ r.upper_inclusive)
  ELSE r.empty
CheckEmpty(r) == [r EXCEPT !.empty = IsEmpty(r)]

Tighten(r, p) ==
  CASE p.op = "EQ" -> TightenEquality(r, p.value)
    [] p.op = "NE" -> r
    [] p.op = "GT" -> CheckEmpty(TightenLower(r, p.value, FALSE))
    [] p.op = "GE" -> CheckEmpty(TightenLower(r, p.value, TRUE))
    [] p.op = "LT" -> CheckEmpty(TightenUpper(r, p.value, FALSE))
    [] p.op = "LE" -> CheckEmpty(TightenUpper(r, p.value, TRUE))

-----------------------------------------------------------------------------
(* Planning.                                                               *)

IsEquality(r) == r.has_equality /\ ~r.empty
IsBounded(r)  == r.lower # None \/ r.upper # None

(* _indexed_paths and _ordered_paths offer nothing for an empty range. *)
Candidates(r) ==
  {"SeqScan"}
    \cup (IF IsEquality(r) THEN {"IndexScan", "SequentialSearch"} ELSE {})
    \cup (IF ~r.empty /\ ~r.has_equality /\ IsBounded(r)
            THEN {"IndexRangeScan", "SequentialRangeScan"} ELSE {})

Init ==
  /\ conjuncts = <<>>
  /\ range = NewRange
  /\ path = Unplanned

Fold(p) ==
  /\ path = Unplanned
  /\ Len(conjuncts) < MaxConjuncts
  /\ conjuncts' = Append(conjuncts, p)
  /\ range' = Tighten(range, p)
  /\ UNCHANGED path

Choose(c) ==
  /\ path = Unplanned
  /\ c \in Candidates(range)
  /\ path' = c
  /\ UNCHANGED <<conjuncts, range>>

Next ==
  \/ \E p \in Predicate : Fold(p)
  \/ \E c \in Paths : Choose(c)

Spec == Init /\ [][Next]_vars

-----------------------------------------------------------------------------
(* Execution.                                                              *)

(* Mutant of AboveLower: the bound itself is always left out. *)
StrictlyAbove(r, v) == r.lower = None \/ v > r.lower

AboveLower(r, v) ==
  r.lower = None \/ v > r.lower \/ (v = r.lower /\ r.lower_inclusive)
BelowUpper(r, v) ==
  r.upper = None \/ v < r.upper \/ (v = r.upper /\ r.upper_inclusive)

(* _within_bounds rechecks strict bounds; range_key has inclusive ones only. *)
Yields(c, r, v) ==
  CASE c = "SeqScan" -> TRUE
    [] c \in {"IndexScan", "SequentialSearch"} -> v = r.equality
    [] c = "IndexRangeScan" -> AboveLower(r, v) /\ BelowUpper(r, v)
    [] c = "SequentialRangeScan" ->
         (r.lower = None \/ v >= r.lower) /\ (r.upper = None \/ v <= r.upper)

(* _conjuncts_for: every sargable conjunct on the path's column. *)
Consumed(c, p) == c # "SeqScan" /\ p.op # "NE"

Returned(v) ==
  /\ Yields(path, range, v)
  /\ \A i \in DOMAIN conjuncts : Consumed(path, conjuncts[i]) \/ Satisfies(v, conjuncts[i])

Wanted(v) == \A i \in DOMAIN conjuncts : Satisfies(v, conjuncts[i])

-----------------------------------------------------------------------------
(* Properties.                                                             *)

(* The range is a KeyRange, and the path one of the candidates. *)
TypeOK ==
  /\ conjuncts \in Seq(Predicate)
  /\ range \in KeyRange
  /\ path \in Paths \cup {Unplanned}
  /\ path # Unplanned => path \in Candidates(range)

(* Whatever path wins, no row that satisfies the WHERE clause is lost: the
   bounds, the equality and the emptiness test only ever drop values that
   some conjunct excludes, in whatever order the conjuncts come.           *)
NoRowLost ==
  path # Unplanned => \A v \in ColumnValues : Wanted(v) => Returned(v)

(* The first conjunct on the column is an equality, or none is. *)
IsSargable(p) == p.op # "NE"
EqualityFirst ==
  \A i, j \in DOMAIN conjuncts :
    i < j /\ IsSargable(conjuncts[i]) => conjuncts[j].op # "EQ"

InclusiveBounds ==
  /\ range.lower # None => range.lower_inclusive
  /\ range.upper # None => range.upper_inclusive

(* When no equality follows another conjunct on the column, every path returns
   exactly the rows wanted, except a sequential range with a strict bound.  *)
ExactWhenEqualityFirst ==
  path # Unplanned /\ EqualityFirst
      /\ (path = "SequentialRangeScan" => InclusiveBounds) =>
    \A v \in ColumnValues : Returned(v) => Wanted(v)

(* planner.py: "Whatever the chosen path does not enforce is re-checked by a
   Filter above it, so the plan is correct regardless of which path wins".  *)
ConsumedIsEnforced ==
  path # Unplanned => \A v \in ColumnValues : Returned(v) => Wanted(v)

=============================================================================
