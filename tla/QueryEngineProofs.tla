-------------------------- MODULE QueryEngineProofs --------------------------
(***************************************************************************)
(* Theorems about the query engine.  The planner (AccessPath), for every   *)
(* set of integer literals and column values: planning never loses a row,  *)
(* and is exact when no equality follows another conjunct.  The statements *)
(* on both kinds of table (MCEngine), for any keys, any page capacity and  *)
(* any bounds: a behaviour is one of the engine on one kind of table,      *)
(* whose theorems apply.                                                   *)
(***************************************************************************)
EXTENDS AccessPath, MCEngine, TLAPS

-----------------------------------------------------------------------------
(* The planner.                                                            *)

InBounds(r, v) == AboveLower(r, v) /\ BelowUpper(r, v)

(* The bounds hold every value wanted, and only them when EqualityFirst. *)
BoundsCover ==
  \A v \in ColumnValues : Wanted(v) =>
    InBounds(range, v) /\ (range.has_equality => v = range.equality)
BoundsEnforce ==
  EqualityFirst => \A v \in Int : InBounds(range, v) =>
    \A i \in DOMAIN conjuncts : IsSargable(conjuncts[i]) => Satisfies(v, conjuncts[i])

(* Once there is an equality the bounds close around it, and the range is
   empty unless they still admit it.                                       *)
EqualityInside(r) ==
  r.has_equality =>
    /\ r.equality \in Int /\ r.lower \in Int /\ r.upper \in Int
    /\ r.upper <= r.equality /\ r.equality <= r.lower
    /\ ~r.empty => InBounds(r, r.equality)
    /\ ~InBounds(r, r.equality) => r.empty

IInv ==
  /\ TypeOK
  /\ BoundsCover
  /\ BoundsEnforce
  /\ EqualityFirst => EqualityInside(range)

-----------------------------------------------------------------------------
(* What one tighten does to the values a range admits. *)
LEMMA TightenType ==
  ASSUME NEW r \in KeyRange, NEW p \in Predicate
  PROVE  Tighten(r, p) \in KeyRange
<1>1. ASSUME NEW q \in KeyRange PROVE CheckEmpty(q) \in KeyRange
  <2>1. q.lower_inclusive \in BOOLEAN /\ q.upper_inclusive \in BOOLEAN /\ q.empty \in BOOLEAN
    BY DEF KeyRange
  <2>2. IsEmpty(q) \in BOOLEAN
    BY <2>1 DEF IsEmpty
  <2>3. QED BY <2>2 DEF CheckEmpty, KeyRange
<1>2. ASSUME NEW v \in Literals, NEW i \in BOOLEAN
      PROVE  TightenLower(r, v, i) \in KeyRange /\ TightenUpper(r, v, i) \in KeyRange
  BY DEF TightenLower, TightenUpper, KeyRange
<1>3. ASSUME NEW v \in Literals PROVE TightenEquality(r, v) \in KeyRange
  <2>1. r.empty \in BOOLEAN /\ r.has_equality \in BOOLEAN
    BY DEF KeyRange
  <2>2. (r.empty \/ (r.has_equality /\ r.equality # v)) \in BOOLEAN
    OBVIOUS
  <2>3. QED BY <2>2 DEF TightenEquality, KeyRange
<1>4. p.op \in Operators /\ p.value \in Literals
  BY DEF Predicate
<1>5. QED BY <1>1, <1>2, <1>3, <1>4 DEF Tighten, Operators

(* What tightening the lower bound leaves in each field of the range. *)
LEMMA LowerFields ==
  ASSUME NEW r \in KeyRange, NEW w \in Literals, NEW i \in BOOLEAN
  PROVE  LET t == CheckEmpty(TightenLower(r, w, i)) IN
         /\ t.lower = IF RaisesLower(r, w, i) THEN w ELSE r.lower
         /\ t.lower_inclusive = IF RaisesLower(r, w, i) THEN i ELSE r.lower_inclusive
         /\ t.upper = r.upper /\ t.upper_inclusive = r.upper_inclusive
         /\ t.empty = IsEmpty(TightenLower(r, w, i))
         /\ t.has_equality = r.has_equality /\ t.equality = r.equality
BY DEF TightenLower, CheckEmpty, KeyRange

(* What tightening the upper bound leaves in each field of the range. *)
LEMMA UpperFields ==
  ASSUME NEW r \in KeyRange, NEW w \in Literals, NEW i \in BOOLEAN
  PROVE  LET t == CheckEmpty(TightenUpper(r, w, i)) IN
         /\ t.upper = IF LowersUpper(r, w, i) THEN w ELSE r.upper
         /\ t.upper_inclusive = IF LowersUpper(r, w, i) THEN i ELSE r.upper_inclusive
         /\ t.lower = r.lower /\ t.lower_inclusive = r.lower_inclusive
         /\ t.empty = IsEmpty(TightenUpper(r, w, i))
         /\ t.has_equality = r.has_equality /\ t.equality = r.equality
BY DEF TightenUpper, CheckEmpty, KeyRange

(* A raised lower bound admits what the old one did above the new literal. *)
LEMMA LowerNarrows ==
  ASSUME NEW r \in KeyRange, NEW w \in Literals, NEW i \in BOOLEAN, NEW v \in Int
  PROVE  InBounds(CheckEmpty(TightenLower(r, w, i)), v)
           <=> InBounds(r, v) /\ (v > w \/ (i /\ v = w))
<1> DEFINE t == CheckEmpty(TightenLower(r, w, i))
<1>1. /\ w \in Int
      /\ r.lower \in Int \/ r.lower = None
      /\ None \notin Int
  BY LiteralsAssumption, NoneAssumption DEF KeyRange
<1>2. BelowUpper(t, v) <=> BelowUpper(r, v)
  BY LowerFields DEF BelowUpper
<1>3. CASE RaisesLower(r, w, i)
  <2>1. t.lower = w /\ t.lower_inclusive = i
    BY <1>3, LowerFields
  <2>2. AboveLower(t, v) <=> (v > w \/ (i /\ v = w))
    BY <1>1, <2>1 DEF AboveLower
  <2>3. (v > w \/ (i /\ v = w)) => AboveLower(r, v)
    BY <1>1, <1>3 DEF AboveLower, RaisesLower
  <2>4. QED BY <1>2, <2>2, <2>3 DEF InBounds
<1>4. CASE ~RaisesLower(r, w, i)
  <2>1. t.lower = r.lower /\ t.lower_inclusive = r.lower_inclusive
    BY <1>4, LowerFields
  <2>2. AboveLower(t, v) <=> AboveLower(r, v)
    BY <2>1 DEF AboveLower
  <2>3. AboveLower(r, v) => (v > w \/ (i /\ v = w))
    BY <1>1, <1>4 DEF AboveLower, RaisesLower
  <2>4. QED BY <1>2, <2>2, <2>3 DEF InBounds
<1>5. QED BY <1>3, <1>4

(* A lowered upper bound admits what the old one did below the new literal. *)
LEMMA UpperNarrows ==
  ASSUME NEW r \in KeyRange, NEW w \in Literals, NEW i \in BOOLEAN, NEW v \in Int
  PROVE  InBounds(CheckEmpty(TightenUpper(r, w, i)), v)
           <=> InBounds(r, v) /\ (v < w \/ (i /\ v = w))
<1> DEFINE t == CheckEmpty(TightenUpper(r, w, i))
<1>1. /\ w \in Int
      /\ r.upper \in Int \/ r.upper = None
      /\ None \notin Int
  BY LiteralsAssumption, NoneAssumption DEF KeyRange
<1>2. AboveLower(t, v) <=> AboveLower(r, v)
  BY UpperFields DEF AboveLower
<1>3. CASE LowersUpper(r, w, i)
  <2>1. t.upper = w /\ t.upper_inclusive = i
    BY <1>3, UpperFields
  <2>2. BelowUpper(t, v) <=> (v < w \/ (i /\ v = w))
    BY <1>1, <2>1 DEF BelowUpper
  <2>3. (v < w \/ (i /\ v = w)) => BelowUpper(r, v)
    BY <1>1, <1>3 DEF BelowUpper, LowersUpper
  <2>4. QED BY <1>2, <2>2, <2>3 DEF InBounds
<1>4. CASE ~LowersUpper(r, w, i)
  <2>1. t.upper = r.upper /\ t.upper_inclusive = r.upper_inclusive
    BY <1>4, UpperFields
  <2>2. BelowUpper(t, v) <=> BelowUpper(r, v)
    BY <2>1 DEF BelowUpper
  <2>3. BelowUpper(r, v) => (v < w \/ (i /\ v = w))
    BY <1>1, <1>4 DEF BelowUpper, LowersUpper
  <2>4. QED BY <1>2, <2>2, <2>3 DEF InBounds
<1>5. QED BY <1>3, <1>4

(* Folding a comparison narrows the range by exactly what the comparison says. *)
LEMMA TightenNarrows ==
  ASSUME NEW r \in KeyRange, NEW p \in Predicate, NEW v \in Int, p.op # "EQ"
  PROVE  InBounds(Tighten(r, p), v) <=> InBounds(r, v) /\ (IsSargable(p) => Satisfies(v, p))
<1>1. p.op \in Operators /\ p.value \in Literals /\ p.value \in Int
  BY LiteralsAssumption DEF Predicate
<1>2. CASE p.op = "NE" BY <1>2 DEF Tighten, IsSargable
<1>3. CASE p.op = "GT"
  <2>1. InBounds(CheckEmpty(TightenLower(r, p.value, FALSE)), v)
          <=> InBounds(r, v) /\ (v > p.value \/ (FALSE /\ v = p.value))
    <3> HIDE DEF InBounds, CheckEmpty, TightenLower
    <3>1. QED BY <1>1, LowerNarrows, Zenon
  <2>2. Tighten(r, p) = CheckEmpty(TightenLower(r, p.value, FALSE))
    BY <1>3 DEF Tighten
  <2>3. IsSargable(p) /\ (Satisfies(v, p) <=> v > p.value)
    BY <1>3 DEF IsSargable, Satisfies
  <2>4. QED BY <2>1, <2>2, <2>3
<1>4. CASE p.op = "GE"
  <2>1. InBounds(CheckEmpty(TightenLower(r, p.value, TRUE)), v)
          <=> InBounds(r, v) /\ (v > p.value \/ (TRUE /\ v = p.value))
    <3> HIDE DEF InBounds, CheckEmpty, TightenLower
    <3>1. QED BY <1>1, LowerNarrows, Zenon
  <2>2. Tighten(r, p) = CheckEmpty(TightenLower(r, p.value, TRUE))
    BY <1>4 DEF Tighten
  <2>3. IsSargable(p) /\ (Satisfies(v, p) <=> v >= p.value)
    BY <1>4 DEF IsSargable, Satisfies
  <2>4. v >= p.value <=> v > p.value \/ v = p.value
    BY <1>1
  <2>5. QED BY <2>1, <2>2, <2>3, <2>4
<1>5. CASE p.op = "LT"
  <2>1. InBounds(CheckEmpty(TightenUpper(r, p.value, FALSE)), v)
          <=> InBounds(r, v) /\ (v < p.value \/ (FALSE /\ v = p.value))
    <3> HIDE DEF InBounds, CheckEmpty, TightenUpper
    <3>1. QED BY <1>1, UpperNarrows, Zenon
  <2>2. Tighten(r, p) = CheckEmpty(TightenUpper(r, p.value, FALSE))
    BY <1>5 DEF Tighten
  <2>3. IsSargable(p) /\ (Satisfies(v, p) <=> v < p.value)
    BY <1>5 DEF IsSargable, Satisfies
  <2>4. QED BY <2>1, <2>2, <2>3
<1>6. CASE p.op = "LE"
  <2>1. InBounds(CheckEmpty(TightenUpper(r, p.value, TRUE)), v)
          <=> InBounds(r, v) /\ (v < p.value \/ (TRUE /\ v = p.value))
    <3> HIDE DEF InBounds, CheckEmpty, TightenUpper
    <3>1. QED BY <1>1, UpperNarrows, Zenon
  <2>2. Tighten(r, p) = CheckEmpty(TightenUpper(r, p.value, TRUE))
    BY <1>6 DEF Tighten
  <2>3. IsSargable(p) /\ (Satisfies(v, p) <=> v <= p.value)
    BY <1>6 DEF IsSargable, Satisfies
  <2>4. v <= p.value <=> v < p.value \/ v = p.value
    BY <1>1
  <2>5. QED BY <2>1, <2>2, <2>3, <2>4
<1>7. QED BY <1>1, <1>2, <1>3, <1>4, <1>5, <1>6 DEF Operators

(* Folding an equality leaves the one value it names. *)
LEMMA TightenToEquality ==
  ASSUME NEW r \in KeyRange, NEW p \in Predicate, NEW v \in Int, p.op = "EQ"
  PROVE  /\ InBounds(Tighten(r, p), v) <=> v = p.value
         /\ Tighten(r, p).has_equality
         /\ Tighten(r, p).equality = p.value
BY LiteralsAssumption, NoneAssumption
DEF Tighten, TightenEquality, KeyRange, Predicate, InBounds, AboveLower, BelowUpper

(* Folding a comparison that is no equality forgets none. *)
LEMMA TightenKeepsEquality ==
  ASSUME NEW r \in KeyRange, NEW p \in Predicate, p.op # "EQ"
  PROVE  /\ Tighten(r, p).has_equality = r.has_equality
         /\ Tighten(r, p).equality = r.equality
BY DEF Tighten, TightenLower, TightenUpper, CheckEmpty, KeyRange, Predicate, Operators

(* Bounds closed around an equality admit it exactly when they are not empty. *)
LEMMA ClosedBoundsDecide ==
  ASSUME NEW t, NEW e \in Int, t.lower \in Int, t.upper \in Int,
         t.lower_inclusive \in BOOLEAN, t.upper_inclusive \in BOOLEAN,
         t.upper <= e, e <= t.lower
  PROVE  InBounds(t, e) <=> ~IsEmpty(t)
<1>1. t.lower # None /\ t.upper # None
  BY NoneAssumption
<1>2. CASE t.lower > t.upper
  <2>1. IsEmpty(t)
    BY <1>1, <1>2 DEF IsEmpty
  <2>2. t.lower > e \/ t.upper < e
    BY <1>2
  <2>3. ~InBounds(t, e)
    BY <1>1, <2>2 DEF InBounds, AboveLower, BelowUpper
  <2>4. QED BY <2>1, <2>3
<1>3. CASE ~(t.lower > t.upper)
  <2>1. t.lower = e /\ t.upper = e
    BY <1>3
  <2>2. IsEmpty(t) <=> ~(t.lower_inclusive /\ t.upper_inclusive)
    BY <1>1, <2>1 DEF IsEmpty
  <2>3. AboveLower(t, e) <=> t.lower_inclusive
    BY <1>1, <2>1 DEF AboveLower
  <2>4. BelowUpper(t, e) <=> t.upper_inclusive
    BY <1>1, <2>1 DEF BelowUpper
  <2>5. QED BY <2>2, <2>3, <2>4 DEF InBounds
<1>4. QED BY <1>2, <1>3

(* The bounds stay closed around an equality, and `empty` stays accurate. *)
LEMMA TightenEqualityInside ==
  ASSUME NEW r \in KeyRange, NEW p \in Predicate, p.op # "EQ", EqualityInside(r)
  PROVE  EqualityInside(Tighten(r, p))
<1> DEFINE t == Tighten(r, p)
<1> HIDE DEF t
<1>1. /\ p.op \in Operators /\ p.value \in Literals /\ p.value \in Int
      /\ None \notin Int
      /\ r.lower_inclusive \in BOOLEAN /\ r.upper_inclusive \in BOOLEAN
      /\ r.empty \in BOOLEAN
  BY LiteralsAssumption, NoneAssumption DEF Predicate, KeyRange
<1>2. t.has_equality = r.has_equality /\ t.equality = r.equality
  BY TightenKeepsEquality DEF t
<1>3. SUFFICES ASSUME r.has_equality PROVE EqualityInside(t)
  BY <1>2 DEF EqualityInside, t
<1>4. /\ r.equality \in Int /\ r.lower \in Int /\ r.upper \in Int
      /\ r.upper <= r.equality /\ r.equality <= r.lower
      /\ ~r.empty => InBounds(r, r.equality)
      /\ ~InBounds(r, r.equality) => r.empty
  BY <1>3 DEF EqualityInside
<1>5. ASSUME NEW i \in BOOLEAN, t = CheckEmpty(TightenLower(r, p.value, i))
      PROVE  EqualityInside(t)
  <2>1. /\ t.lower \in Int /\ t.upper \in Int
        /\ t.upper <= r.equality /\ r.equality <= t.lower
        /\ t.lower_inclusive \in BOOLEAN /\ t.upper_inclusive \in BOOLEAN
    BY <1>1, <1>4, <1>5, LowerFields DEF RaisesLower
  <2>2. t.empty = IsEmpty(t)
    BY <1>1, <1>4, <1>5, LowerFields DEF IsEmpty, CheckEmpty, TightenLower, KeyRange
  <2>3. QED BY <1>1, <1>2, <1>4, <2>1, <2>2, ClosedBoundsDecide DEF EqualityInside
<1>6. ASSUME NEW i \in BOOLEAN, t = CheckEmpty(TightenUpper(r, p.value, i))
      PROVE  EqualityInside(t)
  <2>1. /\ t.lower \in Int /\ t.upper \in Int
        /\ t.upper <= r.equality /\ r.equality <= t.lower
        /\ t.lower_inclusive \in BOOLEAN /\ t.upper_inclusive \in BOOLEAN
    BY <1>1, <1>4, <1>6, UpperFields DEF LowersUpper
  <2>2. t.empty = IsEmpty(t)
    BY <1>1, <1>4, <1>6, UpperFields DEF IsEmpty, CheckEmpty, TightenUpper, KeyRange
  <2>3. QED BY <1>1, <1>2, <1>4, <2>1, <2>2, ClosedBoundsDecide DEF EqualityInside
<1>7. CASE p.op = "NE" BY <1>7 DEF Tighten, t
<1>8. CASE p.op \in {"GT", "GE"} BY <1>5, <1>8 DEF Tighten, t
<1>9. CASE p.op \in {"LT", "LE"} BY <1>6, <1>9 DEF Tighten, t
<1>10. QED BY <1>1, <1>7, <1>8, <1>9 DEF Operators

-----------------------------------------------------------------------------
(* Whatever conjuncts are folded, in whatever order, the range covers the values
   wanted and, once an equality is folded, closes around it (tighten). *)
THEOREM InductiveInvariant == Spec => []IInv
<1>1. Init => IInv
  BY DEF Init, IInv, TypeOK, NewRange, KeyRange, Unplanned, Paths, BoundsCover, BoundsEnforce,
         InBounds, AboveLower, BelowUpper, EqualityFirst, EqualityInside
<1>2. IInv /\ [Next]_vars => IInv'
  <2> SUFFICES ASSUME IInv, [Next]_vars PROVE IInv'
    OBVIOUS
  <2>1. ASSUME NEW p \in Predicate, Fold(p) PROVE IInv'
    <3> DEFINE n == Len(conjuncts)
    <3>1. /\ conjuncts \in Seq(Predicate)
          /\ range \in KeyRange
      BY DEF IInv, TypeOK
    <3>2. /\ conjuncts' = Append(conjuncts, p)
          /\ range' = Tighten(range, p)
          /\ path' = Unplanned
      BY <2>1 DEF Fold
    <3>3. /\ conjuncts' \in Seq(Predicate)
          /\ DOMAIN conjuncts = 1..n
          /\ DOMAIN conjuncts' = 1..(n + 1)
          /\ n \in Nat
          /\ \A i \in DOMAIN conjuncts : i \in DOMAIN conjuncts' /\ conjuncts'[i] = conjuncts[i]
          /\ n + 1 \in DOMAIN conjuncts'
          /\ conjuncts'[n + 1] = p
          /\ \A i \in DOMAIN conjuncts' : i \in DOMAIN conjuncts \/ i = n + 1
      BY <3>1, <3>2
    <3>4. TypeOK'
      BY <3>1, <3>2, <3>3, TightenType DEF TypeOK
    <3>5. \A v \in ColumnValues : Wanted(v)' => Wanted(v) /\ Satisfies(v, p)
      BY <3>3 DEF Wanted
    <3>6. BoundsCover'
      <4> SUFFICES ASSUME NEW v \in ColumnValues, Wanted(v)'
                   PROVE  InBounds(range', v) /\ (range'.has_equality => v = range'.equality)
        BY DEF BoundsCover
      <4>1. v \in Int
        BY ValuesAssumption
      <4>2. Satisfies(v, p) /\ InBounds(range, v) /\ (range.has_equality => v = range.equality)
        BY <3>5 DEF IInv, BoundsCover
      <4>3. CASE p.op = "EQ"
        BY <3>1, <3>2, <4>1, <4>2, <4>3, TightenToEquality DEF Satisfies
      <4>4. CASE p.op # "EQ"
        BY <3>1, <3>2, <4>1, <4>2, <4>4, TightenNarrows, TightenKeepsEquality
      <4>5. QED BY <4>3, <4>4
    <3>7. EqualityFirst' => EqualityFirst
      BY <3>3 DEF EqualityFirst
    <3>8. EqualityFirst' /\ p.op = "EQ" => \A i \in DOMAIN conjuncts : ~IsSargable(conjuncts[i])
      BY <3>3 DEF EqualityFirst
    <3>9. BoundsEnforce'
      <4> SUFFICES ASSUME EqualityFirst', NEW v \in Int, InBounds(range', v),
                          NEW i \in DOMAIN conjuncts', IsSargable(conjuncts'[i])
                   PROVE  Satisfies(v, conjuncts'[i])
        BY DEF BoundsEnforce
      <4>1. CASE p.op = "EQ"
        <5>1. i = n + 1
          BY <3>3, <3>8, <4>1
        <5>2. v = p.value
          BY <3>1, <3>2, <4>1, TightenToEquality
        <5>3. QED BY <3>3, <4>1, <5>1, <5>2 DEF Satisfies
      <4>2. CASE p.op # "EQ"
        <5>1. InBounds(range, v) /\ (IsSargable(p) => Satisfies(v, p))
          BY <3>1, <3>2, <4>2, TightenNarrows
        <5>2. CASE i = n + 1
          BY <3>3, <5>1, <5>2
        <5>3. CASE i \in DOMAIN conjuncts
          BY <3>3, <3>7, <5>1, <5>3 DEF IInv, BoundsEnforce
        <5>4. QED BY <3>3, <5>2, <5>3
      <4>3. QED BY <4>1, <4>2
    <3>10. EqualityFirst' => EqualityInside(range)'
      <4> SUFFICES ASSUME EqualityFirst' PROVE EqualityInside(range')
        BY DEF EqualityInside, InBounds, AboveLower, BelowUpper
      <4>1. CASE p.op = "EQ"
        BY <3>1, <3>2, <3>8, <4>1, LiteralsAssumption
        DEF EqualityInside, Tighten, TightenEquality, InBounds, AboveLower, BelowUpper, Predicate
      <4>2. CASE p.op # "EQ"
        BY <3>1, <3>2, <3>7, <4>2, TightenEqualityInside DEF IInv
      <4>3. QED BY <4>1, <4>2
    <3>11. QED BY <3>4, <3>6, <3>9, <3>10 DEF IInv
  <2>2. ASSUME NEW c \in Paths, Choose(c) PROVE IInv'
    BY <2>2 DEF IInv, Choose, TypeOK, BoundsCover, BoundsEnforce, EqualityFirst, Wanted
  <2>3. CASE UNCHANGED vars
    BY <2>3 DEF IInv, vars, TypeOK, BoundsCover, BoundsEnforce, EqualityFirst, Wanted
  <2>4. QED BY <2>1, <2>2, <2>3 DEF Next
<1>3. QED BY <1>1, <1>2, PTL DEF Spec

(* The range the planner folds is always a KeyRange, and it only ever chooses
   among the paths that range offers: TypeOK, for every set of literals.     *)
THEOREM TypeCorrect == Spec => []TypeOK
<1>1. IInv => TypeOK
  BY DEF IInv
<1>2. QED BY <1>1, InductiveInvariant, PTL

(* A path that is not a SeqScan is offered by a range that is not empty. *)
LEMMA PathOffered ==
  ASSUME TypeOK, path # Unplanned
  PROVE  /\ path \in Paths
         /\ path \in {"IndexScan", "SequentialSearch"} => range.has_equality /\ ~range.empty
         /\ path \in {"IndexRangeScan", "SequentialRangeScan"} => ~range.has_equality
<1>1. path \in Candidates(range)
  BY DEF TypeOK
<1>2. QED BY <1>1 DEF TypeOK, Candidates, IsEquality, Paths

(* Planning never loses a row that satisfies the WHERE clause, whichever of
   the candidate paths wins: NoRowLost, for every set of literals and values. *)
THEOREM NoRowIsLost == Spec => []NoRowLost
<1>1. IInv => NoRowLost
  <2> SUFFICES ASSUME IInv, path # Unplanned, NEW v \in ColumnValues, Wanted(v)
               PROVE  Returned(v)
    BY DEF NoRowLost
  <2>1. \A i \in DOMAIN conjuncts : Satisfies(v, conjuncts[i])
    BY DEF Wanted
  <2>2. v \in Int
    BY ValuesAssumption
  <2>3. range \in KeyRange /\ None \notin Int
    BY NoneAssumption DEF IInv, TypeOK
  <2>4. InBounds(range, v) /\ (range.has_equality => v = range.equality)
    BY DEF IInv, BoundsCover
  <2>5. Yields(path, range, v)
    <3>1. CASE path = "SeqScan"
      BY <3>1 DEF Yields
    <3>2. CASE path \in {"IndexScan", "SequentialSearch"}
      BY <2>4, <3>2, PathOffered DEF Yields, IInv
    <3>3. CASE path = "IndexRangeScan"
      BY <2>4, <3>3 DEF Yields, InBounds
    <3>4. CASE path = "SequentialRangeScan"
      <4>1. /\ range.lower = None \/ range.lower \in Int
            /\ range.upper = None \/ range.upper \in Int
        BY <2>3, LiteralsAssumption DEF KeyRange
      <4>2. (range.lower = None \/ v >= range.lower) /\ (range.upper = None \/ v <= range.upper)
        BY <2>2, <2>4, <4>1 DEF InBounds, AboveLower, BelowUpper
      <4>3. QED BY <3>4, <4>2 DEF Yields
    <3>5. QED BY <3>1, <3>2, <3>3, <3>4, PathOffered DEF IInv, Paths
  <2>6. QED BY <2>1, <2>5 DEF Returned
<1>2. QED BY <1>1, InductiveInvariant, PTL

(* Unless an equality follows another conjunct on the column, or a strict bound
   is left to a sequential range, a path returns only rows the clause wants:
   ExactWhenEqualityFirst, for every set of literals and column values.       *)
THEOREM PathsAreExact == Spec => []ExactWhenEqualityFirst
<1>1. IInv => ExactWhenEqualityFirst
  <2> SUFFICES ASSUME IInv, path # Unplanned, EqualityFirst,
                      path = "SequentialRangeScan" => InclusiveBounds,
                      NEW v \in ColumnValues, Returned(v),
                      NEW i \in DOMAIN conjuncts
               PROVE  Satisfies(v, conjuncts[i])
    BY DEF ExactWhenEqualityFirst, Wanted
  <2>1. v \in Int
    BY ValuesAssumption
  <2>2. range \in KeyRange /\ None \notin Int
    BY NoneAssumption DEF IInv, TypeOK
  <2>3. Yields(path, range, v)
    BY DEF Returned
  <2>4. CASE ~Consumed(path, conjuncts[i])
    BY <2>4 DEF Returned
  <2>5. CASE Consumed(path, conjuncts[i])
    <3>1. IsSargable(conjuncts[i]) /\ path # "SeqScan"
      BY <2>5 DEF Consumed, IsSargable
    <3>2. InBounds(range, v)
      <4>1. CASE path \in {"IndexScan", "SequentialSearch"}
        <5>1. range.has_equality /\ ~range.empty
          BY <4>1, PathOffered DEF IInv
        <5>2. v = range.equality
          BY <2>3, <4>1 DEF Yields
        <5>3. QED BY <5>1, <5>2 DEF IInv, EqualityInside
      <4>2. CASE path = "IndexRangeScan"
        BY <2>3, <4>2 DEF Yields, InBounds
      <4>3. CASE path = "SequentialRangeScan"
        <5>1. InclusiveBounds
          BY <4>3
        <5>2. (range.lower = None \/ v >= range.lower) /\ (range.upper = None \/ v <= range.upper)
          BY <2>3, <4>3 DEF Yields
        <5>3. /\ range.lower = None \/ range.lower \in Int
              /\ range.upper = None \/ range.upper \in Int
          BY <2>2, LiteralsAssumption DEF KeyRange
        <5>4. QED BY <2>1, <2>2, <5>1, <5>2, <5>3
                  DEF InBounds, AboveLower, BelowUpper, InclusiveBounds
      <4>4. QED BY <3>1, <4>1, <4>2, <4>3, PathOffered DEF IInv, Paths
    <3>3. QED BY <2>1, <3>1, <3>2 DEF IInv, BoundsEnforce
  <2>6. QED BY <2>4, <2>5
<1>2. QED BY <1>1, InductiveInvariant, PTL

-----------------------------------------------------------------------------
(* Statements on a HEAP and on a SEQUENTIAL table.                         *)

(* The assumptions of the engine hold of both kinds. *)
LEMMA HeapAssumptions ==
  /\ Heap!KeysAssumption /\ Heap!HoleAssumption /\ Heap!CapacityAssumption
  /\ Heap!OrderedAssumption /\ Heap!BoundsAssumption
BY RowsAssumption, HeapBoundsAssumption
   DEF Heap!KeysAssumption, Heap!HoleAssumption, Heap!CapacityAssumption,
       Heap!OrderedAssumption, Heap!BoundsAssumption

(* ... and of a SEQUENTIAL table. *)
LEMMA SequentialAssumptions ==
  /\ Sequential!KeysAssumption /\ Sequential!HoleAssumption /\ Sequential!CapacityAssumption
  /\ Sequential!OrderedAssumption /\ Sequential!BoundsAssumption
BY RowsAssumption, SequentialBoundsAssumption
   DEF Sequential!KeysAssumption, Sequential!HoleAssumption, Sequential!CapacityAssumption,
       Sequential!OrderedAssumption, Sequential!BoundsAssumption

(* A behaviour is one of the engine on one kind of table. *)
HeapBehaviour       == Heap!EngineSpec /\ [](ordered = FALSE)
SequentialBehaviour == Sequential!EngineSpec /\ [](ordered = TRUE)

(* The kind of a table is chosen once. *)
LEMMA OneKindOfTable == EnginesSpec => HeapBehaviour \/ SequentialBehaviour
<1>1. EnginesInit => ordered \in {TRUE, FALSE} /\ Heap!EngineInit
  BY DEF EnginesInit
<1>2. Heap!EngineInit => Sequential!EngineInit
  BY DEF Heap!EngineInit, Heap!Init, Heap!NoTail, Heap!Kinds, Heap!Ok,
         Sequential!EngineInit, Sequential!Init, Sequential!NoTail, Sequential!Kinds, Sequential!Ok
<1>3. ordered = FALSE /\ [EnginesNext]_enginesVars => (ordered = FALSE)' /\ [Heap!EngineNext]_(Heap!engineVars)
  BY DEF EnginesNext, enginesVars, Heap!engineVars
<1>4. ordered = TRUE /\ [EnginesNext]_enginesVars =>
        (ordered = TRUE)' /\ [Sequential!EngineNext]_(Sequential!engineVars)
  BY DEF EnginesNext, enginesVars, Sequential!engineVars
<1>5. ordered \in {TRUE, FALSE} => ordered = TRUE \/ ordered = FALSE
  OBVIOUS
<1> QED  BY <1>1, <1>2, <1>3, <1>4, <1>5, PTL
         DEF EnginesSpec, HeapBehaviour, SequentialBehaviour, Heap!EngineSpec, Sequential!EngineSpec

(* Only a table of the catalog is open, and no key of a tree has two entries,
   on either kind of table.                                                *)
THEOREM EveryKindTypeCorrect == EnginesSpec => []EngineTypeOK
<1>1. HeapBehaviour => []Heap!EngineTypeOK
  BY HeapAssumptions, Heap!EngineTypeCorrect, PTL DEF HeapBehaviour
<1>2. SequentialBehaviour => []Sequential!EngineTypeOK
  BY SequentialAssumptions, Sequential!EngineTypeCorrect, PTL DEF SequentialBehaviour
<1>3. /\ ordered = FALSE /\ Heap!EngineTypeOK => EngineTypeOK
      /\ ordered = TRUE /\ Sequential!EngineTypeOK => EngineTypeOK
  BY DEF EngineTypeOK
<1> QED  BY <1>1, <1>2, <1>3, OneKindOfTable, PTL DEF HeapBehaviour, SequentialBehaviour

(* On a HEAP table an open hash never leads to a row with another key, not
   after a statement an index ended half way and not after a crash.        *)
THEOREM NoHashMisleads == EnginesSpec => []HashNeverMisleads
<1>1. HeapBehaviour => []Heap!HashNeverMisleads
  BY HeapAssumptions, Heap!HashesNeverMislead, PTL DEF HeapBehaviour
<1>2. /\ Heap!HashNeverMisleads => HashNeverMisleads
      /\ ordered = TRUE => HashNeverMisleads
  BY DEF HashNeverMisleads
<1> QED  BY <1>1, <1>2, OneKindOfTable, PTL DEF HeapBehaviour, SequentialBehaviour

(* What a statement that succeeded did, and what an earlier one that failed
   left in memory, is on disk, on either kind of table.                    *)
THEOREM EverySuccessIsDurable == EnginesSpec => []DurableAfterSuccess
<1>1. HeapBehaviour => []Heap!DurableAfterSuccess
  BY HeapAssumptions, Heap!SuccessIsDurable, PTL DEF HeapBehaviour
<1>2. SequentialBehaviour => []Sequential!DurableAfterSuccess
  BY SequentialAssumptions, Sequential!SuccessIsDurable, PTL DEF SequentialBehaviour
<1>3. /\ ordered = FALSE /\ Heap!DurableAfterSuccess => DurableAfterSuccess
      /\ ordered = TRUE /\ Sequential!DurableAfterSuccess => DurableAfterSuccess
  BY DEF DurableAfterSuccess
<1> QED  BY <1>1, <1>2, <1>3, OneKindOfTable, PTL DEF HeapBehaviour, SequentialBehaviour

(* An open index with exactly the rows of its table keeps having them, but for
   a statement that fails and a reorganization, on either kind of table.   *)
THEOREM EveryIndexKept == EnginesSpec => IndexKept
<1>1. HeapBehaviour => Heap!IndexKept
  BY HeapAssumptions, Heap!IndexesStayExact, PTL DEF HeapBehaviour
<1>2. SequentialBehaviour => Sequential!IndexKept
  BY SequentialAssumptions, Sequential!IndexesStayExact, PTL DEF SequentialBehaviour
<1>3. ordered = FALSE /\ (ordered = FALSE)' /\ [Heap!IndexFollows]_(Heap!engineVars) =>
        [IF ordered THEN Sequential!IndexFollows ELSE Heap!IndexFollows]_enginesVars
  BY DEF enginesVars, Heap!engineVars
<1>4. ordered = TRUE /\ (ordered = TRUE)' /\ [Sequential!IndexFollows]_(Sequential!engineVars) =>
        [IF ordered THEN Sequential!IndexFollows ELSE Heap!IndexFollows]_enginesVars
  BY DEF enginesVars, Sequential!engineVars
<1> QED  BY <1>1, <1>2, <1>3, <1>4, OneKindOfTable, PTL
         DEF HeapBehaviour, SequentialBehaviour, IndexKept, Heap!IndexKept, Sequential!IndexKept
=============================================================================
