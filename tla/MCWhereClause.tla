--------------------------- MODULE MCWhereClause ---------------------------
(***************************************************************************)
(* Two questions in one state space: a behaviour either folds the          *)
(* conjuncts of one column in every order and picks a path (AccessPath),   *)
(* or receives one statement and plans it (WhereClause).                   *)
(***************************************************************************)
EXTENDS WhereClause

CONSTANTS
  a, b   \* the columns

(* Every simple predicate over one value, in both orders, and with NULL. *)
Simple ==
  {Compare(ColumnRef(c), op, Literal(1)) : c \in Columns, op \in Operators}
    \cup {Compare(Literal(1), op, ColumnRef(c)) : c \in Columns, op \in Operators}
    \cup {Compare(ColumnRef(a), op, ColumnRef(b)) : op \in Operators}
    \cup {Compare(ColumnRef(a), op, Literal(None)) : op \in Operators}
    \cup {Between(ColumnRef(c), lo, hi, neg) :
            c \in Columns, lo \in {Literal(1), Literal(None), ColumnRef(b)},
            hi \in {Literal(2), Literal(1), Literal(None)}, neg \in BOOLEAN}
    \cup {IsNull(ColumnRef(c), neg) : c \in Columns, neg \in BOOLEAN}
    \cup {Compare(Literal(1), "EQ", Literal(1)), IsNull(Literal(1), FALSE)}

(* A few of them, for the deeper trees. *)
Few ==
  {Compare(ColumnRef(a), "EQ", Literal(1)), Compare(Literal(1), "LT", ColumnRef(a)),
   Between(ColumnRef(a), Literal(1), Literal(2), FALSE), IsNull(ColumnRef(a), FALSE),
   Compare(ColumnRef(b), "GE", Literal(1)), Compare(ColumnRef(a), "NE", ColumnRef(b))}

Connected(left, right) == {Logical(op, l, r) : op \in {"AND", "OR"}, l \in left, r \in right}
Negated(trees) == {Not(e) : e \in trees}

OnePair == Few \cup Negated(Few) \cup Connected(Few, Few)
MCClauses ==
  {NoWhere} \cup Simple \cup Negated(Simple) \cup Negated(OnePair)
    \cup Connected(OnePair, OnePair)
    \cup Connected(Simple, {Compare(ColumnRef(b), "GE", Literal(1))})

MCInit == Init /\ WhereInit
MCNext ==
  \/ text = NoStatement /\ Next /\ UNCHANGED whereVars
  \/ conjuncts = <<>> /\ path = Unplanned /\ WhereNext /\ UNCHANGED vars

MCSpec == MCInit /\ [][MCNext]_<<vars, whereVars>>

=============================================================================
