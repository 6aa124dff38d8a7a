----------------------------- MODULE WhereClause -----------------------------
(***************************************************************************)
(* A WHERE clause from its text to the rows it lets through: the parser    *)
(* (sql/parser.py) reads the tokens into a tree, the binder refuses what   *)
(* compares no column (planner/binder.py), split_conjuncts and as_sargable *)
(* (planner/predicates.py) take the tree apart, the planner gives one      *)
(* column an access path and keeps a Filter above it (planner/planner.py), *)
(* and the Filter evaluates it in three-valued logic                       *)
(* (execution/expressions.py).  The folding of one column's conjuncts into *)
(* a KeyRange and the rows of a path are those of AccessPath.              *)
(*                                                                         *)
(* Tokens are records, as the lexer leaves them; the columns all hold      *)
(* integers or NULL, which Python's None stands for.                       *)
(***************************************************************************)
EXTENDS AccessPath

LOCAL INSTANCE SequencesExt

CONSTANTS
  Columns,      \* the columns of the table
  Clauses,      \* trees whose text a client may send
  MaxDamaged    \* bound: tokens of a text that may also arrive damaged

VARIABLES
  text,      \* the tokens of the statement from WHERE on, or no statement
  written,   \* the tree the client had in mind, or Damaged
  where,     \* what the parser and the binder make of the text
  plan       \* the path, the range of its column and the Filter above it, or NoPlan

whereVars == <<text, written, where, plan>>

-----------------------------------------------------------------------------
(* The tree (sql/ast.py).                                                  *)

ColumnRef(c)             == [kind |-> "ColumnRef", name |-> c]
Literal(v)               == [kind |-> "Literal", value |-> v]
Compare(l, op, r)        == [kind |-> "Compare", left |-> l, operator |-> op, right |-> r]
Logical(op, l, r)        == [kind |-> "Logical", left |-> l, operator |-> op, right |-> r]
Not(e)                   == [kind |-> "Not", operand |-> e]
Between(e, lo, hi, neg)  == [kind |-> "Between", operand |-> e, lower |-> lo, upper |-> hi,
                             negated |-> neg]
IsNull(e, neg)           == [kind |-> "IsNull", operand |-> e, negated |-> neg]

NoWhere == [kind |-> "NoWhere"]   \* the statement has no WHERE clause
Error   == [kind |-> "Error"]     \* SQLSyntaxError, or CatalogError of the binder
Damaged == [kind |-> "Damaged"]   \* no tree: the text was damaged on the way

IsColumn(e)  == e.kind = "ColumnRef"
IsLiteral(e) == e.kind = "Literal"

(* Comparison.flipped: the operator that holds with the operands swapped. *)
Flipped(op) ==
  CASE op = "LT" -> "GT" [] op = "LE" -> "GE" [] op = "GT" -> "LT" [] op = "GE" -> "LE"
    [] OTHER -> op

-----------------------------------------------------------------------------
(* The parser: recursive descent over the tokens, which end in EOF.  A step *)
(* returns the node it read and the tokens left; after an error no token   *)
(* matches anything any more.                                              *)

Token(t, v)    == [type |-> t, value |-> v]
Keyword(w)     == Token("KEYWORD", w)
Parenthesis(s) == Token("PUNCTUATION", s)
Number(n)      == [type |-> "NUMBER", number |-> n]

Is(ts, t, v) == Head(ts).type = t /\ Head(ts).value = v
IsKeyword(ts, w) == Is(ts, "KEYWORD", w)

Result(node, rest) == [node |-> node, rest |-> rest]
Raised == Result(Error, <<Token("ERROR", "")>>)

Operand(ts) ==
  CASE Head(ts).type = "IDENTIFIER" -> Result(ColumnRef(Head(ts).value), Tail(ts))
    [] Head(ts).type = "NUMBER"     -> Result(Literal(Head(ts).number), Tail(ts))
    [] IsKeyword(ts, "NULL")        -> Result(Literal(None), Tail(ts))
    [] OTHER                        -> Raised

(* IS [NOT] NULL, [NOT] BETWEEN operand AND operand, or a comparison, after
   their left operand.                                                     *)
NullTest(left) ==
  LET negated == IsKeyword(Tail(left.rest), "NOT")
      after   == IF negated THEN Tail(Tail(left.rest)) ELSE Tail(left.rest)
  IN IF IsKeyword(after, "NULL") THEN Result(IsNull(left.node, negated), Tail(after)) ELSE Raised

BetweenTest(left, negated, ts) ==
  LET lower == Operand(ts)
      upper == Operand(Tail(lower.rest))
  IN IF IsKeyword(lower.rest, "AND")
       THEN Result(Between(left.node, lower.node, upper.node, negated), upper.rest)
       ELSE Raised

Test(left) ==
  LET ts == left.rest
  IN CASE IsKeyword(ts, "IS") -> NullTest(left)
       [] IsKeyword(ts, "BETWEEN") -> BetweenTest(left, FALSE, Tail(ts))
       [] IsKeyword(ts, "NOT") /\ IsKeyword(Tail(ts), "BETWEEN") ->
            BetweenTest(left, TRUE, Tail(Tail(ts)))
       [] Head(ts).type = "OPERATOR" ->
            LET right == Operand(Tail(ts))
            IN Result(Compare(left.node, Head(ts).value, right.node), right.rest)
       [] OTHER -> Raised

RECURSIVE Disjunction(_), Negation(_), OrChain(_), AndChain(_)

Parenthesized(ts) ==
  LET inner == Disjunction(ts)
  IN IF Is(inner.rest, "PUNCTUATION", ")") THEN Result(inner.node, Tail(inner.rest)) ELSE Raised

Negation(ts) ==
  CASE IsKeyword(ts, "NOT") ->
         LET operand == Negation(Tail(ts)) IN Result(Not(operand.node), operand.rest)
    [] Is(ts, "PUNCTUATION", "(") -> Parenthesized(Tail(ts))
    [] OTHER -> Test(Operand(ts))

AndChain(left) ==
  IF ~IsKeyword(left.rest, "AND") THEN left
  ELSE LET right == Negation(Tail(left.rest))
       IN AndChain(Result(Logical("AND", left.node, right.node), right.rest))
Conjunction(ts) == AndChain(Negation(ts))

OrChain(left) ==
  IF ~IsKeyword(left.rest, "OR") THEN left
  ELSE LET right == Conjunction(Tail(left.rest))
       IN OrChain(Result(Logical("OR", left.node, right.node), right.rest))
Disjunction(ts) == OrChain(Conjunction(ts))

(* Mutant of Parse: what follows the clause is not looked at. *)
ParseWhatFits(ts) ==
  IF IsKeyword(ts, "WHERE") THEN Disjunction(Tail(ts)).node ELSE NoWhere

Parse(ts) ==
  LET read == IF IsKeyword(ts, "WHERE") THEN Disjunction(Tail(ts)) ELSE Result(NoWhere, ts)
  IN IF Head(read.rest).type = "EOF" THEN read.node ELSE Error

-----------------------------------------------------------------------------
(* The binder: a comparison has a column on some side, BETWEEN and IS NULL *)
(* have one on the left.                                                   *)

RECURSIVE Binds(_)
Binds(e) ==
  CASE e.kind = "Logical" -> Binds(e.left) /\ Binds(e.right)
    [] e.kind = "Not" -> Binds(e.operand)
    [] e.kind = "Compare" -> IsColumn(e.left) \/ IsColumn(e.right)
    [] e.kind \in {"Between", "IsNull"} -> IsColumn(e.operand)
    [] OTHER -> e = NoWhere

(* The statement the planner works on: the tree, or an error. *)
Bound(ts) == LET e == Parse(ts) IN IF e # Error /\ Binds(e) THEN e ELSE Error

-----------------------------------------------------------------------------
(* Evaluation for one row, a function from the columns: TRUE, FALSE, or    *)
(* None for UNKNOWN.                                                       *)

ValueIn(e, row) == IF IsColumn(e) THEN row[e.name] ELSE e.value

Conjoined(l, r) ==
  IF l = FALSE \/ r = FALSE THEN FALSE ELSE IF l = None \/ r = None THEN None ELSE TRUE
Disjoined(l, r) ==
  IF l = TRUE \/ r = TRUE THEN TRUE ELSE IF l = None \/ r = None THEN None ELSE FALSE
Denied(v) == IF v = None THEN None ELSE ~v

RECURSIVE Evaluate(_, _)
Evaluate(e, row) ==
  CASE e.kind = "Logical" ->
         LET l == Evaluate(e.left, row)
             r == Evaluate(e.right, row)
         IN IF e.operator = "AND" THEN Conjoined(l, r) ELSE Disjoined(l, r)
    [] e.kind = "Not" -> Denied(Evaluate(e.operand, row))
    [] e.kind = "Compare" ->
         LET l == ValueIn(e.left, row)
             r == ValueIn(e.right, row)
         IN IF None \in {l, r} THEN None ELSE Satisfies(l, [op |-> e.operator, value |-> r])
    [] e.kind = "Between" ->
         LET v == ValueIn(e.operand, row)
             low == ValueIn(e.lower, row)
             high == ValueIn(e.upper, row)
         IN IF None \in {v, low, high} THEN None ELSE (low <= v /\ v <= high) # e.negated
    [] e.kind = "IsNull" -> (ValueIn(e.operand, row) = None) # e.negated

Matches(e, row) == e = NoWhere \/ Evaluate(e, row) = TRUE

-----------------------------------------------------------------------------
(* What the planner takes from the tree.                                   *)

(* Mutant of Opposite: the strict and the inclusive bound do not change over. *)
OppositeDirection(op) ==
  CASE op = "EQ" -> "NE" [] op = "NE" -> "EQ"
    [] op = "LT" -> "GT" [] op = "LE" -> "GE" [] op = "GT" -> "LT" [] op = "GE" -> "LE"

Opposite(op) ==
  CASE op = "EQ" -> "NE" [] op = "NE" -> "EQ"
    [] op = "LT" -> "GE" [] op = "LE" -> "GT" [] op = "GT" -> "LE" [] op = "GE" -> "LT"

RECURSIVE Split(_)
Split(e) ==
  CASE e = NoWhere -> <<>>
    [] e.kind = "Logical" /\ e.operator = "AND" -> Split(e.left) \o Split(e.right)
    [] e.kind = "Between" /\ ~e.negated ->
         <<Compare(e.operand, "GE", e.lower), Compare(e.operand, "LE", e.upper)>>
    [] e.kind = "Not" /\ e.operand.kind = "Compare" ->
         <<Compare(e.operand.left, Opposite(e.operand.operator), e.operand.right)>>
    [] OTHER -> <<e>>

(* as_sargable: the column, and the predicate AccessPath folds. *)
Reading(e) ==
  IF IsColumn(e.left)
    THEN [column |-> e.left.name,  predicate |-> [op |-> e.operator, value |-> e.right.value]]
    ELSE [column |-> e.right.name,
          predicate |-> [op |-> Flipped(e.operator), value |-> e.left.value]]

Sargable(e) ==
  /\ e.kind = "Compare"
  /\ IsLiteral(e.left) \/ IsLiteral(e.right)
  /\ Reading(e).predicate.value # None
  /\ e.operator # "NE"

(* Mutant of ConjunctsFor: whatever is sargable counts, on any column. *)
SargableConjuncts(cs, c) == SelectSeq(cs, Sargable)

ConjunctsFor(cs, c) ==
  LET OnColumn(e) == Sargable(e) /\ Reading(e).column = c IN SelectSeq(cs, OnColumn)

RangeOf(cs, c) ==
  LET Narrow(r, e) == Tighten(r, Reading(e).predicate)
  IN FoldLeft(Narrow, NewRange, ConjunctsFor(cs, c))

(* The Filter above the path: what the path on column c does not consume. *)
Residual(e, c, p) ==
  LET cs == Split(e)
      consumed == IF p = "SeqScan" THEN {} ELSE ToSet(ConjunctsFor(cs, c))
      Kept(x) == x \notin consumed
  IN SelectSeq(cs, Kept)

Rebuilt(cs) ==
  LET And(l, r) == Logical("AND", l, r)
  IN IF cs = <<>> THEN NoWhere ELSE FoldLeft(And, Head(cs), Tail(cs))

(* A column with an index, or the key of an ordered table, holds no NULL. *)
Reaches(row) ==
  LET v == row[plan.column]
  IN plan.path = "SeqScan" \/ (v # None /\ Yields(plan.path, plan.range, v))

Emits(row) == Reaches(row) /\ Matches(plan.filter, row)

-----------------------------------------------------------------------------
(* The text of a tree, with the parentheses its precedence calls for.      *)

OperandTokens(e) ==
  IF IsColumn(e) THEN <<Token("IDENTIFIER", e.name)>>
  ELSE IF e.value = None THEN <<Keyword("NULL")>> ELSE <<Number(e.value)>>
NotTokens(negated) == IF negated THEN <<Keyword("NOT")>> ELSE <<>>

(* How tightly a tree binds, and how tightly an operand must. *)
Strength(e) == IF e.kind # "Logical" THEN 3 ELSE IF e.operator = "AND" THEN 2 ELSE 1

RECURSIVE Tokens(_, _)
Tokens(e, least) ==
  IF Strength(e) < least
    THEN <<Parenthesis("(")>> \o Tokens(e, 1) \o <<Parenthesis(")")>>
  ELSE CASE e.kind = "Logical" ->
              LET s == Strength(e)
              IN Tokens(e.left, s) \o <<Keyword(e.operator)>> \o Tokens(e.right, s + 1)
         [] e.kind = "Not" -> <<Keyword("NOT")>> \o Tokens(e.operand, 3)
         [] e.kind = "Compare" ->
              OperandTokens(e.left) \o <<Token("OPERATOR", e.operator)>> \o OperandTokens(e.right)
         [] e.kind = "Between" ->
              OperandTokens(e.operand) \o NotTokens(e.negated) \o <<Keyword("BETWEEN")>>
                \o OperandTokens(e.lower) \o <<Keyword("AND")>> \o OperandTokens(e.upper)
         [] e.kind = "IsNull" ->
              OperandTokens(e.operand) \o <<Keyword("IS")>> \o NotTokens(e.negated)
                \o <<Keyword("NULL")>>

TextOf(e) ==
  (IF e = NoWhere THEN <<>> ELSE <<Keyword("WHERE")>> \o Tokens(e, 1)) \o <<Token("EOF", "")>>

(* The text with one of its tokens lost, or sent twice. *)
DamagedTexts(ts) ==
  {RemoveAt(ts, i) : i \in 1..(Len(ts) - 1)}
    \cup {InsertAt(ts, i, ts[i]) : i \in 1..(Len(ts) - 1)}

-----------------------------------------------------------------------------
NoStatement == <<>>
NoPlan == [column |-> None, path |-> Unplanned, range |-> NewRange, filter |-> NoWhere]

WhereInit ==
  /\ text = NoStatement
  /\ written = Damaged
  /\ where = NoWhere
  /\ plan = NoPlan

Receive(ts, e) ==
  /\ text' = ts
  /\ written' = e
  /\ where' = Bound(ts)
  /\ UNCHANGED plan

(* _access_path: a full scan, or a path on some column. *)
Plan(c, p) ==
  /\ text # NoStatement
  /\ plan = NoPlan
  /\ where # Error
  /\ LET r == RangeOf(Split(where), c)
     IN /\ p \in Candidates(r)
        /\ plan' = [column |-> c, path |-> p, range |-> r,
                    filter |-> Rebuilt(Residual(where, c, p))]
  /\ UNCHANGED <<text, written, where>>

Statement ==
  \E e \in Clauses :
    LET ts == TextOf(e)
    IN \/ Receive(ts, e)
       \/ /\ Len(ts) <= MaxDamaged
          /\ \E damaged \in DamagedTexts(ts) : Receive(damaged, Damaged)

WhereNext ==
  \/ text = NoStatement /\ Statement
  \/ \E c \in Columns, p \in Paths : Plan(c, p)

-----------------------------------------------------------------------------
(* Properties.                                                             *)

Rows == [Columns -> ColumnValues \cup {None}]

(* The parser gives the client the tree its text stands for: AND before OR,
   both to the left, the AND of BETWEEN not taken for the connective, NOT on
   what follows it; the binder refuses what names no column.  When the text is
   damaged and still accepted, no token but a parenthesis is passed over.  *)
IsParenthesis(token) == token.type = "PUNCTUATION"
WithoutParentheses(ts) ==
  LET Stays(token) == ~IsParenthesis(token) IN SelectSeq(ts, Stays)
ReadAsWritten ==
  text # NoStatement =>
    IF written # Damaged THEN where = IF Binds(written) THEN written ELSE Error
    ELSE where # Error => WithoutParentheses(text) = WithoutParentheses(TextOf(where))

(* Whatever tree the clause is, whatever column and path the planner takes,
   a row for which the clause is TRUE comes out of the plan: splitting the
   tree, reading its conjuncts as bounds of a column and leaving the rest to
   the Filter loses none, with NULLs in the row and in the clause too.     *)
PlanKeepsRows ==
  plan # NoPlan => \A row \in Rows : Matches(where, row) => Emits(row)

(* The equality of a column comes before its other bounds. *)
EqualityLeads(c) ==
  LET on == ConjunctsFor(Split(where), c)
  IN \A i, j \in DOMAIN on : i < j => Reading(on[j]).predicate.op # "EQ"
StrictBounds(c) ==
  \E i \in DOMAIN Split(where) :
    LET e == Split(where)[i]
    IN Sargable(e) /\ Reading(e).column = c /\ Reading(e).predicate.op \in {"LT", "GT"}

(* Nor does a row come out for which the clause is FALSE or UNKNOWN, but for
   the two cases ConsumedIsEnforced of AccessPath fails in: an equality after
   another bound on the column, and a strict bound over an ordered table.  *)
PlanAddsNoRows ==
  plan # NoPlan /\ EqualityLeads(plan.column)
      /\ (plan.path = "SequentialRangeScan" => ~StrictBounds(plan.column)) =>
    \A row \in Rows : Emits(row) => Matches(where, row)

=============================================================================
