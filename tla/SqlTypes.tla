------------------------------ MODULE SqlTypes ------------------------------
(***************************************************************************)
(* The static types of ty.rs, and the typing of the arithmetic operators   *)
(* of infer.rs: everything about types that needs no recursion.  Lists of  *)
(* lists and whole expressions are in Expressions.                         *)
(***************************************************************************)
EXTENDS Integers

CONSTANT
  MaxPrecision,  \* digits of a DECIMAL, 38
  IntHeadroom,   \* digits a DECIMAL is widened to when an integer joins it, 20
  AvgScale       \* least scale of an AVG over DECIMAL, 4

Scalar(k) == [k |-> k]
DecimalT(p, sc) == [k |-> "Decimal", p |-> p, sc |-> sc]
TimestampT(unit) == [k |-> "Timestamp", unit |-> unit]
TimeT(unit) == [k |-> "Time", unit |-> unit]
ListT(elem) == [k |-> "List", elem |-> elem]

NullT == Scalar("Null")
BooleanT == Scalar("Boolean")
IntervalT == Scalar("Interval")

\* A type that does not exist: unify's None, or a bind error.
NoType == Scalar("NoType")

IsNumeric(t) == t.k \in {"Int64", "UInt64", "HugeInt", "Double", "Decimal"}
IsTemporal(t) == t.k \in {"Date", "Timestamp", "Time"}
NumericOrNull(t) == IsNumeric(t) \/ t = NullT

Larger(x, y) == IF x >= y THEN x ELSE y

\* numeric_rank; UInt64 has none.
Rank == [Int64 |-> 0, HugeInt |-> 1, Double |-> 2]

Integers64 == {"Int64", "UInt64", "HugeInt"}

\* The joins of two different types, in the order of unify's arms.
WiderDecimal(s, t) == DecimalT(Larger(s.p, t.p), Larger(s.sc, t.sc))
WithHeadroom(s) == DecimalT(Larger(s.p, IntHeadroom), s.sc)
Higher(s, t) == IF Rank[s.k] >= Rank[t.k] THEN s ELSE t

UnsignedJoin(o) ==
  IF o.k \in {"Int64", "HugeInt"} THEN Scalar("HugeInt")
  ELSE IF o.k = "Double" THEN o
  ELSE NoType

Ranked(s, t) == IF s.k \in DOMAIN Rank /\ t.k \in DOMAIN Rank THEN Higher(s, t) ELSE NoType

\* Mutant: UBIGINT shares the rank of BIGINT, and its joins are left to the ranks.
JoinRanked(s, t) ==
  LET rank == [UInt64 |-> 0, Int64 |-> 0, HugeInt |-> 1, Double |-> 2]
  IN IF s = NullT THEN t
     ELSE IF t = NullT \/ s = t THEN s
     ELSE IF s.k = "Decimal" /\ t.k = "Decimal" THEN WiderDecimal(s, t)
     ELSE IF s.k = "Decimal" /\ t.k \in Integers64 THEN WithHeadroom(s)
     ELSE IF t.k = "Decimal" /\ s.k \in Integers64 THEN WithHeadroom(t)
     ELSE IF {s.k, t.k} = {"Decimal", "Double"} THEN Scalar("Double")
     ELSE IF {s.k, t.k} \subseteq DOMAIN rank THEN IF rank[s.k] >= rank[t.k] THEN s ELSE t
     ELSE NoType

(***************************************************************************)
(* Ty::unify, for types that are not both lists.                           *)
(***************************************************************************)
Join(s, t) ==
  IF s = NullT THEN t
  ELSE IF t = NullT \/ s = t THEN s
  ELSE IF s.k = "Decimal" /\ t.k = "Decimal" THEN WiderDecimal(s, t)
  ELSE IF s.k = "Decimal" /\ t.k = "Double" THEN t
  ELSE IF s.k = "Double" /\ t.k = "Decimal" THEN s
  ELSE IF s.k = "Decimal" /\ t.k \in Integers64 THEN WithHeadroom(s)
  ELSE IF t.k = "Decimal" /\ s.k \in Integers64 THEN WithHeadroom(t)
  ELSE IF s.k = "UInt64" THEN UnsignedJoin(t)
  ELSE IF t.k = "UInt64" THEN UnsignedJoin(s)
  ELSE Ranked(s, t)

SumTy(t) ==
  CASE t.k \in {"Int64", "UInt64", "HugeInt"} -> Scalar("HugeInt")
    [] t.k = "Double" -> t
    [] t.k = "Decimal" -> DecimalT(MaxPrecision, t.sc)
    [] OTHER -> NoType

AvgTy(t) ==
  CASE t.k \in {"Int64", "UInt64", "HugeInt", "Double"} -> Scalar("Double")
    [] t.k = "Decimal" -> DecimalT(MaxPrecision, Larger(t.sc, AvgScale))
    [] OTHER -> NoType

NumericPromote(l, r) == IF NumericOrNull(l) /\ NumericOrNull(r) THEN Join(l, r) ELSE NoType

ArithAdd(l, r) ==
  CASE IsTemporal(l) /\ r = IntervalT -> l
    [] IsTemporal(r) /\ l = IntervalT -> r
    [] l = IntervalT /\ r = IntervalT -> IntervalT
    [] OTHER -> NumericPromote(l, r)

ArithSub(l, r) ==
  CASE IsTemporal(l) /\ r = IntervalT -> l
    [] IsTemporal(l) /\ l = r -> IntervalT
    [] l = IntervalT /\ r = IntervalT -> IntervalT
    [] OTHER -> NumericPromote(l, r)

ArithDiv(l, r) ==
  CASE l.k = "Decimal" /\ r.k = "Decimal" -> DecimalT(Larger(l.p, r.p), Larger(l.sc, r.sc))
    [] NumericOrNull(l) /\ NumericOrNull(r) /\ ~(l.k = "Decimal" /\ r.k = "Decimal") -> Scalar("Double")
    [] OTHER -> NoType

Comparable(l, r) == NullT \in {l, r} \/ (IsNumeric(l) /\ IsNumeric(r)) \/ l = r

\* infer_binary, of the types of the operands
BinaryTy(op, l, r) ==
  CASE op \in {"And", "Or"} -> IF {l, r} \subseteq {BooleanT, NullT} THEN BooleanT ELSE NoType
    [] op \in {"Eq", "Ne", "Lt", "Le", "Gt", "Ge"} -> IF Comparable(l, r) THEN BooleanT ELSE NoType
    [] op = "Concat" -> Scalar("Varchar")
    [] op = "Add" -> ArithAdd(l, r)
    [] op = "Sub" -> ArithSub(l, r)
    [] op \in {"Mul", "Mod"} -> NumericPromote(l, r)
    [] op = "Div" -> ArithDiv(l, r)

\* Mutant: a negated UBIGINT stays one.
NegTySame(t) == IF NumericOrNull(t) THEN t ELSE NoType

\* Negating an unsigned value leaves the unsigned range.
NegTy(t) == IF t.k = "UInt64" THEN Scalar("HugeInt") ELSE IF NumericOrNull(t) THEN t ELSE NoType
=============================================================================
