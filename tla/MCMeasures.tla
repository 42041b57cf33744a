----------------------------- MODULE MCMeasures -----------------------------
(***************************************************************************)
(* Measures over every column type on tapes of four rows, for matches of   *)
(* up to three rows, empty ones among them.  An i64 has four bits and a    *)
(* double three, so sums overflow and doubles round within a match.        *)
(***************************************************************************)
EXTENDS Measures

MCUnitNanos == [Second |-> 4, Nano |-> 1]

MCColTy == [x |-> Scalar("Int64"), u |-> Scalar("UInt64"), f |-> Scalar("Double"),
            d |-> DecimalT(3, 1), s |-> Scalar("Varchar"), t |-> TimestampT("Second")]

MCLabel == {"A", "B", "U"}
MCMembers == [l \in MCLabel |-> IF l = "U" THEN {"A", "B"} ELSE {}]

MCLetter == [A |-> 65, B |-> 66, U |-> 85]

RowOf(x, u, f, d, s, t) == [x |-> x, u |-> u, f |-> f, d |-> d, s |-> s, t |-> t]

R1 == RowOf(IntV(1), UIntV(3), DoubleV(3), DecimalV(5, 1), StrV(<<Digits(2)>>), TimestampV(1, "Second"))
R2 == RowOf(IntV(-2), UIntV(15), NaN, DecimalV(4, 1), StrV(<<Digits(2), 40>>), TimestampV(-1, "Second"))
R3 == RowOf(Null, Null, Null, Null, Null, Null)
R4 == RowOf(IntV(7), UIntV(0), DoubleV(9), DecimalV(-3, 1), StrV(<<40>>), TimestampV(7, "Second"))
R5 == RowOf(IntV(3), UIntV(1), NegZero, DecimalV(0, 1), StrV(<<>>), TimestampV(0, "Second"))

Tapes == {<<R1, R2, R3, R4>>, <<R5, R1, R4, R2>>, <<R3, R5, R5, R1>>, <<R4, R4, R1, R5>>}

Binds(from, vs) == [i \in DOMAIN vs |-> BindAt(from + i - 1, vs[i])]
MatchOf(n, start, binds) == [match_number |-> n, start |-> start, binds |-> binds]

MatchLists ==
  {<<MatchOf(1, 1, Binds(1, vs)), MatchOf(2, 4, <<>>), MatchOf(3, 4, Binds(4, w))>> :
      vs \in {<<"A", "B", "A">>, <<"B", "A", "A">>, <<"A", "B", "B">>, <<"B", "B", "B">>},
      w \in {<<"A">>}}

-----------------------------------------------------------------------------
Lit(v) == [e |-> "Lit", v |-> v]
Col(c) == [e |-> "Col", col |-> c]
Qual(v, c) == [e |-> "Qualified", var |-> v, col |-> c]
Cls(l) == [e |-> "Classifier", label |-> l]
Nav(kind, x, n) == [e |-> "Nav", kind |-> kind, arg |-> x, offset |-> n]
Agg(site, kind, x) == [e |-> "Agg", site |-> site, kind |-> kind, form |-> "Expr", arg |-> x]
CountOf(site, v) == [e |-> "Agg", site |-> site, kind |-> "Count", form |-> "QualStar", var |-> v]
CountStar == [e |-> "Agg", site |-> 99, kind |-> "Count", form |-> "Star"]
Fin(x) == [e |-> "RunningFinal", final |-> TRUE, arg |-> x]
Run(x) == [e |-> "RunningFinal", final |-> FALSE, arg |-> x]
Bin(op, l, r) == [e |-> "Binary", op |-> op, lhs |-> l, rhs |-> r]
Neg(x) == [e |-> "Neg", arg |-> x]
Not(x) == [e |-> "Not", arg |-> x]
IsNull(x, n) == [e |-> "IsNull", arg |-> x, negated |-> n]
Btw(x, lo, hi, n) == [e |-> "Between", arg |-> x, lo |-> lo, hi |-> hi, negated |-> n]
InE(x, list, n) == [e |-> "In", arg |-> x, list |-> list, negated |-> n]
CastTo(x, ty) == [e |-> "Cast", arg |-> x, ty |-> ty]
CallE(name, args) == [e |-> "Call", name |-> name, args |-> args]
MatchNo == [e |-> "MatchNumber"]

x == Col("x")
u == Col("u")
f == Col("f")
d == Col("d")
s == Col("s")
t == Col("t")
One == Lit(IntV(1))

Aggregates == {
  Agg(1, "Sum", Qual("A", "x")),
  Agg(1, "Sum", Bin("Add", Qual("A", "x"), Qual("B", "x"))),
  Agg(1, "Sum", Bin("Sub", x, Nav("Last", x, 0))),
  Agg(1, "Sum", Bin("Mul", u, x)),
  Agg(1, "Count", Qual("B", "f")),
  Agg(1, "Min", u),
  Agg(1, "Max", Neg(Qual("U", "d"))),
  Agg(1, "Min", f),
  Agg(1, "Avg", CallE("abs", <<d>>)),
  Agg(1, "ArrayAgg", Bin("Concat", s, Cls(NoLabel))),
  Agg(1, "ArrayAgg", Bin("Concat", Cls("A"), CastTo(Qual("A", "x"), Scalar("Varchar")))),
  Agg(1, "Arbitrary", s),
  Agg(1, "Count", IsNull(x, TRUE)),
  Agg(1, "Sum", Agg(2, "Sum", x)),
  CountOf(1, "U"),
  CountOf(1, "A")}

(* Reached only on some rows of a match. *)
Guarded == {
  Nav("Last", Bin("Add", Qual("A", "x"), Agg(1, "Sum", x)), 1),
  Nav("Prev", Nav("First", Agg(1, "Count", Qual("B", "x")), 1), 1),
  Nav("Next", Bin("Sub", x, Agg(1, "Sum", x)), 1),
  InE(x, <<One, Agg(1, "Sum", x), Nav("Last", Agg(2, "Max", Qual("B", "x")), 0)>>, FALSE),
  Btw(Agg(1, "Avg", f), Nav("First", f, 0), Nav("Prev", f, 1), TRUE)}

Others == {
  CountStar, MatchNo, Cls(NoLabel), Cls("U"), Cls("B"),
  Qual("B", "x"), Nav("Prev", Nav("Last", Qual("A", "x"), 1), 1), Nav("Prev", Qual("B", "s"), 1),
  Nav("Next", Nav("Prev", x, 2), 1), Nav("First", Qual("U", "u"), 1), Nav("Prev", Cls("A"), 1),
  Fin(Nav("Last", t, 0)), Run(Nav("First", Fin(Nav("Last", x, 0)), 1)),
  Bin("Add", u, x), Bin("Div", d, d), Bin("Sub", t, Nav("Prev", t, 1)), Neg(u), Bin("Mod", x, u), Bin("Mul", x, x), Bin("Sub", u, Nav("Prev", u, 1)),
  Bin("And", Bin("Lt", x, Nav("Prev", x, 1)), Not(Bin("Eq", f, f))),
  CastTo(s, Scalar("Int64")), CastTo(f, Scalar("UInt64")), CallE("length", <<s>>),
  CallE("coalesce", <<Qual("B", "d"), x>>), CallE("greatest", <<f, d, u>>), CallE("nullif", <<x, u>>),
  CallE("round", <<d>>), CallE("sqrt", <<Nav("First", f, 0)>>)}

Measured(exprs) == {<<[expr |-> e, ty |-> Infer(e)]>> : e \in {e \in exprs : MeasureBinds(e)}}

OffMatch == {Nav("Next", Bin("Concat", Qual("U", "s"), Cls(NoLabel)), 1)}

MeasureLists ==
  Measured(Aggregates \cup {Fin(a) : a \in Aggregates} \cup Guarded \cup Others \cup OffMatch)
  \cup {<<[expr |-> Guard, ty |-> Infer(Guard)], [expr |-> Agg(3, "Sum", u), ty |-> Scalar("HugeInt")],
          [expr |-> Fin(Agg(4, "ArrayAgg", x)), ty |-> ListT(Scalar("HugeInt"))]>> : Guard \in Guarded}

(* Overrides of the type, and a navigation that leaves the match. *)
Overridden == {
  <<[expr |-> t, ty |-> TimestampT("Nano")]>>,
  <<[expr |-> d, ty |-> DecimalT(5, 2)], [expr |-> x, ty |-> Scalar("Varchar")]>>}

MCJobs ==
  [tape : Tapes, matches : MatchLists, measures : MeasureLists \cup Overridden, rowsAll : BOOLEAN, omitEmpty : {TRUE}]
    \cup [tape : {<<R1, R2, R3, R4>>}, matches : MatchLists, measures : Measured(Aggregates \cup Others),
          rowsAll : {TRUE}, omitEmpty : {FALSE}]
=============================================================================
