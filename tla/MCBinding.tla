----------------------------- MODULE MCBinding -----------------------------
(***************************************************************************)
(* Calls over the input columns k, x (integers) and l (of a type binding   *)
(* does not read), the labels A, B and the quoted b, and up to two         *)
(* subsets.  One family varies what is said of labels, the other what is   *)
(* said of columns, the rest being a call that binds.                      *)
(***************************************************************************)
EXTENDS Binding

Up(w) == <<w, "up">>
Low(w) == <<w, "low">>

Input == <<[name |-> Low("k"), ty |-> "BIGINT"], [name |-> Low("x"), ty |-> "BIGINT"], [name |-> Low("l"), ty |-> NoTy]>>

\* An expression that reads some columns under some nodes, or, with two groups, plainly and under a CAST.
Reads(cols, nodes) == [col : cols, under : {nodes}]
Over(reads, quals, ty) == [reads |-> reads, quals |-> quals, ty |-> ty]
X(cols, hidden, quals, ty) == Over(Reads(cols, {"Binary"}) \cup Reads(hidden, {"Binary", "Cast"}), quals, ty)
True == X({}, {}, {}, "BOOLEAN")

Base == [rows |-> "one", empty |-> "show", input |-> Input, pattern |-> <<Up("a"), Up("b")>>, subset |-> <<>>,
         define |-> <<>>, measures |-> <<>>, order_by |-> <<<<Low("x")>>>>, partition_by |-> <<>>,
         include |-> <<>>, after |-> [mode |-> "past last row"], budget |-> "absent"]

S(n, ms) == [name |-> n, members |-> ms]
D(n, x) == [name |-> n, expr |-> x]
M(n, x, ty) == [name |-> n, expr |-> x, type |-> ty]

Patterns == {<<Up("a")>>, <<Up("a"), Up("b")>>, <<Low("b"), Up("b")>>, <<Up("a"), Low("b")>>}
SubsetsGiven ==
  {<<>>, <<S(Up("u"), <<Up("a")>>)>>, <<S(Low("u"), <<Low("b"), Up("b")>>)>>, <<S(Up("u"), <<>>)>>,
   <<S(Up("u"), <<Low("a")>>), S(Up("v"), <<Up("b")>>)>>, <<S(Up("u"), <<Up("b")>>), S(Low("u"), <<Up("a")>>)>>,
   <<S(Up("a"), <<Up("a")>>)>>}
DefineGiven ==
  {<<>>} \cup {<<D(n, X({Low("x")}, {}, q, "BOOLEAN"))>> :
                 n \in {Up("a"), Low("b"), Up("b"), Up("u")}, q \in {{}, {Low("b")}, {Up("b"), Low("u")}}}
         \cup {<<D(Low("b"), True), D(Up("b"), X({Low("k")}, {}, {}, "BOOLEAN"))>>,
               <<D(Up("a"), X({Low("x")}, {}, {}, "BIGINT"))>>}
Afters == {[mode |-> "past last row"], [mode |-> "other"]}
            \cup [mode : {"to first", "to last"}, var : {Up("a"), Low("b"), Up("u")}]

\* The measure has the qualifiers of the first predicate.
MeasureLike(d) ==
  <<M(Low("m"), X({Low("x")}, {}, IF d = <<>> THEN {Up("a")} ELSE d[1].expr.quals, "BIGINT"), NoTy)>>

LabelCalls ==
  {[Base EXCEPT !.pattern = p, !.subset = s, !.define = d, !.measures = MeasureLike(d)] :
     p \in Patterns, s \in SubsetsGiven, d \in DefineGiven}
    \cup {[Base EXCEPT !.pattern = p, !.subset = s, !.after = a] : p \in Patterns, s \in SubsetsGiven, a \in Afters}

Lists == {<<>>, <<Low("k")>>, <<Up("k"), Low("x")>>, <<Low("l")>>}
Orders ==
  {<<>>, <<<<Low("x")>>>>, <<<<Up("x"), Word("DESC"), Word("NULLS FIRST")>>, <<Low("k"), Word("ASC")>>>>,
   <<<<Low("k"), Word("NULLS LAST")>>>>, <<<<Low("x"), Low("k")>>>>, <<<<Word("DESC")>>>>}
MeasuresGiven ==
  {<<>>, <<M(Low("m"), X({}, {Low("k")}, {}, "BIGINT"), NoTy)>>, <<M(Up("classifier"), X({Up("x")}, {}, {}, "VARCHAR"), NoTy)>>,
   <<M(Low("m"), X({}, {}, {}, "NULL"), NoTy)>>,
   <<M(Low("m"), X({}, {}, {}, "NULL"), "DOUBLE"), M(Low("match_number"), X({Low("k")}, {}, {}, "BIGINT"), NoTy)>>,
   <<M(Low("m"), X({Low("l")}, {}, {}, "BIGINT"), NoTy)>>,
   <<M(Low("m"), Over(Reads({Up("x")}, {"Count", "Call"}), {}, "BIGINT"), NoTy),
     M(Low("n"), Over(Reads({Up("k")}, {"Not", "IsNull"}) \cup Reads({Low("x")}, {"Nav", "Agg"}), {}, "BOOLEAN"), NoTy)>>}
Includes == Lists \cup {<<Low("x"), Up("x"), Low("k")>>}
HiddenDefine == <<D(Up("a"), X({}, {Low("x")}, {}, "BOOLEAN"))>>

ColumnCalls ==
  {[Base EXCEPT !.partition_by = p, !.include = i, !.order_by = o, !.rows = r] :
     p \in Lists, i \in Includes, o \in Orders, r \in {"one", "all"}}
    \cup {[Base EXCEPT !.include = i, !.measures = m, !.define = d, !.rows = r, !.order_by = <<<<Low("k")>>>>] :
            i \in {<<>>, <<Low("x")>>}, m \in MeasuresGiven, d \in {<<>>, HiddenDefine}, r \in {"one", "all"}}
    \cup {[Base EXCEPT !.rows = r, !.empty = e, !.budget = b] :
            r \in {"one", "some"}, e \in {"omit", "hide"}, b \in {"positive", "not positive"}}

MCCalls == LabelCalls \cup ColumnCalls

\* A subset whose name is that of a pattern variable but for its case.
MCCollision == {[Base EXCEPT !.subset = <<S(Low("a"), <<Up("b")>>)>>]}

MCTwoSubsets == {[Base EXCEPT !.subset = <<S(Up("u"), <<Up("a")>>), S(Up("v"), <<Up("b")>>)>>]}

MCQuoted == {[Base EXCEPT !.pattern = <<Low("b"), Up("b")>>, !.after = [mode |-> "to last", var |-> Up("b")]]}

MCTrailing == {[Base EXCEPT !.order_by = <<<<Low("x"), Word("NULLS FIRST"), Word("DESC")>>>>]}

MCKeyTwice == {[Base EXCEPT !.rows = "all", !.partition_by = <<Low("k")>>, !.order_by = <<<<Low("k")>>>>]}

MCTyped == {[Base EXCEPT !.measures = <<M(Low("m"), X({Low("y")}, {}, {}, "BIGINT"), "BIGINT")>>]}

MCHidden == {[Base EXCEPT !.define = <<D(Up("a"), X({}, {Low("y")}, {}, "BOOLEAN"))>>]}
=============================================================================
