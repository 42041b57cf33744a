---------------------------- MODULE Expressions ----------------------------
(***************************************************************************)
(* The expression language of DEFINE and MEASURES: its type inference      *)
(* (infer.rs), its evaluator over a match frame (eval.rs) and the folds of *)
(* its aggregates, whole (eval.rs) and incremental (aggmemo.rs).           *)
(*                                                                         *)
(* An expression is a record whose field e names the variant of ast.rs;    *)
(* sub-expressions are in arg, lhs, rhs, lo, hi, list and args.  An        *)
(* aggregate has a site, which stands for the address of its node.  Tape   *)
(* positions count from 1, so 0 is no position.                            *)
(***************************************************************************)
EXTENDS SqlLists, SqlTypes, SequencesExt

CONSTANTS
  ColTy,      \* the type of each input column
  Label,      \* pattern variables and SUBSET names
  Members,    \* the variables a SUBSET lists; none for a pattern variable
  Letter      \* the character that stands for a label's name

NoLabel == "no label"
NoVar == "no variable"

\* LabelSet::covers, of a label the plan knows.
LabelCovers(label, bound) == label \in Label /\ (label = bound \/ bound \in Members[label])

----------------------------------------------------------------------------
\* Type inference.

LitTy(v) ==
  CASE v.k = "Bool" -> BooleanT
    [] v.k = "Int" -> Scalar("Int64")
    [] v.k = "Str" -> Scalar("Varchar")
    [] v.k \in {"Null", "Double", "Interval"} -> Scalar(v.k)

RECURSIVE Unify(_, _)
Unify(s, t) ==
  IF s.k = "List" /\ t.k = "List"
  THEN LET elem == Unify(s.elem, t.elem) IN IF elem = NoType THEN NoType ELSE ListT(elem)
  ELSE Join(s, t)

\* scalar::result_ty
CallTy(name, tys) ==
  CASE name \in {"abs", "ceil", "floor", "round"} -> IF NumericOrNull(tys[1]) THEN tys[1] ELSE NoType
    [] name = "sqrt" -> IF NumericOrNull(tys[1]) THEN Scalar("Double") ELSE NoType
    [] name = "length" -> Scalar("Int64")
    [] name = "nullif" -> tys[1]
    [] name \in {"coalesce", "greatest", "least"} ->
         FoldLeft(LAMBDA acc, t : IF acc = NoType THEN NoType ELSE Unify(acc, t), tys[1], Tail(tys))

AggTy(kind, inner) ==
  CASE kind = "Sum" -> SumTy(inner)
    [] kind = "Avg" -> AvgTy(inner)
    [] kind = "ArrayAgg" -> ListT(inner)
    [] kind \in {"Min", "Max", "Arbitrary"} -> inner

ColumnTy(col) == IF col \in DOMAIN ColTy THEN ColTy[col] ELSE NoType

\* The type of x, or NoType where binding refuses it.
RECURSIVE Infer(_)
Infer(x) ==
  CASE x.e = "Lit" -> LitTy(x.v)
    [] x.e = "Col" -> ColumnTy(x.col)
    [] x.e = "Qualified" -> IF x.var \in Label THEN ColumnTy(x.col) ELSE NoType
    [] x.e \in {"Nav", "RunningFinal"} -> Infer(x.arg)
    [] x.e = "Agg" ->
         CASE x.kind = "Count" -> Scalar("Int64")
           [] x.kind # "Count" /\ x.form = "Expr" ->
                IF Infer(x.arg) = NoType THEN NoType ELSE AggTy(x.kind, Infer(x.arg))
           [] OTHER -> NoType
    [] x.e = "Classifier" -> Scalar("Varchar")
    [] x.e = "MatchNumber" -> Scalar("Int64")
    [] x.e = "Neg" -> NegTy(Infer(x.arg))
    [] x.e = "Not" -> IF Infer(x.arg) \in {BooleanT, NullT} THEN BooleanT ELSE NoType
    [] x.e = "IsNull" -> BooleanT
    [] x.e = "Between" -> IF NoType \in {Infer(x.arg), Infer(x.lo), Infer(x.hi)} THEN NoType ELSE BooleanT
    [] x.e = "In" -> IF NoType \in {Infer(y) : y \in {x.arg} \cup ToSet(x.list)} THEN NoType ELSE BooleanT
    [] x.e = "Cast" -> x.ty
    [] x.e = "Call" ->
         LET tys == [i \in DOMAIN x.args |-> Infer(x.args[i])]
         IN IF NoType \in ToSet(tys) THEN NoType ELSE CallTy(x.name, tys)
    [] x.e = "Binary" ->
         IF NoType \in {Infer(x.lhs), Infer(x.rhs)} THEN NoType
         ELSE BinaryTy(x.op, Infer(x.lhs), Infer(x.rhs))

\* Every column and label x names, wherever it stands.
RECURSIVE Names(_)
Names(x) ==
  CASE x.e = "Col" -> {x.col}
    [] x.e = "Qualified" -> {x.col, x.var}
    [] x.e = "Classifier" -> {x.label} \ {NoLabel}
    [] x.e = "Agg" /\ x.form = "QualStar" -> {x.var}
    [] x.e \in {"Nav", "RunningFinal", "Neg", "Not", "IsNull", "Cast"} \/ (x.e = "Agg" /\ x.form = "Expr") ->
         Names(x.arg)
    [] x.e = "Binary" -> Names(x.lhs) \cup Names(x.rhs)
    [] x.e = "Between" -> Names(x.arg) \cup Names(x.lo) \cup Names(x.hi)
    [] x.e = "In" -> UNION {Names(y) : y \in {x.arg} \cup ToSet(x.list)}
    [] x.e = "Call" -> UNION {Names(y) : y \in ToSet(x.args)}
    [] OTHER -> {}

\* check_predicate and resolve_measure_ty
PredicateBinds(x) == Infer(x) \in {BooleanT, NullT}
MeasureBinds(x) == Infer(x) \notin {NoType, NullT}

----------------------------------------------------------------------------
\* Frames.  A frame f has the tape of rows, the binds, the horizon, the match
\* number, whether it is memoized, and memo, the folds by site and semantics.

\* Mutants: RUNNING sees the whole match; FINAL stops at the horizon.
VisibleAll(f, final) == f.binds
VisibleRunning(f, final) == SubSeq(f.binds, 1, f.horizon)

Visible(f, final) == IF final THEN f.binds ELSE SubSeq(f.binds, 1, f.horizon)

VarAt(f, tp, final) ==
  LET at == SelectInSeq(Visible(f, final), LAMBDA b : b.tape_pos = tp)
  IN IF at = 0 THEN NoVar ELSE f.binds[at].var

\* scope_iter; every row when there is no label
Scope(f, label, final) ==
  SelectSeq(Visible(f, final), LAMBDA b : label = NoLabel \/ LabelCovers(label, b.var))

BindAt(tp, var) == [tape_pos |-> tp, var |-> var]
NoBind == BindAt(0, NoVar)

\* The n-th bind of the scope, from 0, counted from one end.
ScopeNth(f, label, final, n, fromEnd) ==
  LET scope == Scope(f, label, final)
      at == IF fromEnd THEN Len(scope) - n ELSE n + 1
  IN IF at \in DOMAIN scope THEN scope[at] ELSE NoBind

LastBind(f, label, final) == ScopeNth(f, label, final, 0, TRUE)

\* The first label of a sequence that is one.
FirstLabel(labels) ==
  LET found == SelectSeq(labels, LAMBDA q : q # NoLabel)
  IN IF found = <<>> THEN NoLabel ELSE found[1]

RECURSIVE DominantQualifier(_)
DominantQualifier(x) ==
  CASE x.e = "Qualified" \/ (x.e = "Agg" /\ x.form = "QualStar") -> x.var
    [] x.e = "Classifier" -> x.label
    [] x.e \in {"Neg", "Not", "Cast", "RunningFinal", "Nav"} \/ (x.e = "Agg" /\ x.form = "Expr") ->
         DominantQualifier(x.arg)
    [] x.e = "Binary" -> FirstLabel(<<DominantQualifier(x.lhs), DominantQualifier(x.rhs)>>)
    [] x.e = "Call" -> FirstLabel([i \in DOMAIN x.args |-> DominantQualifier(x.args[i])])
    [] OTHER -> NoLabel

----------------------------------------------------------------------------
\* The folds of the aggregates: over all the values at once.

Better(kind) == IF kind = "Min" THEN "Less" ELSE "Greater"

FoldSum(vals) == FoldLeft(LAMBDA acc, v : Arith("Add", acc, v), vals[1], Tail(vals))

AvgOf(sum, n) == IF sum = Err THEN Err ELSE FloatArith("Div", sum, DoubleV(2 * n))

SumF64(sum, v) == IF Err = sum THEN Err ELSE FloatArith("Add", sum, AsF64(v))

FoldAvg(vals) == AvgOf(FoldLeft(SumF64, DoubleV(0), vals), Len(vals))

FoldExtreme(vals, better) ==
  FoldLeft(LAMBDA best, v : IF Compare(v, best) = better THEN v ELSE best, vals[1], Tail(vals))

FoldAll(kind, vals) ==
  CASE kind = "Count" -> IntV(Len(vals))
    [] kind = "ArrayAgg" -> ListV(vals)
    [] kind \notin {"Count", "ArrayAgg"} /\ vals = <<>> -> Null
    [] kind = "Sum" /\ vals # <<>> -> FoldSum(vals)
    [] kind = "Avg" /\ vals # <<>> -> FoldAvg(vals)
    [] kind \in {"Min", "Max"} /\ vals # <<>> -> FoldExtreme(vals, Better(kind))
    [] kind = "Arbitrary" /\ vals # <<>> -> vals[1]

\* And one value at a time.  An accumulator uses the fields its kind needs.
EmptyAcc == [n |-> 0, v |-> Null, sum |-> DoubleV(0), items |-> <<>>, failed |-> FALSE]

Accumulate(kind, acc, v) ==
  CASE kind = "Count" -> [acc EXCEPT !.n = @ + 1]
    [] kind = "Sum" -> [acc EXCEPT !.v = IF @ = Null THEN v ELSE Arith("Add", @, v)]
    [] kind = "Avg" -> [acc EXCEPT !.sum = SumF64(@, v), !.n = @ + 1]
    [] kind \in {"Min", "Max"} ->
         [acc EXCEPT !.v = IF @ = Null \/ Compare(v, @) = Better(kind) THEN v ELSE @]
    [] kind = "ArrayAgg" -> [acc EXCEPT !.items = Append(@, v)]
    [] kind = "Arbitrary" -> [acc EXCEPT !.v = IF @ = Null THEN v ELSE @]

Finish(kind, acc) ==
  CASE acc.failed -> Err
    [] kind = "Count" /\ ~acc.failed -> IntV(acc.n)
    [] kind = "Avg" /\ ~acc.failed -> IF acc.n = 0 THEN Null ELSE AvgOf(acc.sum, acc.n)
    [] kind = "ArrayAgg" /\ ~acc.failed -> ListV(acc.items)
    [] OTHER -> acc.v

\* Whether a bind's contribution cannot move with the horizon.
RECURSIVE HorizonIndependent(_, _)
HorizonIndependent(x, dominant) ==
  CASE x.e \in {"Lit", "Col", "MatchNumber"} -> TRUE
    [] x.e = "Classifier" -> x.label = NoLabel
    [] x.e = "Qualified" -> x.var = dominant
    [] x.e \in {"Neg", "Not", "Cast"} -> HorizonIndependent(x.arg, dominant)
    [] x.e = "Binary" -> HorizonIndependent(x.lhs, dominant) /\ HorizonIndependent(x.rhs, dominant)
    [] x.e = "Call" -> \A i \in DOMAIN x.args : HorizonIndependent(x.args[i], dominant)
    [] OTHER -> FALSE

AggQualifier(x) == IF x.form = "Expr" THEN DominantQualifier(x.arg) ELSE NoLabel

Memoizable(x) ==
  CASE x.form = "Star" -> FALSE
    [] x.form = "QualStar" -> x.kind = "Count"
    [] x.form = "Expr" -> HorizonIndependent(x.arg, AggQualifier(x))

----------------------------------------------------------------------------
\* Evaluation.

IsPhysical(x) == x.e = "Nav" /\ x.kind \in {"Prev", "Next"}
IsLogical(x) == x.e = "Nav" /\ x.kind \in {"First", "Last"}

\* The row a physical navigation reaches from a position: 0 is off the tape.
StepTo(f, x, from) ==
  LET to == IF x.kind = "Prev" THEN from - x.offset ELSE from + x.offset
  IN IF to \in DOMAIN f.tape THEN to ELSE 0

NoAnchor == [tp |-> 0]

\* What x reads at a bind, and at a row it steps to from an anchor.
AtBind(b, x, final) ==
  IF b = NoBind THEN NoAnchor ELSE [tp |-> b.tape_pos, read |-> x, final |-> final, var |-> b.var]
Moved(a, to) == IF to = 0 THEN NoAnchor ELSE [a EXCEPT !.tp = to]

\* The bind a logical navigation names.
LogicalBind(f, x, final) == ScopeNth(f, DominantQualifier(x.arg), final, x.offset, x.kind = "Last")

\* nav_anchor: where a physical navigation starts, what it reads, and how.
RECURSIVE NavAnchor(_, _, _, _)
NavAnchor(f, x, tp, final) ==
  CASE x.e = "RunningFinal" -> NavAnchor(f, x.arg, tp, x.final)
    [] IsLogical(x) -> AtBind(LogicalBind(f, x, final), x.arg, final)
    [] IsPhysical(x) ->
         LET Step(a) == IF a.tp = 0 THEN NoAnchor ELSE Moved(a, StepTo(f, x, a.tp))
         IN Step(NavAnchor(f, x.arg, tp, final))
    [] OTHER ->
         LET From(q) == IF q = NoLabel THEN BindAt(tp, NoVar) ELSE LastBind(f, q, final)
         IN AtBind(From(DominantQualifier(x)), x, final)

\* eval_nav: the row a navigation reads, what it reads there, as a row bound to
\* what variable.  A physical one pins the variable to the qualifier it reads.
NavPoint(f, x, tp, final) ==
  LET Pinned(a, q) == [a EXCEPT !.var = IF q \in Label THEN q ELSE VarAt(f, a.tp, a.final)]
      Anchored(a) == IF f.binds = <<>> \/ a.tp = 0 THEN NoAnchor ELSE Pinned(a, DominantQualifier(a.read))
  IN IF IsLogical(x) THEN AtBind(LogicalBind(f, x, final), x.arg, final)
     ELSE Anchored(NavAnchor(f, x, tp, final))

ColValue(f, col, tp) == IF col \in DOMAIN ColTy THEN f.tape[tp][col] ELSE Err

\* The name of a variable, or NULL for none.
VarName(v) == IF v = NoVar THEN Null ELSE StrV(<<Letter[v]>>)

\* IN: the first equal item decides, and only the items before it are evaluated.
InList(v, item, n, negated) ==
  LET Equal(i) == item[i] # Err /\ Compare(v, item[i]) = "Equal"
      upto == IF \E i \in 1..n : Equal(i) THEN Min({i \in 1..n : Equal(i)}) ELSE n
      hit == \E i \in 1..n : Equal(i)
  IN CASE v \in {Err, Null} -> v
       [] OTHER -> CASE \E i \in 1..upto : item[i] = Err -> Err
                     [] hit /\ ~(\E i \in 1..upto : item[i] = Err) -> BoolV(~negated)
                     [] OTHER -> IF \E i \in 1..n : item[i] = Null THEN Null ELSE BoolV(negated)

\* An error in any operand is the answer.
Strict(operands, answer) == IF Err \in operands THEN Err ELSE answer

RECURSIVE Eval(_, _, _, _, _), EvalAt(_, _), AggValue(_, _, _), EvalAgg(_, _, _), Extended(_, _, _)

\* The value of x at tape position tp, as a row bound to var.
Eval(f, x, tp, var, final) ==
  LET Sub(y) == Eval(f, y, tp, var, final)
  IN CASE x.e = "Lit" -> x.v
       [] x.e = "Col" ->
            IF f.binds = <<>> /\ x.col \in DOMAIN ColTy THEN Null ELSE ColValue(f, x.col, tp)
       [] x.e = "Qualified" ->
            LET at == IF LabelCovers(x.var, var) THEN tp ELSE LastBind(f, x.var, final).tape_pos
            IN IF at = 0 THEN Null ELSE ColValue(f, x.col, at)
       [] x.e = "Classifier" ->
            LET here == VarAt(f, tp, final)
            IN CASE x.label = NoLabel -> VarName(IF here = NoVar THEN var ELSE here)
                 [] x.label # NoLabel /\ LabelCovers(x.label, here) -> VarName(here)
                 [] OTHER -> IF x.label \in Label THEN VarName(LastBind(f, x.label, final).var) ELSE Null
       [] x.e = "MatchNumber" -> IntV(f.match_number)
       [] x.e = "RunningFinal" -> Eval(f, x.arg, tp, var, x.final)
       [] x.e = "Neg" -> Strict({Sub(x.arg)}, Negate(Sub(x.arg)))
       [] x.e = "Not" -> Strict({Sub(x.arg)}, LogicNot(Sub(x.arg)))
       [] x.e = "Binary" -> Strict({Sub(x.lhs), Sub(x.rhs)}, Binary(x.op, Sub(x.lhs), Sub(x.rhs)))
       [] x.e = "IsNull" -> Strict({Sub(x.arg)}, BoolV((Sub(x.arg) = Null) # x.negated))
       [] x.e = "Between" ->
            Strict({Sub(x.arg), Sub(x.lo), Sub(x.hi)}, Between(Sub(x.arg), Sub(x.lo), Sub(x.hi), x.negated))
       [] x.e = "In" -> InList(Sub(x.arg), [i \in DOMAIN x.list |-> Sub(x.list[i])], Len(x.list), x.negated)
       [] x.e = "Cast" -> Strict({Sub(x.arg)}, Coerce(Sub(x.arg), x.ty))
       [] x.e = "Call" ->
            LET vals == [i \in DOMAIN x.args |-> Sub(x.args[i])] IN Strict(ToSet(vals), Call(x.name, vals))
       [] x.e = "Nav" -> EvalAt(f, NavPoint(f, x, tp, final))
       [] x.e = "Agg" -> AggValue(f, x, final)

EvalAt(f, at) == IF at = NoAnchor THEN Null ELSE Eval(f, at.read, at.tp, at.var, at.final)

\* eval_agg: every value of the scope, collected and folded.
EvalAgg(f, x, final) ==
  CASE x.form = "Expr" ->
         LET scope == Scope(f, AggQualifier(x), final)
             vals == [i \in DOMAIN scope |-> Eval(f, x.arg, scope[i].tape_pos, scope[i].var, final)]
         IN Strict(ToSet(vals), FoldAll(x.kind, SelectSeq(vals, LAMBDA v : v # Null)))
    [] x.form # "Expr" /\ x.kind = "Count" ->
         IntV(Len(Scope(f, IF x.form = "Star" THEN NoLabel ELSE x.var, final)))
    [] OTHER -> Err

Complete == 1000

\* The entry of a site, extended to the binds this frame can see.
Extended(f, x, final) ==
  LET key == <<x.site, final>>
      kept == key \in DOMAIN f.memo /\ (f.memo[key].done = Complete \/ f.memo[key].done <= f.horizon)
      entry == IF kept THEN f.memo[key] ELSE [done |-> 0, acc |-> EmptyAcc]
      label == IF x.form = "QualStar" THEN x.var ELSE AggQualifier(x)
      Contribution(b) == IF x.form = "QualStar" THEN IntV(1) ELSE Eval(f, x.arg, b.tape_pos, b.var, final)
      Add(acc, v) ==
        CASE v = Null -> acc
          [] v = Err -> [acc EXCEPT !.failed = TRUE]
          [] OTHER -> Accumulate(x.kind, acc, v)
      Fold(acc, b) == IF label = NoLabel \/ LabelCovers(label, b.var) THEN Add(acc, Contribution(b)) ELSE acc
      fresh == SubSeq(f.binds, entry.done + 1, IF final THEN Len(f.binds) ELSE f.horizon)
  IN IF entry.done = Complete THEN entry
     ELSE [done |-> IF final THEN Complete ELSE f.horizon, acc |-> FoldLeft(Fold, entry.acc, fresh)]

AggValue(f, x, final) ==
  IF f.memoized /\ Memoizable(x) THEN Finish(x.kind, Extended(f, x, final).acc) ELSE EvalAgg(f, x, final)

\* eval_measure: an empty match has no current row.
EvalMeasure(f, x, final) ==
  LET here == IF f.horizon = 0 THEN BindAt(1, NoVar) ELSE f.binds[f.horizon]
  IN Eval(f, x, here.tape_pos, here.var, final)

\* eval_predicate: the current row is the last bind, always RUNNING.
EvalPredicate(f, x) == EvalMeasure(f, x, FALSE)
=============================================================================
