------------------------------ MODULE Measures ------------------------------
(***************************************************************************)
(* The measures of the matches of one partition, written one output row at *)
(* a time: emit_rows of plan.rs with emit_one_row, emit_all_row and        *)
(* emit_empty_row.  Under ALL ROWS the rows of a match share the memo of   *)
(* its aggregates; a row that does not reach an aggregate leaves its fold  *)
(* behind.  Row limits and resumption are in PartitionStream.              *)
(***************************************************************************)
EXTENDS Expressions

CONSTANT Jobs   \* tape, matches, measures, rowsAll, omitEmpty

VARIABLES
  job,      \* what is written
  mi,       \* the match being written, from 1
  ri,       \* its next row under ALL ROWS, from 1
  memo,     \* the folds of its aggregates
  out,      \* the measures of the rows written
  status    \* "emit", "done" or "failed"

vars == <<job, mi, ri, memo, out, status>>

----------------------------------------------------------------------------
Current == job.matches[mi]

\* The folds a measure evaluates: of the aggregates it reaches.
RECURSIVE Reached(_, _, _, _, _)
Reached(f, x, tp, var, final) ==
  LET Sub(y) == Reached(f, y, tp, var, final)
  IN CASE x.e = "Agg" ->
            IF Memoizable(x) \/ x.form # "Expr" THEN {[agg |-> x, final |-> final]}
            ELSE UNION {Reached(f, x.arg, b.tape_pos, b.var, final) : b \in ToSet(Scope(f, AggQualifier(x), final))}
       [] x.e = "RunningFinal" -> Reached(f, x.arg, tp, var, x.final)
       [] x.e \in {"Neg", "Not", "IsNull", "Cast"} -> Sub(x.arg)
       [] x.e = "Binary" -> Sub(x.lhs) \cup Sub(x.rhs)
       [] x.e = "Between" -> Sub(x.arg) \cup Sub(x.lo) \cup Sub(x.hi)
       [] x.e = "In" ->
            LET val == [y \in {x.arg} \cup ToSet(x.list) |-> Eval(f, y, tp, var, final)]
                Tried(i) == val[x.arg] # Null /\ \A j \in 1..(i - 1) : Compare(val[x.arg], val[x.list[j]]) # "Equal"
            IN Sub(x.arg) \cup UNION {Sub(x.list[i]) : i \in {i \in DOMAIN x.list : Tried(i)}}
       [] x.e = "Call" -> UNION {Sub(y) : y \in ToSet(x.args)}
       [] x.e = "Nav" ->
            LET At(at) == IF at = NoAnchor THEN {} ELSE Reached(f, at.read, at.tp, at.var, at.final)
            IN At(NavPoint(f, x, tp, final))
       [] OTHER -> {}

FrameOf(m, horizon, memoized, folds) ==
  [tape |-> job.tape, binds |-> m.binds, horizon |-> horizon, match_number |-> m.match_number,
   memoized |-> memoized, memo |-> folds]

\* A row: each measure evaluated and coerced to its type.
Row(f, final) ==
  [i \in DOMAIN job.measures |->
     LET Written(v) == IF v = Err THEN Err ELSE Coerce(v, job.measures[i].ty)
     IN Written(EvalMeasure(f, job.measures[i].expr, final))]

\* The memo once a row is written.
Folded(f) ==
  LET tp == f.binds[f.horizon].tape_pos
      var == f.binds[f.horizon].var
      Key(s) == <<s.agg.site, s.final>>
      SiteAt(sites, key) == CHOOSE s \in sites : Key(s) = key
      Extend(sites) ==
        [key \in {Key(s) : s \in sites} |-> Extended(f, SiteAt(sites, key).agg, key[2])] @@ f.memo
  IN Extend({s \in UNION {Reached(f, meas.expr, tp, var, FALSE) : meas \in ToSet(job.measures)} :
               Memoizable(s.agg)})

\* Write a row, or fail with its first error.
Write(row, mi1, ri1, memo1) ==
  IF Err \in ToSet(row)
  THEN /\ status' = "failed"
       /\ UNCHANGED <<job, mi, ri, memo, out>>
  ELSE /\ out' = Append(out, [mi |-> mi, ri |-> ri, vals |-> row])
       /\ mi' = mi1
       /\ ri' = ri1
       /\ memo' = memo1
       /\ UNCHANGED <<job, status>>

Emitting == status = "emit" /\ mi <= Len(job.matches)

\* Mutant: the folds of the previous match are kept.
LoadedKept == memo

\* The folds a row starts from: none on the first row of a match.
Loaded == IF ri = 1 THEN <<>> ELSE memo

EmitAllRow ==
  /\ Emitting
  /\ job.rowsAll
  /\ Current.binds # <<>>
  /\ LET f == FrameOf(Current, ri, TRUE, Loaded)
         last == ri = Len(Current.binds)
     IN Write(Row(f, FALSE), IF last THEN mi + 1 ELSE mi, IF last THEN 1 ELSE ri + 1, Folded(f))

EmitOneRow ==
  /\ Emitting
  /\ ~job.rowsAll
  /\ Current.binds # <<>>
  /\ Write(Row(FrameOf(Current, Len(Current.binds), FALSE, <<>>), TRUE), mi + 1, 1, memo)

EmitEmptyRow ==
  /\ Emitting
  /\ Current.binds = <<>>
  /\ ~(job.rowsAll /\ job.omitEmpty)
  /\ Write(Row(FrameOf(Current, 0, FALSE, <<>>), ~job.rowsAll), mi + 1, 1, memo)

SkipEmpty ==
  /\ Emitting
  /\ Current.binds = <<>>
  /\ job.rowsAll /\ job.omitEmpty
  /\ mi' = mi + 1
  /\ UNCHANGED <<job, ri, memo, out, status>>

Finished ==
  /\ status = "emit"
  /\ mi > Len(job.matches)
  /\ status' = "done"
  /\ UNCHANGED <<job, mi, ri, memo, out>>

Init ==
  /\ job \in Jobs
  /\ mi = 1
  /\ ri = 1
  /\ memo = <<>>
  /\ out = <<>>
  /\ status = "emit"

Next == EmitAllRow \/ EmitOneRow \/ EmitEmptyRow \/ SkipEmpty \/ Finished

Spec == Init /\ [][Next]_vars

----------------------------------------------------------------------------
\* Properties.

\* Whether a value may stand in a column of a type.
RECURSIVE HasType(_, _)
HasType(v, ty) ==
  CASE v = Null -> TRUE
    [] v # Null /\ ty.k = "Boolean" -> v.k = "Bool"
    [] v # Null /\ ty.k = "Int64" -> v.k = "Int" /\ v.n \in I64
    [] v # Null /\ ty.k = "UInt64" -> v.k = "UInt" /\ v.n \in U64
    [] v # Null /\ ty.k = "Decimal" -> v.k = "Decimal" /\ v.sc = ty.sc
    [] v # Null /\ ty.k = "Varchar" -> v.k = "Str"
    [] v # Null /\ ty.k \in {"Timestamp", "Time"} -> v.k = ty.k /\ v.unit = ty.unit
    [] v # Null /\ ty.k = "List" -> v.k = "List" /\ \A i \in DOMAIN v.items : HasType(v.items[i], ty.elem)
    [] OTHER -> v.k = ty.k

(***************************************************************************)
(* Type invariant: the cursor is on a row of a match, the folds are of the *)
(* rows already written.                                                   *)
(***************************************************************************)
TypeOK ==
  /\ job \in Jobs
  /\ mi \in 1..(Len(job.matches) + 1)
  /\ ri \in 1..Max({1} \cup {Len(m.binds) : m \in ToSet(job.matches)})
  /\ \A key \in DOMAIN memo : memo[key].done \in Nat \ {0}
  /\ status \in {"emit", "done", "failed"}

(***************************************************************************)
(* Every value written has the type its column was given when the query    *)
(* was bound, an explicit `type` override included: coerce, "CAST and      *)
(* final output coercion", leaves nothing of another type behind.          *)
(***************************************************************************)
OutputTyped ==
  \A i \in DOMAIN out : \A c \in DOMAIN job.measures : HasType(out[i].vals[c], job.measures[c].ty)

\* The value of measure c on the row about to be written, before its coercion.
Pending(c) ==
  LET final == ~job.rowsAll
      horizon == IF job.rowsAll /\ Current.binds # <<>> THEN ri ELSE Len(Current.binds)
  IN EvalMeasure(FrameOf(Current, horizon, FALSE, <<>>), job.measures[c].expr, final)

(***************************************************************************)
(* Inference and evaluation agree: a value that was computed is accepted   *)
(* by the type its expression was given, so that no expression binds and   *)
(* then fails in coerce.  Only arithmetic over UBIGINT may, out of range.  *)
(***************************************************************************)
TypingSound ==
  Emitting => \A c \in DOMAIN job.measures :
    LET x == job.measures[c].expr
        ty == job.measures[c].ty
        Accepted(v, w) == HasType(w, ty) \/ (w = Err /\ x.e = "Binary" /\ ty.k = "UInt64" /\ v.n \notin U64)
        Sound(v) == v # Err => Accepted(v, Coerce(v, ty))
    IN ty = Infer(x) => Sound(Pending(c))

(***************************************************************************)
(* An integer that was computed is the integer that is written: arithmetic *)
(* that leaves its column's range is an error, as valops.rs says of its    *)
(* out-of-range results, and never a wrapped number.                       *)
(***************************************************************************)
IntegersKept ==
  Emitting => \A c \in DOMAIN job.measures :
    LET v == Pending(c)
        w == Coerce(v, job.measures[c].ty)
    IN (v # Err /\ IsInteger(v) /\ IsInteger(w)) => w.n = v.n

(***************************************************************************)
(* CLASSIFIER() is "the variable bound to the row the reference resolves   *)
(* to" (ast.rs): a SUBSET, which binds no row, is never its answer.        *)
(***************************************************************************)
ClassifierIsVariable ==
  \A i \in DOMAIN out : \A c \in DOMAIN job.measures :
    \A l \in Label :
      (out[i].vals[c].k = "Str" /\ Members[l] # {}) => Letter[l] \notin ToSet(out[i].vals[c].s)

\* The row i of the output as it would be with no memo at all.
Recomputed(i) ==
  LET m == job.matches[out[i].mi]
      horizon == CASE m.binds = <<>> -> 0
                   [] m.binds # <<>> /\ job.rowsAll -> out[i].ri
                   [] OTHER -> Len(m.binds)
  IN Row(FrameOf(m, horizon, FALSE, <<>>), ~job.rowsAll)

(***************************************************************************)
(* The memo never shows: a row written from folds extended row by row,     *)
(* skipped on rows that do not reach them, and shared by RUNNING and FINAL *)
(* readers of one aggregate, is the row a full recomputation gives.        *)
(***************************************************************************)
MemoExact == \A i \in DOMAIN out : out[i].vals = Recomputed(i)

\* Whether x switches semantics, or looks past the rows matched so far.
RECURSIVE LooksAhead(_)
LooksAhead(x) ==
  CASE x.e \in {"RunningFinal"} -> x.final \/ LooksAhead(x.arg)
    [] x.e \in {"Nav", "Neg", "Not", "IsNull", "Cast"} \/ (x.e = "Agg" /\ x.form = "Expr") -> LooksAhead(x.arg)
    [] x.e = "Binary" -> LooksAhead(x.lhs) \/ LooksAhead(x.rhs)
    [] x.e = "Between" -> LooksAhead(x.arg) \/ LooksAhead(x.lo) \/ LooksAhead(x.hi)
    [] x.e = "In" -> \E y \in {x.arg} \cup ToSet(x.list) : LooksAhead(y)
    [] x.e = "Call" -> \E y \in ToSet(x.args) : LooksAhead(y)
    [] OTHER -> FALSE

(***************************************************************************)
(* What ALL ROWS reports for a row under RUNNING is what DEFINE saw when   *)
(* that row was tried: the value over the match cut off after the row.  No *)
(* row of the match that comes later may leak into it.                     *)
(***************************************************************************)
RunningIsDefine ==
  job.rowsAll =>
    \A i \in DOMAIN out :
      LET m == job.matches[out[i].mi]
          upto == [m EXCEPT !.binds = SubSeq(@, 1, out[i].ri)]
      IN m.binds # <<>> =>
           \A c \in DOMAIN job.measures :
             ~LooksAhead(job.measures[c].expr) =>
               out[i].vals[c] = Coerce(EvalPredicate(FrameOf(upto, out[i].ri, FALSE, <<>>), job.measures[c].expr),
                                       job.measures[c].ty)

(***************************************************************************)
(* A FINAL aggregate has one value for the whole match: the same on each   *)
(* of its rows, and the value ONE ROW PER MATCH reports.                   *)
(***************************************************************************)
FinalIsWhole ==
  job.rowsAll =>
    \A i \in DOMAIN out : \A c \in DOMAIN job.measures :
      LET x == job.measures[c].expr
          m == job.matches[out[i].mi]
      IN x.e = "RunningFinal" /\ x.final /\ x.arg.e = "Agg" /\ m.binds # <<>> =>
           out[i].vals[c] = Coerce(EvalMeasure(FrameOf(m, Len(m.binds), FALSE, <<>>), x.arg, TRUE),
                                   job.measures[c].ty)

(***************************************************************************)
(* Each row is computed over the horizon its semantics names: RUNNING over *)
(* the match up to the row, FINAL over the whole match (eval.rs).          *)
(***************************************************************************)
HorizonsKept == RunningIsDefine /\ FinalIsWhole
=============================================================================
