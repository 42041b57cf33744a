---------------------------- MODULE Calculations ----------------------------
(***************************************************************************)
(* One operation on SQL values: a binary operator of valops::binary, the   *)
(* unary minus, BETWEEN, or a cast of valops::coerce.  Its properties      *)
(* compare an answer with the types infer gives it and with the order      *)
(* ORDER BY uses.                                                          *)
(***************************************************************************)
EXTENDS SqlLists, SqlTypes

CONSTANTS Operands, Targets   \* the values operated on, and the types cast to

VARIABLES
  l, r,     \* the operands
  did,      \* the operation: "none" yet, an operator, "Neg", or "Cast" to a type
  answer

vars == <<l, r, did, answer>>

BinOps == DOMAIN Holds \cup {"And", "Or", "Concat", "Add", "Sub", "Mul", "Div", "Mod"}

Init == l \in Operands /\ r = Null /\ did = [op |-> "none"] /\ answer = Null

Operate ==
  /\ did.op = "none"
  /\ \E op \in BinOps, v \in Operands :
       did' = [op |-> op] /\ r' = v /\ answer' = Binary(op, l, v)
  /\ UNCHANGED l

Minus ==
  /\ did.op = "none"
  /\ did' = [op |-> "Neg"] /\ answer' = Negate(l)
  /\ UNCHANGED <<l, r>>

Within ==
  /\ did.op = "none"
  /\ \E v \in Operands : did' = [op |-> "Between"] /\ r' = v /\ answer' = Between(l, v, v, FALSE)
  /\ UNCHANGED l

CastTo ==
  /\ did.op = "none"
  /\ \E ty \in Targets : did' = [op |-> "Cast", ty |-> ty] /\ answer' = Coerce(l, ty)
  /\ UNCHANGED <<l, r>>

Next == Operate \/ Minus \/ Within \/ CastTo

Spec == Init /\ [][Next]_vars

----------------------------------------------------------------------------
\* Properties.

Binaries == did.op \in BinOps

\* The type of a column that holds v.
TyOf(v) ==
  CASE v.k = "Bool" -> BooleanT
    [] v.k = "Int" -> Scalar("Int64")
    [] v.k = "UInt" -> Scalar("UInt64")
    [] v.k = "Str" -> Scalar("Varchar")
    [] v.k = "Decimal" -> DecimalT(MaxPrecision, v.sc)
    [] v.k = "Timestamp" -> TimestampT(v.unit)
    [] v.k = "Time" -> TimeT(v.unit)
    [] v.k \in {"Null", "HugeInt", "Double", "Date", "Interval"} -> Scalar(v.k)

\* The machine integers a value is made of fit their widths.
Fits(v) ==
  CASE v.k = "Int" -> v.n \in I64
    [] v.k = "UInt" -> v.n \in U64
    [] v.k = "HugeInt" -> v.n \in I128
    [] v.k = "Decimal" -> v.u \in I128
    [] v.k = "Date" -> v.d \in I32
    [] v.k \in {"Timestamp", "Time"} -> v.t \in I64
    [] v.k = "Interval" -> v.mo \in I32 /\ v.d \in I32 /\ v.ns \in I64
    [] OTHER -> TRUE

(***************************************************************************)
(* Type invariant, and that no operation makes a value the width of its    *)
(* variant cannot hold.                                                    *)
(***************************************************************************)
TypeOK ==
  /\ {l, r} \subseteq Operands \cup {Null}
  /\ did.op \in BinOps \cup {"none", "Neg", "Between", "Cast"}
  /\ Fits(answer)

AnswerTy ==
  CASE Binaries -> BinaryTy(did.op, TyOf(l), TyOf(r))
    [] did.op = "Neg" -> NegTy(TyOf(l))
    [] did.op = "Between" -> BooleanT
    [] OTHER -> NullT

(***************************************************************************)
(* What infer promises, the operation delivers: the answer to operands of  *)
(* accepted types goes into a column of the inferred type, unless UBIGINT  *)
(* arithmetic left its range.                                              *)
(***************************************************************************)
AnswersTyped ==
  (AnswerTy # NoType /\ answer # Err) =>
    \/ Coerce(answer, AnswerTy) # Err
    \/ Binaries /\ AnswerTy.k = "UInt64" /\ answer.n \notin U64

(***************************************************************************)
(* The difference of two instants, of one unit or of two, is that many     *)
(* nanoseconds whatever fields the interval keeps them in, and adding it   *)
(* back gives the instant: ts_diff is lossless or an error.                *)
(***************************************************************************)
DifferenceLossless ==
  (did.op = "Sub" /\ l.k = r.k /\ l.k \in {"Timestamp", "Time"} /\ answer # Err) =>
    /\ IntervalNanos(answer) = Nanos(l) - Nanos(r)
    /\ (l.k = "Timestamp" /\ l.unit = r.unit) => Binary("Add", r, answer) = l

(***************************************************************************)
(* Shifting an instant or a date moves it the way the interval points, and *)
(* never past the end of its range: a wrapped result would move back.      *)
(***************************************************************************)
ShiftsForward ==
  (did.op \in {"Add", "Sub"} /\ l.k \in {"Timestamp", "Date"} /\ r.k = "Interval" /\ answer # Err) =>
    LET delta == IF did.op = "Add" THEN IntervalNanos(r) ELSE -IntervalNanos(r)
    IN /\ delta >= 0 => Compare(answer, l) \in {"Equal", "Greater"}
       /\ delta <= 0 => Compare(answer, l) \in {"Equal", "Less"}

SameColumn(v, w) == Null \in {v, w} \/ TyOf(v) = TyOf(w)
AtMost(v, w, desc, first) == CmpForSort(v, w, desc, first) \in {"Less", "Equal"}

(***************************************************************************)
(* ORDER BY is a total order on the values of a column: any two compare    *)
(* one way, it is transitive with NaN, both zeros and NULL in it, and DESC *)
(* reverses everything except where NULL goes.                             *)
(***************************************************************************)
SortIsTotal ==
  (did.op = "Lt" /\ SameColumn(l, r)) =>
    \A desc, first \in BOOLEAN :
      /\ CmpForSort(r, l, desc, first) = Opposite(CmpForSort(l, r, desc, first))
      /\ \A v \in Operands :
           (SameColumn(l, v) /\ SameColumn(r, v) /\ AtMost(l, r, desc, first) /\ AtMost(r, v, desc, first)) =>
             AtMost(l, v, desc, first)
      /\ Null \in {l, r} => CmpForSort(l, r, ~desc, first) = CmpForSort(l, r, desc, first)

(***************************************************************************)
(* The tape is sorted the way DEFINE sees it: a value that SQL comparison  *)
(* calls smaller is sorted before, in every type a column can have; and in *)
(* the integer family, signed with unsigned included, "the two cannot      *)
(* answer differently" at all.  (Two decimals may be equal to SQL, which   *)
(* compares them as doubles, and still be told apart by the sort.)         *)
(***************************************************************************)
SortFollowsCompare ==
  LET ordered == {"Less", "Greater"} \cup (IF IsInteger(l) THEN {"Equal"} ELSE {})
      comparable == TyOf(l) = TyOf(r) \/ (IsInteger(l) /\ IsInteger(r))
  IN (did.op = "Lt" /\ Null \notin {l, r} /\ comparable /\ Compare(l, r) \in ordered) =>
       CmpForSort(l, r, FALSE, FALSE) = Compare(l, r)

(***************************************************************************)
(* An integer cast to VARCHAR, HUGEINT or UBIGINT comes back as itself or  *)
(* as an error, never as another integer.                                  *)
(***************************************************************************)
CastsReturn ==
  (did.op = "Cast" /\ IsInteger(l) /\ did.ty.k \in {"Varchar", "HugeInt", "UInt64"} /\ answer # Err) =>
    LET back == Coerce(answer, TyOf(l)) IN back = l \/ back = Err

(***************************************************************************)
(* "Genuine out-of-range is an error rather than a saturating value": the  *)
(* difference of two dates is their distance, or an error.                 *)
(***************************************************************************)
DateDifferenceExact ==
  (did.op = "Sub" /\ l.k = "Date" /\ r.k = "Date") => answer = Err \/ answer.d = l.d - r.d

(***************************************************************************)
(* What binds can be evaluated: "a bind-time-valid expression that could   *)
(* never evaluate" is what the arms of temporal_arith are there to avoid.  *)
(***************************************************************************)
Alike(v) == {w \in Operands : w # Null /\ TyOf(w) = TyOf(v)}

BoundCanEvaluate ==
  (Binaries /\ AnswerTy # NoType /\ Null \notin {l, r}) =>
    \E v \in Alike(l), w \in Alike(r) : Binary(did.op, v, w) # Err

(***************************************************************************)
(* "Operands must be comparable": a BETWEEN that binds is TRUE or FALSE    *)
(* for some values of its operands' types.                                 *)
(***************************************************************************)
BetweenCanHold ==
  (did.op = "Between" /\ AnswerTy # NoType /\ Null \notin {l, r}) =>
    \E v \in Alike(l), w \in Alike(r) : Between(v, w, w, FALSE) # Null
=============================================================================
