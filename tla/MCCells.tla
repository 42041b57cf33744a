------------------------------- MODULE MCCells ------------------------------
(***************************************************************************)
(* The two machines over SQL values: a behaviour is one operation on two   *)
(* values (Calculations) or one cell on its way through (Columns), and the *)
(* other machine is idle.  Values of every variant and cells of every      *)
(* Arrow type, at both ends of a four-bit i64 and u64, a three-bit i32 and *)
(* a nine-bit i128; doubles past the three bits of the mantissa; instants  *)
(* in two units.                                                           *)
(***************************************************************************)
EXTENDS ArrowData

CONSTANTS Operands, CastTargets, Inputs, MeasureTypes

VARIABLES l, r, did, answer, dt, cell, ty, value, written, pc

calculation == <<l, r, did, answer>>
column == <<dt, cell, ty, value, written, pc>>
vars == <<calculation, column>>

Calc == INSTANCE Calculations WITH Targets <- CastTargets
Col == INSTANCE Columns WITH Targets <- MeasureTypes

IdleCalculation == l = Null /\ r = Null /\ did = [op |-> "idle"] /\ answer = Null
IdleColumn == dt = NullT /\ cell = NullCell /\ ty = NullT /\ value = Null /\ written = NullCell /\ pc = "idle"

Init ==
  \/ Calc!Init /\ IdleColumn
  \/ Col!Init /\ IdleCalculation

Next ==
  \/ Calc!Next /\ UNCHANGED column
  \/ Col!Next /\ UNCHANGED calculation

Spec == Init /\ [][Next]_vars

----------------------------------------------------------------------------
\* Properties: those of the two machines, some of them together.

(***************************************************************************)
(* Type invariant: of the machine that is not idle.                        *)
(***************************************************************************)
TypeOK ==
  /\ did.op # "idle" => Calc!TypeOK
  /\ pc # "idle" => Col!TypeOK

(***************************************************************************)
(* What infer promises, the operation delivers (Calculations).             *)
(***************************************************************************)
AnswersTyped == Calc!AnswersTyped

(***************************************************************************)
(* Arithmetic on time is exact or an error: the difference of two instants *)
(* is lossless, and shifting one never wraps around (Calculations).        *)
(***************************************************************************)
TimesExact == Calc!DifferenceLossless /\ Calc!ShiftsForward

(***************************************************************************)
(* The order rows are sorted by is total, and is the order DEFINE sees     *)
(* through SQL comparison (Calculations).                                  *)
(***************************************************************************)
OrdersAgree == Calc!SortIsTotal /\ Calc!SortFollowsCompare

(***************************************************************************)
(* A cast of an integer comes back as itself or as an error (Calculations).*)
(***************************************************************************)
CastsReturn == Calc!CastsReturn

(***************************************************************************)
(* A key leaves with the value it came in with, and a measure as what      *)
(* coerce made of it (Columns).                                            *)
(***************************************************************************)
CellsReturn == Col!KeysReturn /\ Col!MeasuresArrive

\* Properties the code does not have, for runs of their own.
DateDifferenceExact == Calc!DateDifferenceExact
BoundCanEvaluate == Calc!BoundCanEvaluate
BetweenCanHold == Calc!BetweenCanHold
ReferencedIsRead == Col!ReferencedIsRead

----------------------------------------------------------------------------
\* Constants.

MCUnitNanos == [Second |-> 4, Nano |-> 1]

MCOperands ==
  {Null, True, False, NaN, NegNaN, NegZero}
    \cup {IntV(n) : n \in {-8, -1, 0, 3, 7}}
    \cup {UIntV(n) : n \in {0, 7, 8, 15}}
    \cup {HugeV(n) : n \in {-256, -9, 8, 9, 255}}
    \cup {DoubleV(h) : h \in {-3, 0, 1, 14, 16, 32}}
    \cup {DecimalV(u, 1) : u \in {-9, 8, 9, 17}}
    \cup {StrV(s) : s \in {<<>>, <<Digits(7)>>, <<40, 41>>, <<40>>}}
    \cup {DateV(n) : n \in {-4, -1, 3}}
    \cup {TimestampV(n, "Second") : n \in {-8, 0, 7}}
    \cup {TimestampV(n, "Nano") : n \in {-8, 1, 7}}
    \cup {TimeV(n, "Nano") : n \in {0, 3, 7}}
    \cup {IntervalV(0, 0, 5), IntervalV(0, 1, -8), IntervalV(1, -1, 0), IntervalV(0, -1, 2)}

MCTypes ==
  {Scalar(k) : k \in {"Boolean", "Int64", "UInt64", "HugeInt", "Double", "Varchar", "Date", "Interval"}}
    \cup {DecimalT(8, 1), TimeT("Nano")}

MCCastTargets == MCTypes \cup {TimestampT("Nano"), ListT(Scalar("Int64"))}
MCMeasureTypes == MCTypes \cup {DecimalT(8, 3), TimestampT("Second")}

Of(type, raws) == {[dt |-> type, cell |-> CellOf(raw)] : raw \in raws} \cup {[dt |-> type, cell |-> NullCell]}

MCInputs ==
  UNION {
    Of(Arrow("Boolean"), BOOLEAN),
    Of(Arrow("Int64"), {-8, -1, 0, 3, 7}), Of(Arrow("Int32"), {-4, 0, 3}), Of(Arrow("UInt32"), {0, 7}),
    Of(Arrow("UInt64"), {0, 7, 8, 15}),
    Of(Arrow("Float64"), {DoubleV(h) : h \in {-3, 0, 1, 14, 32}} \cup {NaN, NegNaN, NegZero}),
    Of(Arrow("Float32"), {DoubleV(1)}),
    Of(Arrow("Utf8"), {<<>>, <<Digits(7)>>, <<40, 41>>}), Of(Arrow("Utf8View"), {<<40>>}),
    Of(Arrow("Date32"), {-4, 0, 3}), Of(Arrow("Date64"), {-24, 0, 8}),
    Of(ArrowTs("Second"), {-8, 0, 7}), Of(ArrowTs("Nano"), {-8, 7}), Of(ArrowTime("Nano"), {0, 7}),
    Of(ArrowDecimal(8, 1), {-256, -9, 0, 17, 255}), Of(ArrowDecimal(8, 0), {255}),
    Of(Arrow("IntervalMonthDayNano"), {[mo |-> 1, d |-> -1, ns |-> 5]})}

\* With lists, whose cells are never read.
MCListed == MCInputs \cup Of(ArrowList(Arrow("Int64")), {<<>>, <<CellOf(1), NullCell>>})
=============================================================================
