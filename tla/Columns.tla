------------------------------ MODULE Columns -------------------------------
(***************************************************************************)
(* One cell on its way through the worker: read from the input relation,   *)
(* carried to the output as a key (in the type its column was bound with)  *)
(* or coerced to the type of a measure, written into an output array, and  *)
(* read by whoever receives that.                                          *)
(***************************************************************************)
EXTENDS ArrowData, SqlLists

CONSTANTS
  Inputs,    \* arrow type and cell pairs
  Targets    \* the types of measures

VARIABLES dt, cell, ty, value, written, pc

vars == <<dt, cell, ty, value, written, pc>>

\* arrow_to_ty
RECURSIVE ArrowToTy(_)
ArrowToTy(t) ==
  IF t.k # "List" THEN ScalarTy(t)
  ELSE IF ArrowToTy(t.elem) = NoType THEN NoType ELSE ListT(ArrowToTy(t.elem))

\* ty_to_arrow
RECURSIVE TyToArrow(_)
TyToArrow(t) ==
  CASE t.k \in {"Boolean", "Int64", "UInt64"} -> Arrow(t.k)
    [] t.k = "HugeInt" -> ArrowDecimal(MaxPrecision, 0)
    [] t.k = "Double" -> Arrow("Float64")
    [] t.k = "Decimal" -> ArrowDecimal(t.p, t.sc)
    [] t.k \in {"Varchar", "Null"} -> Arrow("Utf8")
    [] t.k = "Date" -> Arrow("Date32")
    [] t.k = "Timestamp" -> ArrowTs(t.unit)
    [] t.k = "Time" -> ArrowTime(t.unit)
    [] t.k = "Interval" -> Arrow("IntervalMonthDayNano")
    [] t.k = "List" -> ArrowList(TyToArrow(t.elem))

\* build_column: the cell of one row, or Err.  Only strings reach a VARCHAR column.
RECURSIVE Build(_, _)
Build(t, v) ==
  CASE v = Null \/ t.k = "Null" -> NullCell
    [] t.k = "Boolean" -> IF AsBool(v) = Null THEN NullCell ELSE CellOf(AsBool(v).b)
    [] t.k = "Int64" /\ v.k = "Int" -> CellOf(v.n)
    [] t.k = "Int64" /\ v.k = "UInt" -> Fitting(v.n, I64)
    [] t.k = "Int64" /\ v.k = "HugeInt" -> CellOf(Wrap(v.n, Bits64))
    [] t.k = "UInt64" /\ IsInteger(v) -> Fitting(v.n, U64)
    [] t.k \in {"Int64", "UInt64"} /\ v.k = "Bool" -> CellOf(BoolBit(v))
    [] t.k = "HugeInt" -> IF ToHugeInt(v) = Err THEN NullCell ELSE CellOf(ToHugeInt(v).n)
    [] t.k = "Double" -> IF AsF64(v) = Null THEN NullCell ELSE CellOf(AsF64(v))
    [] t.k = "Decimal" -> DecimalCell(v, t.sc)
    [] t.k = "Varchar" -> CellOf(Render(v))
    [] t.k = "Date" /\ v.k = "Date" -> CellOf(v.d)
    [] t.k \in {"Timestamp", "Time"} /\ v.k = t.k -> CellOf(v.t)
    [] t.k = "Interval" /\ v.k = "Interval" -> CellOf([mo |-> v.mo, d |-> v.d, ns |-> v.ns])
    [] t.k = "List" ->
         LET items == [i \in DOMAIN v.items |-> Build(t.elem, v.items[i])]
         IN IF v.k # "List" \/ \E i \in DOMAIN items : items[i] = Err THEN Err ELSE CellOf(items)
    [] OTHER -> NullCell

----------------------------------------------------------------------------
Init ==
  /\ \E in \in Inputs : dt = in.dt /\ cell = in.cell
  /\ ty = NullT /\ value = Null /\ written = NullCell
  /\ pc = "input"

\* A key column is written from the store, without a coercion.
ReadKey ==
  /\ pc = "input"
  /\ ArrowToTy(dt) # NoType
  /\ ty' = ArrowToTy(dt)
  /\ value' = Read(dt, cell)
  /\ pc' = "key"
  /\ UNCHANGED <<dt, cell, written>>

ReadMeasure ==
  /\ pc = "input"
  /\ ArrowToTy(dt) # NoType
  /\ \E to \in Targets :
       LET v == Coerce(Read(dt, cell), to)
       IN /\ ty' = to
          /\ value' = v
          /\ pc' = IF v = Err THEN "failed" ELSE "measure"
  /\ UNCHANGED <<dt, cell, written>>

Write ==
  /\ pc \in {"key", "measure"}
  /\ written' = Build(ty, value)
  /\ pc' = IF pc = "key" THEN "key written" ELSE "measure written"
  /\ UNCHANGED <<dt, cell, ty, value>>

Next == ReadKey \/ ReadMeasure \/ Write

Spec == Init /\ [][Next]_vars

----------------------------------------------------------------------------
\* Properties.

Bound(raw, t) ==
  CASE t.k = "Int64" -> raw \in I64
    [] t.k = "UInt64" -> raw \in U64
    [] t.k = "Decimal128" -> raw \in I128
    [] OTHER -> TRUE

(***************************************************************************)
(* Type invariant: what is about to be written is a value, and what was    *)
(* written fits its array.                                                 *)
(***************************************************************************)
TypeOK ==
  /\ pc \in {"input", "failed", "key", "measure", "key written", "measure written"}
  /\ pc \in {"key", "measure"} => value # Err
  /\ ~written.null => Bound(written.raw, TyToArrow(ty))

\* What a reader of the output finds.  A HUGEINT travels as a decimal of scale 0.
Received ==
  LET v == Read(TyToArrow(ty), written)
  IN IF ty.k = "HugeInt" /\ v.k = "Decimal" THEN HugeV(v.u) ELSE v

(***************************************************************************)
(* A partition key, an order key or an included column leaves with the     *)
(* value it came in with, for every type whose cells are read at all: at   *)
(* both ends of every width, with NaN and both zeros apart.                *)
(***************************************************************************)
KeysReturn == pc = "key written" => Received = Read(dt, cell)

(***************************************************************************)
(* What coerce made of a measure is what is received: NULL if and only if  *)
(* it was NULL, never the nearest thing the array could hold.  A TIMESTAMP *)
(* or TIME coerce left in another unit is the finding of Measures.         *)
(***************************************************************************)
MeasuresArrive ==
  (pc = "measure written" /\ (value.k \in {"Timestamp", "Time"} => value.unit = ty.unit)) =>
    Received = value \/ (ty.k = "List" /\ ~written.null)

(***************************************************************************)
(* A column that may be referenced is read: "Unsupported types return None *)
(* (the column can't be referenced)", so a present cell is never NULL.     *)
(***************************************************************************)
ReferencedIsRead == (pc = "key" /\ ~cell.null) => value # Null
=============================================================================
