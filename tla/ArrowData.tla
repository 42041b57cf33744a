------------------------------ MODULE ArrowData ----------------------------
(***************************************************************************)
(* The Arrow side of the data: the types of columns that are not lists     *)
(* (schema.rs), a cell read as a value (cell_value of arrow_in.rs), what   *)
(* fits a cell (arrow_out.rs), and BatchRowStore, which addresses the rows *)
(* of several batches as one space and compares sort keys in place.        *)
(*                                                                         *)
(* A cell is [null |-> TRUE] or [null |-> FALSE, raw |-> what the array    *)
(* holds], where raw is the number, the string or the record of its type.  *)
(***************************************************************************)
EXTENDS SqlValues, SqlTypes

NullCell == [null |-> TRUE]
CellOf(raw) == [null |-> FALSE, raw |-> raw]

\* Arrow data types.  Each integer type is named for its width.
Arrow(k) == [k |-> k]
ArrowTs(unit) == [k |-> "Timestamp", unit |-> unit]
ArrowTime(unit) == [k |-> "Time", unit |-> unit]
ArrowDecimal(p, sc) == [k |-> "Decimal128", p |-> p, sc |-> sc]
ArrowList(elem) == [k |-> "List", elem |-> elem]

Widened == {"Int8", "Int16", "Int32", "Int64", "UInt8", "UInt16", "UInt32"}
Texts == {"Utf8", "LargeUtf8", "Utf8View"}
Spans == {"IntervalMonthDayNano", "IntervalYearMonth", "Duration"}

\* arrow_to_ty, of a type that is not a list: the type a column may be referenced by, or NoType.
ScalarTy(dt) ==
  CASE dt.k = "Boolean" -> BooleanT
    [] dt.k \in Widened -> Scalar("Int64")
    [] dt.k = "UInt64" -> Scalar("UInt64")
    [] dt.k \in {"Float16", "Float32", "Float64"} -> Scalar("Double")
    [] dt.k \in Texts -> Scalar("Varchar")
    [] dt.k \in {"Date32", "Date64"} -> Scalar("Date")
    [] dt.k = "Timestamp" -> TimestampT(dt.unit)
    [] dt.k = "Time" -> TimeT(dt.unit)
    [] dt.k = "Decimal128" -> DecimalT(dt.p, dt.sc)
    [] dt.k \in Spans -> IntervalT
    [] OTHER -> NoType

\* Mutant: a UBIGINT is read as i64.
CellValueSigned(dt, raw) ==
  CASE dt.k = "UInt64" -> IntV(Wrap(raw, Bits64))
    [] dt.k \in Widened -> IntV(raw)
    [] dt.k \in Texts -> StrV(raw)
    [] OTHER -> Null

\* cell_value, of a cell that is not null; a type without an arm reads as NULL.
CellValue(dt, raw) ==
  CASE dt.k = "Boolean" -> BoolV(raw)
    [] dt.k \in Widened -> IntV(raw)
    [] dt.k = "UInt64" -> UIntV(raw)
    [] dt.k \in {"Float32", "Float64"} -> raw
    [] dt.k \in Texts -> StrV(raw)
    [] dt.k = "Date32" -> DateV(raw)
    [] dt.k = "Date64" -> DateV(Wrap(Quot(raw, NanosPerDay), Bits32))
    [] dt.k = "Timestamp" -> TimestampV(raw, dt.unit)
    [] dt.k = "Time" -> TimeV(raw, dt.unit)
    [] dt.k = "Decimal128" -> DecimalV(raw, dt.sc)
    [] dt.k = "IntervalMonthDayNano" -> IntervalV(raw.mo, raw.d, raw.ns)
    [] OTHER -> Null

Read(dt, cell) == IF cell.null THEN Null ELSE CellValue(dt, cell.raw)

\* Types whose values are grouped and sorted by a raw integer, when the values are
\* what the column declares.
IntegerFamily == {"Int64", "UInt64", "Date", "Timestamp", "Time"}

\* The value has the declared type of its column.
Uniform(v, ty) ==
  \/ v = Null
  \/ <<v.k, ty.k>> \in {<<"Int", "Int64">>, <<"UInt", "UInt64">>, <<"Date", "Date">>}
  \/ v.k = ty.k /\ v.k \in {"Timestamp", "Time"} /\ v.unit = ty.unit

----------------------------------------------------------------------------
\* Writing.  What a column cannot represent becomes NULL.

\* Mutant: every integer goes through i64.
FittingSigned(n, S) == IF n \in I64 THEN CellOf(n) ELSE NullCell

Fitting(n, S) == IF n \in S THEN CellOf(n) ELSE NullCell

BoolBit(v) == IF v.b THEN 1 ELSE 0

\* Moves an unscaled decimal between scales; it saturates on the way up.
Rescale(u, from, to) ==
  IF from <= to THEN Clamp(u * Radix^(to - from), I128) ELSE Quot(u, Radix^(from - to))

DecimalCell(v, sc) ==
  CASE v.k = "Decimal" -> CellOf(Rescale(v.u, v.sc, sc))
    [] v.k = "UInt" -> CellOf(Rescale(v.n, 0, sc))
    [] OTHER -> IF AsF64(v) = Null THEN NullCell ELSE CellOf(ToDecimal(v, sc).u)

----------------------------------------------------------------------------
\* The row store: BatchRowStore.  A column is [dt, batches], a batch a sequence of cells.

RowsBefore(batches, b) == MapThenSumSet(LAMBDA i : Len(batches[i]), 1..(b - 1))

TotalRows(batches) == RowsBefore(batches, Len(batches) + 1)

\* The batch of a row, counted from 0, and its index there, from 1.
Locate(batches, row) ==
  LET b == Max({i \in DOMAIN batches : RowsBefore(batches, i) <= row})
  IN <<b, row - RowsBefore(batches, b) + 1>>

CellAt(col, row) == LET at == Locate(col.batches, row) IN col.batches[at[1]][at[2]]

ValueAt(col, row) == Read(col.dt, CellAt(col, row))

\* The types with an arm of their own in cmp_cells.
InPlace(dt) ==
  \/ dt.k \in {"Int64", "Int32", "UInt64", "Date32", "Float64", "Decimal128"} \cup Texts
  \/ dt.k = "Timestamp" /\ dt.unit \in {"Micro", "Nano"}

\* Mutant: the bits of a UBIGINT are compared as if they were signed.
RawCmpSigned(dt, x, y) ==
  CASE dt.k \in Texts -> StrOrd(x, y)
    [] dt.k = "Float64" -> TotalCmp(x, y)
    [] dt.k = "UInt64" -> Ord(Wrap(x, Bits64), Wrap(y, Bits64))
    [] OTHER -> Ord(x, y)

RawCmp(dt, x, y) ==
  CASE dt.k \in Texts -> StrOrd(x, y)
    [] dt.k = "Float64" -> TotalCmp(x, y)
    [] OTHER -> Ord(x, y)

CmpCells(col, a, b, desc, nullsFirst) ==
  LET x == CellAt(col, a)
      y == CellAt(col, b)
      ord == IF InPlace(col.dt) THEN RawCmp(col.dt, x.raw, y.raw)
             ELSE CmpForSort(ValueAt(col, a), ValueAt(col, b), FALSE, nullsFirst)
  IN CASE x.null /\ y.null -> "Equal"
       [] x.null /\ ~y.null -> IF nullsFirst THEN "Less" ELSE "Greater"
       [] ~x.null /\ y.null -> IF nullsFirst THEN "Greater" ELSE "Less"
       [] OTHER -> IF desc THEN Opposite(ord) ELSE ord
=============================================================================
