----------------------------- MODULE MCTapeSort -----------------------------
(***************************************************************************)
(* Tapes of up to four rows out of two batches of two, over one key of     *)
(* every type cmp_cells or KeyCol has an arm for, at the ends of its       *)
(* range, and over two keys with ties.  Two or three rows are sorted on    *)
(* copied keys, fewer or more in place.  An i64 has four bits.             *)
(***************************************************************************)
EXTENDS TapeSort

MCUnitNanos == [Second |-> 4, Nano |-> 1]

Keys == [desc : BOOLEAN, nullsFirst : BOOLEAN]

\* Two batches of two rows.
Column(type, cells) == [dt |-> type, batches |-> <<<<cells[1], cells[2]>>, <<cells[3], cells[4]>>>>]
ColumnsOf(type, raws) ==
  {Column(type, c) : c \in [1..4 -> {NullCell} \cup {CellOf(raw) : raw \in raws}]}

\* The rows of the first, or of every, batch but the rows of some other partition.
Ascending(S) == [k \in 0..(Cardinality(S) - 1) |-> CHOOSE x \in S : Cardinality({y \in S : y < x}) = k]
Tapes == {Ascending(S) : S \in {{}, {3}, {1, 2}, {0, 2, 3}, {0, 1, 2, 3}}}

On(cols, keys) == {[cols |-> <<col>>, keys |-> <<key>>, tape |-> t] : col \in cols, key \in keys, t \in Tapes}

\* The rows of the two batches.
MCRow == 0..3

MCInputs ==
  UNION {
    On(ColumnsOf(Arrow("Int64"), {-8, 7}), Keys),
    On(ColumnsOf(Arrow("UInt64"), {7, 8}), Keys),
    On(ColumnsOf(Arrow("Int8"), {-4, 3}), {[desc |-> TRUE, nullsFirst |-> TRUE]}),
    On(ColumnsOf(Arrow("Boolean"), BOOLEAN), {[desc |-> TRUE, nullsFirst |-> FALSE]}),
    On(ColumnsOf(Arrow("Utf8"), {<<>>, <<40>>}), Keys),
    On(ColumnsOf(Arrow("Float64"), {DoubleV(-1), NaN, NegZero, DoubleV(0)}), {[desc |-> TRUE, nullsFirst |-> TRUE]}),
    On(ColumnsOf(ArrowTs("Second"), {-8, 7}), {[desc |-> FALSE, nullsFirst |-> TRUE]}),
    On(ColumnsOf(ArrowTs("Nano"), {-8, 7}), {[desc |-> TRUE, nullsFirst |-> TRUE]}),
    On(ColumnsOf(Arrow("Date32"), {-4, 3}), {[desc |-> FALSE, nullsFirst |-> FALSE]}),
    On(ColumnsOf(Arrow("Date64"), {-8, 8}), {[desc |-> FALSE, nullsFirst |-> FALSE]}),
    On(ColumnsOf(ArrowDecimal(8, 1), {-256, 255}), {[desc |-> TRUE, nullsFirst |-> FALSE]}),
    On(ColumnsOf(Arrow("IntervalMonthDayNano"), {[mo |-> 1, d |-> 0, ns |-> 0], [mo |-> 0, d |-> 1, ns |-> 8]}),
       {[desc |-> TRUE, nullsFirst |-> FALSE]}),
    {[cols |-> <<c, e>>, keys |-> <<[desc |-> TRUE, nullsFirst |-> FALSE], [desc |-> FALSE, nullsFirst |-> TRUE]>>,
      tape |-> t] : c \in ColumnsOf(Arrow("Int64"), {1}), e \in ColumnsOf(Arrow("UInt64"), {1}), t \in Tapes}}
=============================================================================
