------------------------------ MODULE TapeSort ------------------------------
(***************************************************************************)
(* sort_tape of plan.rs: the rows of a partition, ordered by the order_by  *)
(* keys.  A tape whose keys are all of fixed width, and whose length is    *)
(* worth it and fits a marked permutation, is sorted on copies of the keys *)
(* (KeyCol) and rearranged in place by ApplyPermutation; any other through *)
(* cmp_cells of the store.  Rows and positions of a tape count from 0.     *)
(***************************************************************************)
EXTENDS ArrowData, ApplyPermutation, SequencesExt

CONSTANTS
  Inputs,   \* partitions: [cols, keys, tape], a column and [desc, nullsFirst] for each key
  MinRows   \* MIN_ROWS_FOR_KEY_SORT; MAX_ROWS_FOR_KEY_SORT is MaxRows

\* What the cells hold of each type that cell_value has an arm for.
Doubles == {NaN, NegNaN, NegZero} \cup [k : {"Double"}, cls : {"num"}, h : Int]
Ticks == Widened \cup {"UInt64", "Date32", "Date64", "Timestamp", "Time", "Decimal128"}
IsRaw(raw, dt) ==
  \/ dt.k = "Boolean" /\ raw \in BOOLEAN
  \/ dt.k \in Ticks /\ raw \in Int
  \/ dt.k \in Texts /\ raw \in Seq(Nat)
  \/ dt.k \in {"Float32", "Float64"} /\ raw \in Doubles
  \/ dt.k = "IntervalMonthDayNano" /\ raw \in [mo : Int, d : Int, ns : Int]
IsCell(cell, dt) == cell = NullCell \/ (cell.null = FALSE /\ IsRaw(cell.raw, dt))

\* The widths as far as an order needs them.
ASSUME SizesAssumption ==
  /\ {2^Bits32, 2^(Bits32 - 1), 2^(Bits128 + 2)} \subseteq Nat \ {0}
  /\ {NanosPerDay, DaysPerMonth} \subseteq Nat \ {0}
  /\ Row \subseteq Nat /\ 0 \in Row /\ MinRows \in Nat

\* A partition is a tape of ascending rows, as grouping leaves it, over such columns.
ASSUME InputsAssumption ==
  \A p \in Inputs :
    /\ p.keys \in Seq([desc : BOOLEAN, nullsFirst : BOOLEAN]) /\ DOMAIN p.cols = DOMAIN p.keys
    /\ IsFiniteSet(DOMAIN p.tape) /\ p.tape \in [0..(Cardinality(DOMAIN p.tape) - 1) -> Row]
    /\ \A i, j \in DOMAIN p.tape : i < j => p.tape[i] < p.tape[j]
    /\ \A c \in DOMAIN p.keys, i \in DOMAIN p.tape :
         IsCell(CellAt(p.cols[c], p.tape[i]), p.cols[c].dt)

\* The tape being sorted is the one permuted, and given, the arguments of
\* apply_permutation, are empty before it is called.  at is "sort" or "keys" before.
VARIABLES
  part,     \* the partition
  keyCols   \* the keys copied out of the store

vars == <<part, keyCols, permVars>>

Init ==
  /\ part \in Inputs
  /\ tape = part.tape
  /\ keyCols = <<>> /\ given = [n |-> 0, tape |-> tape, perm |-> tape]
  /\ perm = <<>> /\ start = 0 /\ held = 0 /\ slot = 0
  /\ at = "sort"

Terms == DOMAIN part.keys
Length == Cardinality(DOMAIN part.tape)

\* sort_by is stable: where each position goes, under the order of the positions.
Sorted(order) ==
  LET P == DOMAIN part.tape
      Place(j) == Cardinality({i \in P : order[i][j] = "Less" \/ (i < j /\ order[i][j] = "Equal")})
  IN [k \in P |-> CHOOSE j \in P : Place(j) = k]

\* The first term that tells two rows apart decides.
Lexicographic(ords) ==
  LET apart == {c \in DOMAIN ords : ords[c] # "Equal"}
  IN IF apart = {} THEN "Equal" ELSE ords[Min(apart)]

FixedWidth(dt) == dt.k # "List" /\ ScalarTy(dt).k # "Varchar"

OnKeys ==
  /\ Length \in MinRows..MaxRows
  /\ \A c \in Terms : FixedWidth(part.cols[c].dt)

CellOrder ==
  [i \in DOMAIN part.tape |-> [j \in DOMAIN part.tape |->
     Lexicographic([c \in Terms |-> CmpCells(part.cols[c], part.tape[i], part.tape[j],
                                             part.keys[c].desc, part.keys[c].nullsFirst)])]]

ByCells == [k \in DOMAIN part.tape |-> part.tape[Sorted(CellOrder)[k]]]

SortByCells ==
  /\ at = "sort" /\ ~OnKeys
  /\ tape' = ByCells
  /\ at' = "done"
  /\ UNCHANGED <<part, keyCols, given, perm, start, held, slot>>

----------------------------------------------------------------------------
\* KeyCol.

\* The value of a key that is present, without its type.
Unpacked(v) ==
  CASE v.k \in {"Int", "UInt"} -> v.n
    [] v.k = "Date" -> v.d
    [] v.k \in {"Timestamp", "Time"} -> v.t

\* A packed column has a number and a NULL flag for every row, any other its values.
ReadColumn(col) ==
  LET ty == ScalarTy(col.dt)
      cells == [i \in DOMAIN part.tape |-> ValueAt(col, part.tape[i])]
  IN IF ty.k \in IntegerFamily /\ \A i \in DOMAIN cells : Uniform(cells[i], ty)
     THEN [packed |-> TRUE,
           null |-> [i \in DOMAIN cells |-> cells[i] = Null],
           nums |-> [i \in DOMAIN cells |-> IF cells[i] = Null THEN 0 ELSE Unpacked(cells[i])]]
     ELSE [packed |-> FALSE, values |-> cells]

\* Mutant: DESC reverses NULL placement as well.
CmpAtReversed(kc, i, j, key) ==
  LET up == CASE kc.null[i] /\ kc.null[j] -> "Equal"
              [] kc.null[i] /\ ~kc.null[j] -> IF key.nullsFirst THEN "Less" ELSE "Greater"
              [] ~kc.null[i] /\ kc.null[j] -> IF key.nullsFirst THEN "Greater" ELSE "Less"
              [] OTHER -> Ord(kc.nums[i], kc.nums[j])
  IN IF ~kc.packed THEN CmpForSort(kc.values[i], kc.values[j], key.desc, key.nullsFirst)
     ELSE IF key.desc THEN Opposite(up) ELSE up

\* cmp_at, with null_ord: NULL placement is absolute.
CmpAt(kc, i, j, key) ==
  IF ~kc.packed THEN CmpForSort(kc.values[i], kc.values[j], key.desc, key.nullsFirst)
  ELSE CASE kc.null[i] /\ kc.null[j] -> "Equal"
         [] kc.null[i] /\ ~kc.null[j] -> IF key.nullsFirst THEN "Less" ELSE "Greater"
         [] ~kc.null[i] /\ kc.null[j] -> IF key.nullsFirst THEN "Greater" ELSE "Less"
         [] OTHER -> IF key.desc THEN Ord(kc.nums[j], kc.nums[i]) ELSE Ord(kc.nums[i], kc.nums[j])

ReadKeys ==
  /\ at = "sort" /\ OnKeys
  /\ keyCols' = [c \in Terms |-> ReadColumn(part.cols[c])]
  /\ at' = "keys"
  /\ UNCHANGED <<part, given, tape, perm, start, held, slot>>

KeyOrder ==
  [i \in DOMAIN part.tape |-> [j \in DOMAIN part.tape |->
     Lexicographic([c \in Terms |-> CmpAt(keyCols[c], i, j, part.keys[c])])]]

SortOnKeys ==
  /\ at = "keys"
  /\ perm' = Sorted(KeyOrder)
  /\ given' = [n |-> Length, tape |-> tape, perm |-> perm']
  /\ at' = "scan"
  /\ UNCHANGED <<part, keyCols, tape, start, held, slot>>

InPlaceMove == PermNext /\ UNCHANGED <<part, keyCols>>

Next == SortByCells \/ ReadKeys \/ SortOnKeys \/ InPlaceMove

Spec == Init /\ [][Next]_vars

----------------------------------------------------------------------------
\* Properties.

(***************************************************************************)
(* Type invariant: only tapes that a marked permutation can address are    *)
(* permuted, and only keys of fixed width are copied.                      *)
(***************************************************************************)
TypeOK ==
  /\ at \in {"sort", "keys", "scan", "walk", "done"}
  /\ DOMAIN tape = DOMAIN part.tape
  /\ at \in {"scan", "walk"} => PermTypeOK
  /\ \A c \in DOMAIN keyCols :
       \/ keyCols[c].packed
       \/ \A i \in DOMAIN part.tape : keyCols[c].values[i].k \notin {"Str", "List"}

\* The order, said once more and without the code: where a key stands on its axis.
Position(v) ==
  CASE v.k \in {"Int", "UInt"} -> v.n
    [] v.k = "Bool" -> IF v.b THEN 1 ELSE 0
    [] v.k = "Date" -> v.d
    [] v.k \in {"Timestamp", "Time"} -> v.t
    [] v.k = "Decimal" -> v.u
    [] v.k = "Interval" -> (v.mo * DaysPerMonth + v.d) * NanosPerDay + v.ns

Below(v, w) ==
  CASE v.k = "Str" -> StrOrd(v.s, w.s) = "Less"
    [] v.k = "Double" -> TotalCmp(v, w) = "Less"
    [] OTHER -> Position(v) < Position(w)

BeforeOn(v, w, key) ==
  IF Null \in {v, w} THEN v # w /\ (v = Null) = key.nullsFirst
  ELSE IF key.desc THEN Below(w, v) ELSE Below(v, w)

Before(a, b) ==
  LET V(c, row) == ValueAt(part.cols[c], row)
  IN \E c \in Terms :
       /\ BeforeOn(V(c, a), V(c, b), part.keys[c])
       /\ \A e \in 1..(c - 1) : ~BeforeOn(V(e, a), V(e, b), part.keys[e])
                                /\ ~BeforeOn(V(e, b), V(e, a), part.keys[e])

(***************************************************************************)
(* The tape comes out with the rows it went in with, in the order of the   *)
(* keys, with NULLs where NULLS FIRST or LAST puts them whatever the       *)
(* direction, and rows the keys do not tell apart in their input order.    *)
(* There is one such order, so the copied keys must give "the same total   *)
(* order cmp_cells implements": the path a tape takes does not show.       *)
(***************************************************************************)
SortedStable ==
  at = "done" =>
    /\ {tape[i] : i \in DOMAIN tape} = {part.tape[i] : i \in DOMAIN tape}
    /\ \A i, j \in DOMAIN tape : i < j =>
         Before(tape[i], tape[j]) \/ (~Before(tape[j], tape[i]) /\ tape[i] < tape[j])
=============================================================================
