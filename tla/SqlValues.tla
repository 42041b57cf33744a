----------------------------- MODULE SqlValues -----------------------------
(***************************************************************************)
(* Runtime values and their operations: valops.rs, value.rs and the scalar *)
(* functions of scalar.rs.  Machine widths are constants, so that every    *)
(* boundary is a few steps away; 10^scale is Radix^scale.                  *)
(*                                                                         *)
(* A double is a number of halves, rounded to Mantissa significant bits    *)
(* (to even), or a negative zero, or a NaN of either sign; infinities are  *)
(* left out.  A string is a sequence of characters, a character a number;  *)
(* the decimal digits of an integer are one character.  Err stands for any *)
(* MrError: the program never looks inside one.                            *)
(***************************************************************************)
EXTENDS Integers, Sequences, FiniteSetsExt

CONSTANTS
  Bits32, Bits64, Bits128,  \* widths of i32, of i64 and u64, and of i128
  Mantissa,                 \* significant bits of an f64
  UnitNanos,                \* nanoseconds per tick, for each time unit
  NanosPerDay, DaysPerMonth,
  Radix

Signed(bits) == -(2^(bits - 1))..(2^(bits - 1) - 1)
I32  == Signed(Bits32)
I64  == Signed(Bits64)
U64  == 0..(2^Bits64 - 1)
I128 == Signed(Bits128)

Wrap(x, bits) == ((x + 2^(bits - 1)) % 2^bits) - 2^(bits - 1)
Clamp(x, S) == IF x < Min(S) THEN Min(S) ELSE IF x > Max(S) THEN Max(S) ELSE x

Magnitude(x) == IF x < 0 THEN -x ELSE x
Signum(x) == IF x < 0 THEN -1 ELSE IF x = 0 THEN 0 ELSE 1
Quot(x, y) == Signum(x) * Signum(y) * (Magnitude(x) \div Magnitude(y))
Rem(x, y) == x - y * Quot(x, y)

----------------------------------------------------------------------------
\* The values.

Null == [k |-> "Null"]
Err == [k |-> "Err"]
BoolV(b) == [k |-> "Bool", b |-> b]
IntV(n) == [k |-> "Int", n |-> n]
UIntV(n) == [k |-> "UInt", n |-> n]
HugeV(n) == [k |-> "HugeInt", n |-> n]
DecimalV(u, sc) == [k |-> "Decimal", u |-> u, sc |-> sc]
StrV(s) == [k |-> "Str", s |-> s]
DateV(d) == [k |-> "Date", d |-> d]
TimestampV(t, unit) == [k |-> "Timestamp", t |-> t, unit |-> unit]
TimeV(t, unit) == [k |-> "Time", t |-> t, unit |-> unit]
IntervalV(mo, d, ns) == [k |-> "Interval", mo |-> mo, d |-> d, ns |-> ns]
ListV(items) == [k |-> "List", items |-> items]

\* Halves h rounded to the nearest number with Mantissa significant bits.
HalfEven(q, r, ulp) == ulp * (IF 2 * r > ulp \/ (2 * r = ulp /\ q % 2 = 1) THEN q + 1 ELSE q)
Ulp(m) == 2^(CHOOSE x \in 0..(4 * Bits128) : m < 2^(Mantissa + x) /\ (x = 0 \/ m >= 2^(Mantissa + x - 1)))
Nearest(m, ulp) == HalfEven(m \div ulp, m % ulp, ulp)
Rounded(h) == Signum(h) * Nearest(Magnitude(h), Ulp(Magnitude(h)))

DoubleV(h) == [k |-> "Double", cls |-> "num", h |-> Rounded(h)]
NegZero == [k |-> "Double", cls |-> "negzero", h |-> 0]
NaN == [k |-> "Double", cls |-> "nan", h |-> 0]
NegNaN == [k |-> "Double", cls |-> "negnan", h |-> 0]
IsNaN(v) == v.k = "Double" /\ v.cls \in {"nan", "negnan"}

Pow10(sc) == IF sc <= 0 THEN 1 ELSE Radix^sc

IsInteger(v) == v.k \in {"Int", "UInt", "HugeInt"}

\* The nearest half to 2 * x / y: a quotient as a double.
Halves(x, y) == (4 * x * Signum(y) + Magnitude(y)) \div (2 * Magnitude(y))

\* as_bool and as_f64; Null is their None.
AsBool(v) ==
  CASE v.k = "Bool" -> v
    [] v.k \in {"Int", "UInt"} -> BoolV(v.n # 0)
    [] OTHER -> Null

AsF64(v) ==
  CASE v.k = "Double" -> v
    [] IsInteger(v) \/ v.k = "Decimal" -> DoubleV(IF IsInteger(v) THEN 2 * v.n ELSE Halves(v.u, Radix^v.sc))
    [] OTHER -> Null

----------------------------------------------------------------------------
\* Comparison.

Ord(x, y) == IF x < y THEN "Less" ELSE IF x = y THEN "Equal" ELSE "Greater"
Opposite(ord) == CASE ord = "Less" -> "Greater" [] ord = "Greater" -> "Less" [] OTHER -> ord

StrOrd(s, t) ==
  LET D == {i \in DOMAIN s \cap DOMAIN t : s[i] # t[i]}
  IN IF D = {} THEN Ord(Len(s), Len(t)) ELSE Ord(s[Min(D)], t[Min(D)])

\* Mutant: ticks are compared whatever their unit.
NanosOfTicks(v) == v.t

Nanos(v) == v.t * UnitNanos[v.unit]

IntervalNanos(v) == (v.mo * DaysPerMonth + v.d) * NanosPerDay + v.ns

CmpInts(a, b) == IF IsInteger(a) /\ IsInteger(b) THEN Ord(a.n, b.n) ELSE "None"

PartialCmp(x, y) == IF Null \in {x, y} \/ IsNaN(x) \/ IsNaN(y) THEN "None" ELSE Ord(x.h, y.h)

\* f64::total_cmp
TotalCmp(x, y) ==
  LET \* strictly between the finite neighbours of zero
      Rank(d) == CASE d.cls = "negnan" -> -(2^(Bits128 + 2))
                   [] d.cls = "nan" -> 2^(Bits128 + 2)
                   [] d.cls = "negzero" -> -1
                   [] OTHER -> 2 * d.h
  IN Ord(Rank(x), Rank(y))

\* SQL comparison; "None" is unordered.
Compare(a, b) ==
  IF Null \in {a, b} THEN "None"
  ELSE IF a.k # b.k \/ a.k \in {"Int", "UInt", "HugeInt", "Double", "Decimal", "List"}
       THEN IF IsInteger(a) /\ IsInteger(b) THEN CmpInts(a, b) ELSE PartialCmp(AsF64(a), AsF64(b))
  ELSE CASE a.k = "Str" -> StrOrd(a.s, b.s)
         [] a.k = "Bool" -> Ord(IF a.b THEN 1 ELSE 0, IF b.b THEN 1 ELSE 0)
         [] a.k = "Date" -> Ord(a.d, b.d)
         [] a.k = "Interval" -> Ord(IntervalNanos(a), IntervalNanos(b))
         [] a.k \in {"Timestamp", "Time"} ->
              IF a.unit = b.unit THEN Ord(a.t, b.t) ELSE Ord(Nanos(a), Nanos(b))

\* Mutant: integers are sorted through f64.
CmpPresentFloat(a, b) ==
  IF a.k = "Decimal" /\ b.k = "Decimal" /\ a.sc = b.sc THEN Ord(a.u, b.u)
  ELSE IF Null \notin {AsF64(a), AsF64(b)} THEN TotalCmp(AsF64(a), AsF64(b))
  ELSE IF Compare(a, b) = "None" THEN "Equal" ELSE Compare(a, b)

\* The total order of ORDER BY on values that are present.
CmpPresent(a, b) ==
  IF IsInteger(a) /\ IsInteger(b) THEN CmpInts(a, b)
  ELSE IF a.k = "Decimal" /\ b.k = "Decimal" /\ a.sc = b.sc THEN Ord(a.u, b.u)
  ELSE IF Null \notin {AsF64(a), AsF64(b)} THEN TotalCmp(AsF64(a), AsF64(b))
  ELSE IF Compare(a, b) = "None" THEN "Equal" ELSE Compare(a, b)

\* Mutant: DESC reverses the whole comparison, NULLs included.
CmpForSortReversed(a, b, desc, nullsFirst) ==
  LET up == CASE a = Null /\ b = Null -> "Equal"
              [] a = Null /\ b # Null -> IF nullsFirst THEN "Less" ELSE "Greater"
              [] a # Null /\ b = Null -> IF nullsFirst THEN "Greater" ELSE "Less"
              [] OTHER -> CmpPresent(a, b)
  IN IF desc THEN Opposite(up) ELSE up

CmpForSort(a, b, desc, nullsFirst) ==
  CASE a = Null /\ b = Null -> "Equal"
    [] a = Null /\ b # Null -> IF nullsFirst THEN "Less" ELSE "Greater"
    [] a # Null /\ b = Null -> IF nullsFirst THEN "Greater" ELSE "Less"
    [] OTHER -> IF desc THEN Opposite(CmpPresent(a, b)) ELSE CmpPresent(a, b)

----------------------------------------------------------------------------
\* Three-valued logic and comparison operators.

True == BoolV(TRUE)
False == BoolV(FALSE)

LogicAnd(l, r) ==
  CASE False \in {AsBool(l), AsBool(r)} -> False
    [] {AsBool(l), AsBool(r)} = {True} -> True
    [] OTHER -> Null

LogicOr(l, r) ==
  CASE True \in {AsBool(l), AsBool(r)} -> True
    [] {AsBool(l), AsBool(r)} = {False} -> False
    [] OTHER -> Null

LogicNot(v) == IF AsBool(v) = Null THEN Null ELSE BoolV(~AsBool(v).b)

\* The orderings for which each comparison holds.
Holds == [Eq |-> {"Equal"}, Ne |-> {"Less", "Greater"}, Lt |-> {"Less"},
          Le |-> {"Less", "Equal"}, Gt |-> {"Greater"}, Ge |-> {"Greater", "Equal"}]

Answer(op, ord) == IF ord = "None" THEN Null ELSE BoolV(ord \in Holds[op])
CompareOp(op, l, r) == Answer(op, Compare(l, r))

\* BETWEEN and its negation.
Flip(v, negated) == IF AsBool(v) = Null THEN Null ELSE BoolV(AsBool(v).b # negated)

Between(v, lo, hi, negated) == Flip(LogicAnd(CompareOp("Ge", v, lo), CompareOp("Le", v, hi)), negated)

----------------------------------------------------------------------------
\* Rendering.  Digits(n) is the character that stands for the digits of n, no other's.

Digits(n) == 1000 + (IF n < 0 THEN -(2 * n) - 1 ELSE 2 * n)
NumberOf(c) == IF c % 2 = 0 THEN (c - 1000) \div 2 ELSE -((c - 999) \div 2)
Word(w) == [null |-> 1, true |-> 2, false |-> 3, date |-> 4, ts |-> 5, time |-> 6, nan |-> 7,
            minus |-> 8, point |-> 9, open |-> 10, close |-> 11, comma |-> 12, unit |-> 13,
            nul |-> 14, sep |-> 15][w]

\* Of a value that is not a list.
RenderScalar(v) ==
  CASE v.k = "Null" -> <<>>
    [] v.k = "Str" -> v.s
    [] v.k = "Bool" -> <<Word(IF v.b THEN "true" ELSE "false")>>
    [] IsInteger(v) -> <<Digits(v.n)>>
    [] v.k = "Decimal" -> <<Digits(v.u), Word("point"), Digits(v.sc)>>
    [] v.k = "Double" -> CASE IsNaN(v) -> <<Word("nan")>>
                           [] v.cls = "negzero" -> <<Word("minus"), Digits(0)>>
                           [] OTHER -> IF v.h % 2 = 1
                                       THEN <<Digits(v.h \div 2), Word("point"), Digits(5)>>
                                       ELSE <<Digits(v.h \div 2)>>
    [] v.k = "Date" -> <<Word("date"), Digits(v.d)>>
    [] v.k = "Timestamp" -> <<Word("ts"), Digits(v.t)>>
    [] v.k = "Time" -> <<Word("time"), Digits(v.t)>>
    [] v.k = "Interval" -> <<Digits(v.mo), Word("unit"), Digits(v.d), Word("unit"), Digits(v.ns)>>

----------------------------------------------------------------------------
\* Arithmetic.

IntervalIn(i, unit) == Quot(IntervalNanos(i), UnitNanos[unit])
IntervalInDays(i) == i.mo * DaysPerMonth + i.d + Quot(i.ns, NanosPerDay)

TsShift(v, i, sign) ==
  LET out == v.t + sign * IntervalIn(i, v.unit)
  IN IF out \in I64 THEN TimestampV(out, v.unit) ELSE Err

\* Mutant: out of range wraps.
DateShiftWrapped(v, i, sign) == DateV(Wrap(v.d + sign * IntervalInDays(i), Bits32))

DateShift(v, i, sign) ==
  LET out == v.d + sign * IntervalInDays(i)
  IN IF out \in I32 THEN DateV(out) ELSE Err

TsDiff(a, b) ==
  LET nanos == Nanos(a) - Nanos(b)
      days == Quot(nanos, NanosPerDay)
  IN CASE nanos \in I64 -> IntervalV(0, 0, nanos)
       [] nanos \notin I64 /\ days \in I32 -> IntervalV(0, days, Rem(nanos, NanosPerDay))
       [] OTHER -> Err

DateDiff(a, b) == IntervalV(0, Wrap(a.d - b.d, Bits32), 0)
TimeDiff(a, b) == IntervalV(0, 0, Wrap(Nanos(a) - Nanos(b), Bits64))

\* The operand kinds temporal_arith recognises, and what it computes for each.
IsTemporalArith(op, l, r) ==
  <<op, l.k, r.k>> \in { <<"Add", "Timestamp", "Interval">>, <<"Add", "Interval", "Timestamp">>,
                         <<"Sub", "Timestamp", "Interval">>, <<"Add", "Date", "Interval">>,
                         <<"Add", "Interval", "Date">>, <<"Sub", "Date", "Interval">>,
                         <<"Sub", "Timestamp", "Timestamp">>, <<"Sub", "Date", "Date">>,
                         <<"Sub", "Time", "Time">> }

TemporalArith(op, l, r) ==
  LET sign == IF op = "Add" THEN 1 ELSE -1
      moment == IF l.k = "Interval" THEN r ELSE l
      by == IF l.k = "Interval" THEN l ELSE r
  IN CASE by.k = "Interval" /\ moment.k = "Timestamp" -> TsShift(moment, by, sign)
       [] by.k = "Interval" /\ moment.k = "Date" -> DateShift(moment, by, sign)
       [] by.k = "Timestamp" -> TsDiff(l, r)
       [] by.k = "Date" -> DateDiff(l, r)
       [] by.k = "Time" -> TimeDiff(l, r)

IntegerArith(op, x, y) ==
  LET out == CASE op = "Add" -> x + y
               [] op = "Sub" -> x - y
               [] op = "Mul" -> x * y
               [] op = "Mod" -> Rem(x, y)
  IN CASE op \in {"Mod", "Div"} /\ y = 0 -> Null
       [] op = "Div" /\ y # 0 -> DoubleV(Halves(x, y))
       [] OTHER -> CASE out \in I64 -> IntV(out)
                     [] out \in I128 \ I64 -> HugeV(out)
                     [] OTHER -> Err

FloatArith(op, x, y) ==
  LET out == CASE op = "Add" -> x.h + y.h
               [] op = "Sub" -> x.h - y.h
               [] op = "Mul" -> Quot(x.h * y.h, 2)
               [] op = "Div" -> Halves(x.h, y.h)
               [] op = "Mod" -> Rem(x.h, y.h)
  IN IF Null \in {x, y} THEN Err
     ELSE IF op \in {"Mod", "Div"} /\ y.h = 0 /\ ~IsNaN(y) THEN Null
     ELSE IF IsNaN(x) \/ IsNaN(y) THEN NaN
     ELSE DoubleV(out)

Arith(op, l, r) ==
  CASE Null \in {l, r} -> Null
    [] IsTemporalArith(op, l, r) -> TemporalArith(op, l, r)
    [] IsInteger(l) /\ IsInteger(r) -> IntegerArith(op, l.n, r.n)
    [] OTHER -> FloatArith(op, AsF64(l), AsF64(r))

\* Unary minus: i64 and i128 wrap, as the release profile has no overflow checks.
Negate(v) ==
  CASE v = Null -> Null
    [] v.k = "Int" -> IntV(Wrap(-v.n, Bits64))
    [] v.k = "UInt" -> HugeV(-v.n)
    [] v.k = "HugeInt" -> HugeV(Wrap(-v.n, Bits128))
    [] v.k = "Decimal" -> DecimalV(Wrap(-v.u, Bits128), v.sc)
    [] v = NaN -> NegNaN
    [] v = NegNaN -> NaN
    [] v.k = "Double" -> IF v.cls = "num" /\ v.h = 0 THEN NegZero ELSE DoubleV(-v.h)
    [] OTHER -> Err

----------------------------------------------------------------------------
\* Casts.  A type is a record as well; see SqlTypes.

\* f64 -> integer: towards zero, saturating, NaN is 0.
FloatTo(v, S) == Clamp(Quot(v.h, 2), S)

\* str::parse, of digits and nothing else
IsNumeral(s, S) == Len(s) = 1 /\ s[1] >= 1000 /\ NumberOf(s[1]) \in S

ToInt64(v) ==
  CASE v.k = "Int" -> v
    [] v.k \in {"UInt", "HugeInt"} -> IntV(Wrap(v.n, Bits64))
    [] v.k = "Double" -> IntV(FloatTo(v, I64))
    [] v.k = "Decimal" -> IntV(Wrap(Quot(v.u, Pow10(v.sc)), Bits64))
    [] v.k = "Bool" -> IntV(IF v.b THEN 1 ELSE 0)
    [] v.k = "Str" -> IF IsNumeral(v.s, I64) THEN IntV(NumberOf(v.s[1])) ELSE Err
    [] OTHER -> Err

\* Mutant: an integer is cut to its low bits.
ToUInt64Cut(v) ==
  CASE IsInteger(v) -> UIntV(v.n % 2^Bits64)
    [] v.k = "Bool" -> UIntV(IF v.b THEN 1 ELSE 0)
    [] OTHER -> Err

ToUInt64(v) ==
  CASE v.k = "UInt" -> v
    [] v.k \in {"Int", "HugeInt"} -> IF v.n \in U64 THEN UIntV(v.n) ELSE Err
    [] v.k = "Double" ->
         IF ~IsNaN(v) /\ v.h >= 0 /\ v.h <= AsF64(UIntV(Max(U64))).h THEN UIntV(FloatTo(v, U64)) ELSE Err
    [] v.k = "Bool" -> UIntV(IF v.b THEN 1 ELSE 0)
    [] v.k = "Str" -> IF IsNumeral(v.s, U64) THEN UIntV(NumberOf(v.s[1])) ELSE Err
    [] OTHER -> Err

ToHugeInt(v) ==
  CASE IsInteger(v) -> HugeV(v.n)
    [] ~IsInteger(v) /\ AsF64(v) # Null -> HugeV(FloatTo(AsF64(v), I128))
    [] OTHER -> Err

\* (f * 10^sc).round(), half away from zero
ToDecimal(v, sc) ==
  LET f == AsF64(v)
      scaled == Rounded(f.h * Radix^sc)
  IN IF f = Null THEN Err
     ELSE DecimalV(Clamp(Signum(scaled) * ((Magnitude(scaled) + 1) \div 2), I128), sc)

----------------------------------------------------------------------------
\* Scalar functions.

\* Rounding to an integer: of n / d, d > 0.
RoundTo(name, n, d) ==
  LET q == Quot(n, d)
      r == Rem(n, d)
  IN CASE name = "ceil" -> IF r > 0 THEN q + 1 ELSE q
       [] name = "floor" -> IF r < 0 THEN q - 1 ELSE q
       [] name = "round" -> IF 2 * Magnitude(r) >= d THEN q + Signum(r) ELSE q

Sqrt(v) ==
  CASE IsNaN(v) \/ v.h < 0 -> NaN
    [] OTHER -> DoubleV(CHOOSE r \in 0..(2 * v.h) : r * r <= 2 * v.h /\ (r + 1) * (r + 1) > 2 * v.h)

NumericFn(name, v) ==
  CASE name = "abs" /\ v.k = "Int" -> IntV(Wrap(Magnitude(v.n), Bits64))
    [] name = "abs" /\ v.k = "HugeInt" -> HugeV(Wrap(Magnitude(v.n), Bits128))
    [] name = "abs" /\ v.k = "Double" -> IF IsNaN(v) THEN NaN ELSE DoubleV(Magnitude(v.h))
    [] name = "abs" /\ v.k = "Decimal" -> DecimalV(Wrap(Magnitude(v.u), Bits128), v.sc)
    [] name = "sqrt" -> IF AsF64(v) = Null THEN Err ELSE Sqrt(AsF64(v))
    [] name \in {"ceil", "floor", "round"} /\ v.k = "Double" ->
         IF IsNaN(v) THEN v ELSE DoubleV(2 * RoundTo(name, v.h, 2))
    [] name \in {"ceil", "floor", "round"} /\ v.k = "Decimal" ->
         DecimalV(RoundTo(name, v.u, Pow10(v.sc)) * Pow10(v.sc), v.sc)
    [] name # "sqrt" /\ (v.k = "UInt" \/ (name # "abs" /\ IsInteger(v))) -> v
    [] OTHER -> Err

\* The values of args that are not NULL, folded from the left by Better.
Extreme(args, better) ==
  LET Present == SelectSeq(args, LAMBDA v : v # Null)
      Best[i \in 0..Len(Present)] ==
        IF i <= 1 THEN (IF i = 0 THEN Null ELSE Present[1])
        ELSE IF Compare(Present[i], Best[i - 1]) = better THEN Present[i] ELSE Best[i - 1]
  IN Best[Len(Present)]

Variadic(name, args) ==
  CASE name = "coalesce" -> IF \A i \in DOMAIN args : args[i] = Null THEN Null
                            ELSE args[Min({i \in DOMAIN args : args[i] # Null})]
    [] name = "greatest" -> Extreme(args, "Greater")
    [] name = "least" -> Extreme(args, "Less")

Call(name, args) ==
  CASE name \in {"coalesce", "greatest", "least"} -> Variadic(name, args)
    [] name = "nullif" -> IF Compare(args[1], args[2]) = "Equal" THEN Null ELSE args[1]
    [] name \in {"abs", "sqrt", "ceil", "floor", "round"} ->
         IF args[1] = Null THEN Null ELSE NumericFn(name, args[1])
    [] name = "length" -> CASE args[1] = Null -> Null
                            [] args[1].k = "Str" -> IntV(Len(args[1].s))
                            [] OTHER -> Err
=============================================================================
