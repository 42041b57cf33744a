----------------------------- MODULE MCGrouping -----------------------------
(***************************************************************************)
(* Relations of up to three rows with one key column, and of two rows with *)
(* two, over keys at the ends of their ranges; up to two shards, with      *)
(* every way the keys may hash.  An i64 has four bits.  A column that is   *)
(* not what it declares is one only VecRowStore can hold.                  *)
(***************************************************************************)
EXTENDS Grouping

MCUnitNanos == [Second |-> 4, Nano |-> 1]

\* Relations of up to n rows over the columns tys, with keys from keys.
Over(tys, keys, n) == {[tys |-> tys, rows |-> rs] : rs \in UNION {[1..k -> keys] : k \in 0..n}}

Ones(S) == {<<v>> : v \in S}
Pairs(S) == {<<v, w>> : v, w \in S}

Strings == {StrV(s) : s \in {<<>>, <<40>>, <<40, 40>>, <<Word("null")>>}}
Doubles == {DoubleV(h) : h \in {-1, 0, 1}} \cup {NaN}

MCKeyed ==
  UNION {
    Over(<<>>, {<<>>}, 3),
    Over(<<Scalar("Int64")>>, Ones({Null} \cup {IntV(n) : n \in {-8, 0, 7}}), 3),
    Over(<<Scalar("Int64")>>, Ones({Null, IntV(-8), UIntV(7), UIntV(8), IntV(7)}), 3),
    Over(<<Scalar("UInt64")>>, Ones({Null} \cup {UIntV(n) : n \in {0, 7, 8, 15}}), 3),
    Over(<<Scalar("Date")>>, Ones({Null, DateV(-4), DateV(3)}), 2),
    Over(<<TimestampT("Nano")>>, Ones({Null, TimestampV(-8, "Nano"), TimestampV(7, "Nano")}), 2),
    Over(<<Scalar("Varchar")>>, Ones(Strings \cup {Null}), 3),
    Over(<<Scalar("Double")>>, Ones(Doubles \cup {Null}), 3),
    Over(<<DecimalT(8, 1)>>, Ones({Null, DecimalV(-9, 1), DecimalV(9, 1)}), 2),
    Over(<<Scalar("Varchar"), Scalar("Varchar")>>, Pairs(Strings \cup {Null}), 2)}

\* What is proved of Plain relations is proved of these.
ASSUME PlainAssumption == \A g \in MCKeyed : Plain(g)

\* Strings with the characters write_key_part adds.
MCControl ==
  Over(<<Scalar("Varchar")>>, Ones({Null, StrV(<<Word("nul"), Word("null")>>)}), 2)

MCNaNs == Over(<<Scalar("Double")>>, Ones({DoubleV(0), NaN, NegNaN}), 2)
MCZeros == Over(<<Scalar("Double")>>, Ones({DoubleV(0), NegZero}), 2)
=============================================================================
