------------------------- MODULE UnificationProofs -------------------------
(***************************************************************************)
(* For every list of argument types, of any length and with decimals of    *)
(* any precision and scale, the fold of unify answers the join of the set  *)
(* of those types: the order of the arguments is invisible.                *)
(***************************************************************************)
EXTENDS Unification, TLAPS

(***************************************************************************)
(* NULL joins to the other type, and a type to itself.                     *)
(***************************************************************************)
LEMMA JoinNull ==
  ASSUME NEW s, NEW t
  PROVE  /\ Join(NullT, t) = t
         /\ Join(s, NullT) = s
         /\ Join(s, s) = s
  BY DEF Join

(***************************************************************************)
(* The join of two different types, neither of them NULL, by their kinds.  *)
(***************************************************************************)
LEMMA JoinTable ==
  ASSUME NEW s, NEW t, IsType(s), IsType(t), s # NullT, t # NullT, s # t
  PROVE  /\ s.k = "Decimal" /\ t.k = "Decimal" => Join(s, t) = DecimalT(Larger(s.p, t.p), Larger(s.sc, t.sc))
         /\ s.k = "Decimal" /\ t.k \in Integers64 => Join(s, t) = DecimalT(Larger(s.p, IntHeadroom), s.sc)
         /\ s.k \in Integers64 /\ t.k = "Decimal" => Join(s, t) = DecimalT(Larger(t.p, IntHeadroom), t.sc)
         /\ s.k \in Integers64 /\ t.k \in Integers64 => Join(s, t) = Scalar("HugeInt")
         /\ s.k = "Double" /\ IsNumeric(t) => Join(s, t) = Scalar("Double")
         /\ t.k = "Double" /\ IsNumeric(s) => Join(s, t) = Scalar("Double")
         /\ ~IsNumeric(s) \/ ~IsNumeric(t) => Join(s, t) = NoType
  <1>1. s.k = "Decimal" /\ t.k = "Decimal" => Join(s, t) = DecimalT(Larger(s.p, t.p), Larger(s.sc, t.sc))
    BY DEF Join, WiderDecimal
  <1>2. s.k = "Decimal" /\ t.k \in Integers64 => Join(s, t) = DecimalT(Larger(s.p, IntHeadroom), s.sc)
    BY DEF Join, Integers64, WithHeadroom
  <1>3. s.k \in Integers64 /\ t.k = "Decimal" => Join(s, t) = DecimalT(Larger(t.p, IntHeadroom), t.sc)
    BY DEF Join, Integers64, WithHeadroom
  <1>4. s.k \in Integers64 /\ t.k \in Integers64 => Join(s, t) = Scalar("HugeInt")
    BY DEF Join, Integers64, UnsignedJoin, Ranked, Higher, IsType, Scalar, Rank
  <1>5. s.k = "Double" /\ IsNumeric(t) => Join(s, t) = Scalar("Double")
    BY DEF Join, Integers64, IsNumeric, UnsignedJoin, Ranked, Higher, IsType, Scalar, Rank
  <1>6. t.k = "Double" /\ IsNumeric(s) => Join(s, t) = Scalar("Double")
    BY DEF Join, Integers64, IsNumeric, UnsignedJoin, Ranked, Higher, IsType, Scalar, Rank
  <1>7. ~IsNumeric(s) \/ ~IsNumeric(t) => Join(s, t) = NoType
    BY DEF Join, Integers64, IsNumeric, UnsignedJoin, Ranked, Rank
  <1>. QED
    BY <1>1, <1>2, <1>3, <1>4, <1>5, <1>6, <1>7

(***************************************************************************)
(* The join of two types is a type, or there is none.                      *)
(***************************************************************************)
LEMMA JoinTyped ==
  ASSUME NEW s, NEW t, IsType(s), IsType(t)
  PROVE  IsType(Join(s, t)) \/ Join(s, t) = NoType
  <1>1. CASE s = NullT \/ t = NullT \/ s = t
    BY <1>1, JoinNull
  <1>2. CASE s # NullT /\ t # NullT /\ s # t
    <2>1. CASE ~IsNumeric(s) \/ ~IsNumeric(t)
      BY <1>2, <2>1, JoinTable
    <2>2. CASE IsNumeric(s) /\ IsNumeric(t)
      <3>1. IsType(Scalar("HugeInt")) /\ IsType(Scalar("Double"))
        BY DEF IsType, Scalar
      <3>2. s.k = "Decimal" => s.p \in Nat /\ s.sc \in Nat
        BY DEF IsType, Scalar
      <3>3. t.k = "Decimal" => t.p \in Nat /\ t.sc \in Nat
        BY DEF IsType, Scalar
      <3>4. \A p, sc \in Nat : IsType(DecimalT(p, sc))
        BY DEF IsType, DecimalT
      <3>5. \A x, y \in Nat : Larger(x, y) \in Nat
        BY DEF Larger
      <3>6. CASE s.k = "Decimal" /\ t.k = "Decimal"
        <4>1. Larger(s.p, t.p) \in Nat /\ Larger(s.sc, t.sc) \in Nat
          BY <3>2, <3>3, <3>5, <3>6
        <4>. QED
          BY <1>2, <3>4, <3>6, <4>1, JoinTable
      <3>7. CASE s.k = "Decimal" /\ t.k \in Integers64
        <4>1. Larger(s.p, IntHeadroom) \in Nat
          BY <3>2, <3>5, <3>7, UnificationAssumption
        <4>. QED
          BY <1>2, <3>2, <3>4, <3>7, <4>1, JoinTable
      <3>8. CASE s.k \in Integers64 /\ t.k = "Decimal"
        <4>1. Larger(t.p, IntHeadroom) \in Nat
          BY <3>3, <3>5, <3>8, UnificationAssumption
        <4>. QED
          BY <1>2, <3>3, <3>4, <3>8, <4>1, JoinTable
      <3>9. CASE s.k \in Integers64 /\ t.k \in Integers64
        BY <1>2, <3>1, <3>9, JoinTable
      <3>10. CASE "Double" \in {s.k, t.k}
        BY <1>2, <2>2, <3>1, <3>10, JoinTable
      <3>. QED
        BY <2>2, <3>6, <3>7, <3>8, <3>9, <3>10 DEF IsNumeric, Integers64
    <2>. QED
      BY <2>1, <2>2
  <1>. QED
    BY <1>1, <1>2

(***************************************************************************)
(* Different numbers, none of them DOUBLE or a decimal, are integers.      *)
(***************************************************************************)
LEMMA NumbersMixed ==
  ASSUME NEW S, \A s \in S : IsType(s), Mixed(S), Numeric(S),
         Scalar("Double") \notin S, Decimals(S) = {}
  PROVE  HasInteger(S)
  <1>1. PICK s \in S : s # NullT
    BY DEF Mixed
  <1>2. IsNumeric(s) /\ s.k # "Decimal" /\ s.k # "Double"
    BY <1>1 DEF Numeric, NumericOrNull, Decimals, IsType, Scalar
  <1>. QED
    BY <1>2 DEF HasInteger, IsNumeric, Integers64

(***************************************************************************)
(* Joining one more type to the join of a set is the join of the set with  *)
(* that type added.                                                        *)
(***************************************************************************)
LEMMA JoinExtends ==
  ASSUME NEW S, \A s \in S : IsType(s),
         NEW a, IsType(a), IsJoin(S, a),
         NEW t, IsType(t)
  PROVE  IsJoin(S \cup {t}, Join(a, t))
  <1>. DEFINE U == S \cup {t}
  <1>1. CASE t = NullT
    <2>1. Join(a, t) = a
      BY <1>1, JoinNull
    <2>2. NumericOrNull(NullT) /\ NullT.k # "Decimal" /\ NullT.k \notin Integers64 /\ NullT # Scalar("Double")
      BY DEF NumericOrNull, NullT, Scalar, Integers64
    <2>3. /\ Numeric(U) <=> Numeric(S)
          /\ Mixed(U) <=> Mixed(S)
          /\ Decimals(U) = Decimals(S)
          /\ HasInteger(U) <=> HasInteger(S)
          /\ Scalar("Double") \in U <=> Scalar("Double") \in S
      BY <1>1, <2>2 DEF Numeric, Mixed, Decimals, HasInteger
    <2>4. IsWidest(S, a) => IsWidest(U, a)
      BY <2>3 DEF IsWidest
    <2>. QED
      BY <1>1, <2>1, <2>3, <2>4 DEF IsJoin
  <1>2. CASE S \subseteq {NullT} /\ a = NullT /\ t # NullT
    BY <1>2, JoinNull DEF IsJoin
  <1>3. CASE a \in S /\ a # NullT /\ S \subseteq {a, NullT} /\ t = a
    BY <1>3, JoinNull DEF IsJoin
  <1>4. CASE a \in S /\ a # NullT /\ S \subseteq {a, NullT} /\ t # a /\ t # NullT
    <2>1. Mixed(U)
      BY <1>4 DEF Mixed
    <2>2. CASE ~IsNumeric(a) \/ ~IsNumeric(t)
      <3>1. ~Numeric(U)
        BY <1>4, <2>2 DEF Numeric, NumericOrNull
      <3>. QED
        BY <1>4, <2>1, <2>2, <3>1, JoinTable DEF IsJoin
    <2>3. CASE IsNumeric(a) /\ IsNumeric(t)
      <3>1. Numeric(U)
        BY <1>4, <2>3 DEF Numeric, NumericOrNull
      <3>2. U \subseteq {a, t, NullT} /\ a \in U /\ t \in U
        BY <1>4
      <3>3. NullT.k # "Decimal" /\ NullT.k \notin Integers64 /\ NullT # Scalar("Double")
        BY DEF NullT, Scalar, Integers64
      <3>4. CASE "Double" \in {a.k, t.k}
        <4>1. Scalar("Double") \in U
          BY <3>2, <3>4 DEF IsType, Scalar
        <4>2. Join(a, t) = Scalar("Double")
          BY <1>4, <2>3, <3>4, JoinTable
        <4>. QED
          BY <2>1, <3>1, <4>1, <4>2 DEF IsJoin
      <3>5. CASE a.k \in Integers64 /\ t.k \in Integers64
        <4>1. Scalar("Double") \notin U /\ Decimals(U) = {}
          BY <3>2, <3>3, <3>5 DEF Decimals, Integers64, Scalar
        <4>2. Join(a, t) = Scalar("HugeInt")
          BY <1>4, <3>5, JoinTable
        <4>. QED
          BY <2>1, <3>1, <4>1, <4>2 DEF IsJoin
      <3>6. CASE "Decimal" \in {a.k, t.k} /\ "Double" \notin {a.k, t.k}
        <4>1. Scalar("Double") \notin U /\ Decimals(U) # {}
          BY <3>2, <3>3, <3>6 DEF Decimals, Scalar
        <4>2. IsWidest(U, Join(a, t))
          <5>1. CASE a.k = "Decimal" /\ t.k = "Decimal"
            <6>1. Join(a, t) = DecimalT(Larger(a.p, t.p), Larger(a.sc, t.sc))
              BY <1>4, <5>1, JoinTable
            <6>2. Decimals(U) = {a, t} /\ ~HasInteger(U)
              BY <3>2, <3>3, <5>1 DEF Decimals, HasInteger, Integers64
            <6>3. a.p \in Nat /\ a.sc \in Nat /\ t.p \in Nat /\ t.sc \in Nat
              BY <5>1 DEF IsType, Scalar
            <6>. QED
              BY <6>1, <6>2, <6>3 DEF IsWidest, DecimalT, Larger
          <5>2. CASE a.k = "Decimal" /\ t.k \in Integers64
            <6>1. Join(a, t) = DecimalT(Larger(a.p, IntHeadroom), a.sc)
              BY <1>4, <5>2, JoinTable
            <6>2. Decimals(U) = {a} /\ HasInteger(U)
              BY <3>2, <3>3, <5>2 DEF Decimals, HasInteger, Integers64
            <6>3. a.p \in Nat /\ a.sc \in Nat
              BY <5>2 DEF IsType, Scalar
            <6>. QED
              BY <6>1, <6>2, <6>3, UnificationAssumption DEF IsWidest, DecimalT, Larger
          <5>3. CASE a.k \in Integers64 /\ t.k = "Decimal"
            <6>1. Join(a, t) = DecimalT(Larger(t.p, IntHeadroom), t.sc)
              BY <1>4, <5>3, JoinTable
            <6>2. Decimals(U) = {t} /\ HasInteger(U)
              BY <3>2, <3>3, <5>3 DEF Decimals, HasInteger, Integers64
            <6>3. t.p \in Nat /\ t.sc \in Nat
              BY <5>3 DEF IsType, Scalar
            <6>. QED
              BY <6>1, <6>2, <6>3, UnificationAssumption DEF IsWidest, DecimalT, Larger
          <5>. QED
            BY <2>3, <3>6, <5>1, <5>2, <5>3 DEF IsNumeric, Integers64
        <4>. QED
          BY <2>1, <3>1, <4>1, <4>2 DEF IsJoin
      <3>. QED
        BY <2>3, <3>4, <3>5, <3>6 DEF IsNumeric, Integers64
    <2>. QED
      BY <2>2, <2>3
  <1>5. CASE Mixed(S) /\ Numeric(S) /\ Scalar("Double") \in S /\ a = Scalar("Double") /\ t # NullT
    <2>1. Mixed(U) /\ Scalar("Double") \in U
      BY <1>5 DEF Mixed
    <2>2. a.k = "Double" /\ IsNumeric(a) /\ a # NullT
      BY <1>5 DEF Scalar, IsNumeric, NullT
    <2>3. CASE IsNumeric(t)
      <3>1. Numeric(U)
        BY <1>5, <2>3 DEF Numeric, NumericOrNull
      <3>2. Join(a, t) = Scalar("Double")
        BY <1>5, <2>2, <2>3, JoinNull, JoinTable
      <3>. QED
        BY <2>1, <3>1, <3>2 DEF IsJoin
    <2>4. CASE ~IsNumeric(t)
      <3>1. ~Numeric(U)
        BY <1>5, <2>4 DEF Numeric, NumericOrNull
      <3>2. Join(a, t) = NoType
        BY <1>5, <2>2, <2>4, JoinTable
      <3>. QED
        BY <2>1, <3>1, <3>2 DEF IsJoin
    <2>. QED
      BY <2>3, <2>4
  <1>6. CASE Mixed(S) /\ Numeric(S) /\ Scalar("Double") \notin S /\ Decimals(S) = {} /\ a = Scalar("HugeInt") /\ t # NullT
    <2>1. Mixed(U)
      BY <1>6 DEF Mixed
    <2>2. a.k = "HugeInt" /\ a.k \in Integers64 /\ IsNumeric(a) /\ a # NullT
      BY <1>6 DEF Scalar, IsNumeric, NullT, Integers64
    <2>3. CASE ~IsNumeric(t)
      <3>1. ~Numeric(U)
        BY <1>6, <2>3 DEF Numeric, NumericOrNull
      <3>2. Join(a, t) = NoType
        BY <1>6, <2>2, <2>3, JoinTable
      <3>. QED
        BY <2>1, <3>1, <3>2 DEF IsJoin
    <2>4. CASE t.k = "Double"
      <3>1. t = Scalar("Double") /\ IsNumeric(t)
        BY <2>4 DEF IsType, Scalar, IsNumeric
      <3>2. Numeric(U)
        BY <1>6, <3>1 DEF Numeric, NumericOrNull
      <3>3. Join(a, t) = Scalar("Double")
        BY <1>6, <2>2, <2>4, JoinTable
      <3>. QED
        BY <2>1, <3>1, <3>2, <3>3 DEF IsJoin
    <2>5. CASE t.k \in Integers64
      <3>1. t # Scalar("Double") /\ t.k # "Decimal" /\ IsNumeric(t)
        BY <2>5 DEF Scalar, Integers64, IsNumeric
      <3>2. Numeric(U) /\ Scalar("Double") \notin U /\ Decimals(U) = {}
        BY <1>6, <3>1 DEF Numeric, NumericOrNull, Decimals
      <3>3. Join(a, t) = Scalar("HugeInt")
        BY <1>6, <2>2, <2>5, JoinNull, JoinTable
      <3>. QED
        BY <2>1, <3>2, <3>3 DEF IsJoin
    <2>6. CASE t.k = "Decimal"
      <3>1. t # Scalar("Double") /\ IsNumeric(t)
        BY <2>6 DEF Scalar, IsNumeric
      <3>2. Numeric(U) /\ Scalar("Double") \notin U /\ Decimals(U) = {t}
        BY <1>6, <2>6, <3>1 DEF Numeric, NumericOrNull, Decimals
      <3>3. HasInteger(U)
        BY <1>6, NumbersMixed DEF HasInteger
      <3>4. Join(a, t) = DecimalT(Larger(t.p, IntHeadroom), t.sc)
        BY <1>6, <2>2, <2>6, JoinTable
      <3>5. t.p \in Nat /\ t.sc \in Nat
        BY <2>6 DEF IsType, Scalar
      <3>6. IsWidest(U, Join(a, t))
        BY <3>2, <3>3, <3>4, <3>5, UnificationAssumption DEF IsWidest, DecimalT, Larger
      <3>. QED
        BY <2>1, <3>2, <3>6 DEF IsJoin
    <2>. QED
      BY <2>3, <2>4, <2>5, <2>6 DEF IsNumeric, Integers64
  <1>7. CASE Mixed(S) /\ Numeric(S) /\ Scalar("Double") \notin S /\ Decimals(S) # {} /\ IsWidest(S, a) /\ t # NullT
    <2>1. Mixed(U)
      BY <1>7 DEF Mixed
    <2>2. a.k = "Decimal" /\ IsNumeric(a) /\ a # NullT /\ a.p \in Nat /\ a.sc \in Nat
      BY <1>7 DEF IsWidest, IsNumeric, NullT, Scalar, IsType
    <2>3. CASE ~IsNumeric(t)
      <3>1. ~Numeric(U)
        BY <1>7, <2>3 DEF Numeric, NumericOrNull
      <3>2. Join(a, t) = NoType
        BY <1>7, <2>2, <2>3, JoinTable
      <3>. QED
        BY <2>1, <3>1, <3>2 DEF IsJoin
    <2>4. CASE t.k = "Double"
      <3>1. t = Scalar("Double") /\ IsNumeric(t)
        BY <2>4 DEF IsType, Scalar, IsNumeric
      <3>2. Numeric(U)
        BY <1>7, <3>1 DEF Numeric, NumericOrNull
      <3>3. Join(a, t) = Scalar("Double")
        BY <1>7, <2>2, <2>4, JoinTable
      <3>. QED
        BY <2>1, <3>1, <3>2, <3>3 DEF IsJoin
    <2>5. CASE t.k \in Integers64 \cup {"Decimal"}
      <3>1. t # Scalar("Double") /\ IsNumeric(t)
        BY <2>5 DEF Scalar, IsNumeric, Integers64
      <3>2. Numeric(U) /\ Scalar("Double") \notin U /\ Decimals(U) # {}
        BY <1>7, <3>1 DEF Numeric, NumericOrNull, Decimals
      <3>3. IsWidest(U, Join(a, t))
        <4>1. CASE t.k \in Integers64
          <5>1. Join(a, t) = DecimalT(Larger(a.p, IntHeadroom), a.sc)
            BY <1>7, <2>2, <4>1, JoinTable DEF Integers64
          <5>2. Decimals(U) = Decimals(S) /\ HasInteger(U)
            BY <4>1 DEF Decimals, HasInteger, Integers64
          <5>3. \A s \in Decimals(S) : s.p \in Nat /\ s.sc \in Nat
            BY DEF Decimals, IsType, Scalar
          <5>. QED
            <6>1. /\ Join(a, t).k = "Decimal" /\ Join(a, t).p = Larger(a.p, IntHeadroom) /\ Join(a, t).sc = a.sc
                  /\ Join(a, t) = DecimalT(Join(a, t).p, Join(a, t).sc)
              BY <5>1 DEF DecimalT
            <6>2. \A s \in Decimals(S) : s.p <= Join(a, t).p /\ s.sc <= Join(a, t).sc
              BY <1>7, <2>2, <5>3, <6>1, UnificationAssumption DEF IsWidest, Larger
            <6>3. IntHeadroom <= Join(a, t).p
              BY <2>2, <6>1, UnificationAssumption DEF Larger
            <6>4. (\E s \in Decimals(S) : Join(a, t).p = s.p) \/ Join(a, t).p = IntHeadroom
              BY <1>7, <2>2, <6>1, UnificationAssumption DEF IsWidest, Larger
            <6>5. \E s \in Decimals(S) : Join(a, t).sc = s.sc
              BY <1>7, <6>1 DEF IsWidest
            <6>. QED
              BY <5>1, <5>2, <6>1, <6>2, <6>3, <6>4, <6>5 DEF IsWidest
        <4>2. CASE t.k = "Decimal"
          <5>1. CASE t = a
            BY <1>7, <2>2, <5>1, <4>2, JoinNull DEF IsWidest, Decimals, HasInteger, Integers64
          <5>2. CASE t # a
            <6>1. Join(a, t) = DecimalT(Larger(a.p, t.p), Larger(a.sc, t.sc))
              BY <1>7, <2>2, <4>2, <5>2, JoinTable
            <6>2. Decimals(U) = Decimals(S) \cup {t} /\ (HasInteger(U) <=> HasInteger(S))
              BY <4>2 DEF Decimals, HasInteger, Integers64
            <6>3. \A s \in Decimals(U) : s.p \in Nat /\ s.sc \in Nat
              BY DEF Decimals, IsType, Scalar
            <6>. QED
              <7>1. /\ Join(a, t).k = "Decimal"
                    /\ Join(a, t).p = Larger(a.p, t.p) /\ Join(a, t).sc = Larger(a.sc, t.sc)
                    /\ Join(a, t) = DecimalT(Join(a, t).p, Join(a, t).sc)
                BY <6>1 DEF DecimalT
              <7>2. t \in Decimals(U) /\ t.p \in Nat /\ t.sc \in Nat
                BY <6>2, <6>3
              <7>3. \A s \in Decimals(S) : s.p <= a.p /\ s.sc <= a.sc /\ s.p \in Nat /\ s.sc \in Nat
                BY <1>7, <6>2, <6>3 DEF IsWidest
              <7>4. \A s \in Decimals(U) : s.p <= Join(a, t).p /\ s.sc <= Join(a, t).sc
                <8>1. /\ a.p <= Join(a, t).p /\ t.p <= Join(a, t).p /\ Join(a, t).p \in Nat
                      /\ a.sc <= Join(a, t).sc /\ t.sc <= Join(a, t).sc /\ Join(a, t).sc \in Nat
                  BY <2>2, <7>1, <7>2 DEF Larger
                <8>2. \A s \in Decimals(S) : s.p <= Join(a, t).p /\ s.sc <= Join(a, t).sc
                  BY <2>2, <7>3, <8>1
                <8>. QED
                  BY <6>2, <8>1, <8>2
              <7>5. HasInteger(U) => IntHeadroom <= Join(a, t).p
                BY <1>7, <2>2, <6>2, <7>1, <7>2, UnificationAssumption DEF IsWidest, Larger
              <7>6. (\E s \in Decimals(U) : Join(a, t).p = s.p) \/ (HasInteger(U) /\ Join(a, t).p = IntHeadroom)
                BY <1>7, <6>2, <7>1, <7>2 DEF IsWidest, Larger
              <7>7. \E s \in Decimals(U) : Join(a, t).sc = s.sc
                BY <1>7, <6>2, <7>1, <7>2 DEF IsWidest, Larger
              <7>. QED
                BY <6>1, <7>1, <7>4, <7>5, <7>6, <7>7 DEF IsWidest
          <5>. QED
            BY <5>1, <5>2
        <4>. QED
          BY <2>5, <4>1, <4>2
      <3>. QED
        BY <2>1, <3>2, <3>3 DEF IsJoin
    <2>. QED
      BY <2>3, <2>4, <2>5 DEF IsNumeric, Integers64
  <1>8. a # NoType
    BY DEF IsType, NoType, Scalar
  <1>. QED
    BY <1>1, <1>2, <1>3, <1>4, <1>5, <1>6, <1>7, <1>8 DEF IsJoin

(***************************************************************************)
(* A set with two types that do not join has no join, however it grows.    *)
(***************************************************************************)
LEMMA NoJoinStays ==
  ASSUME NEW S, NEW U, S \subseteq U, \A s \in U : IsType(s), IsJoin(S, NoType)
  PROVE  IsJoin(U, NoType)
  <1>1. \A s \in S : s # NoType
    BY DEF IsType, NoType, Scalar
  <1>2. NoType # NullT /\ NoType # Scalar("Double") /\ NoType # Scalar("HugeInt") /\ NoType.k # "Decimal"
    BY DEF NoType, NullT, Scalar
  <1>3. Mixed(S) /\ ~Numeric(S)
    BY <1>1, <1>2 DEF IsJoin, IsWidest
  <1>4. Mixed(U) /\ ~Numeric(U)
    BY <1>3 DEF Mixed, Numeric
  <1>. QED
    BY <1>4 DEF IsJoin

(***************************************************************************)
(* The invariant holds at the start and every step of the fold keeps it.   *)
(***************************************************************************)
LEMMA InitIInv == Init => IInv
  <1>. SUFFICES ASSUME Init PROVE IInv
    OBVIOUS
  <1>1. PICK n \in 1..MaxArgs : args \in [1..n -> Types]
    BY DEF Init, Calls
  <1>2. Len(args) = n /\ n \in Nat /\ n >= 1 /\ args[1] \in Types
    BY <1>1, UnificationAssumption
  <1>3. IsType(args[1])
    BY <1>2, UnificationAssumption
  <1>4. TypeOK
    BY <1>2, <1>3 DEF Init, TypeOK
  <1>5. Over(done) = {args[1]}
    BY DEF Init, Over
  <1>6. IsJoin({args[1]}, args[1])
    BY DEF IsJoin
  <1>. QED
    BY <1>4, <1>5, <1>6 DEF Init, IInv

LEMMA ArgsTyped ==
  ASSUME TypeOK
  PROVE  /\ Len(args) \in Nat
         /\ \A i \in 1..Len(args) : IsType(args[i])
  <1>1. PICK n \in 1..MaxArgs : args \in [1..n -> Types]
    BY DEF TypeOK, Calls
  <1>2. Len(args) = n /\ n \in Nat
    BY <1>1, UnificationAssumption
  <1>. QED
    BY <1>1, <1>2, UnificationAssumption

LEMMA NextIInv == IInv /\ [Next]_vars => IInv'
  <1>. SUFFICES ASSUME IInv, [Next]_vars PROVE IInv'
    OBVIOUS
  <1>1. CASE Fold
    <2>1. /\ Len(args) \in Nat /\ done \in 1..Len(args) /\ done < Len(args)
          /\ IsType(acc) /\ IsType(args[done + 1])
      BY <1>1, ArgsTyped DEF IInv, TypeOK, Fold
    <2>2. TypeOK'
      BY <1>1, <2>1, JoinTyped DEF IInv, TypeOK, Fold
    <2>3. \A s \in Over(done) : IsType(s)
      BY <2>1, ArgsTyped DEF Over, IInv
    <2>4. Over(done)' = Over(done) \cup {args[done + 1]}
      BY <1>1, <2>1 DEF Over, Fold
    <2>5. IsJoin(Over(done) \cup {args[done + 1]}, Join(acc, args[done + 1]))
      BY <2>1, <2>3, JoinExtends DEF IInv
    <2>. QED
      BY <1>1, <2>2, <2>4, <2>5 DEF IInv, Fold
  <1>2. CASE UNCHANGED vars
    BY <1>2 DEF IInv, TypeOK, Over, vars
  <1>. QED
    BY <1>1, <1>2 DEF Next

(***************************************************************************)
(* The invariant gives the answer: what was read is everything, or it had  *)
(* no join already.                                                        *)
(***************************************************************************)
LEMMA IInvAnswers == IInv => OrderInvisible
  <1>. SUFFICES ASSUME IInv, Answered PROVE IsJoin(Over(Len(args)), acc)
    BY DEF OrderInvisible
  <1>1. CASE done = Len(args)
    BY <1>1 DEF IInv
  <1>2. CASE acc = NoType
    <2>1. \A s \in Over(Len(args)) : IsType(s)
      BY ArgsTyped DEF Over, IInv
    <2>2. Over(done) \subseteq Over(Len(args))
      BY ArgsTyped DEF Over, IInv, TypeOK
    <2>. QED
      BY <1>2, <2>1, <2>2, NoJoinStays DEF IInv
  <1>. QED
    BY <1>1, <1>2 DEF Answered

(***************************************************************************)
(* The type of a call is well formed, whatever its arguments are           *)
(* (result_ty, unify).                                                     *)
(***************************************************************************)
THEOREM UnificationTyped == Spec => []TypeOK
  <1>1. IInv => TypeOK
    BY DEF IInv
  <1>. QED
    BY <1>1, InitIInv, NextIInv, PTL DEF Spec

(***************************************************************************)
(* The type of a call is the join of the set of its arguments' types: the  *)
(* order in which they are written is invisible (result_ty, unify).        *)
(***************************************************************************)
THEOREM UnificationOrderInvisible == Spec => []OrderInvisible
  BY InitIInv, NextIInv, IInvAnswers, PTL DEF Spec

(***************************************************************************)
(* The two operands of an arithmetic operator may change places: they are  *)
(* promoted to the same type (numeric_promote).                            *)
(***************************************************************************)
THEOREM JoinCommutes ==
  ASSUME NEW s, NEW t, IsType(s), IsType(t)
  PROVE  Join(s, t) = Join(t, s)
  <1>1. CASE s = NullT \/ t = NullT \/ s = t
    BY <1>1, JoinNull
  <1>2. CASE s # NullT /\ t # NullT /\ s # t
    <2>1. CASE ~IsNumeric(s) \/ ~IsNumeric(t)
      BY <1>2, <2>1, JoinTable
    <2>2. CASE "Double" \in {s.k, t.k} /\ IsNumeric(s) /\ IsNumeric(t)
      BY <1>2, <2>2, JoinTable
    <2>3. CASE s.k = "Decimal" /\ t.k = "Decimal"
      <3>1. s.p \in Nat /\ s.sc \in Nat /\ t.p \in Nat /\ t.sc \in Nat
        BY <2>3 DEF IsType, Scalar
      <3>2. Larger(s.p, t.p) = Larger(t.p, s.p) /\ Larger(s.sc, t.sc) = Larger(t.sc, s.sc)
        BY <3>1 DEF Larger
      <3>. QED
        BY <1>2, <2>3, <3>2, JoinTable
    <2>4. CASE {s.k, t.k} \subseteq Integers64 \cup {"Decimal"} /\ {s.k, t.k} # {"Decimal"}
      BY <1>2, <2>4, JoinTable
    <2>. QED
      BY <2>1, <2>2, <2>3, <2>4 DEF IsNumeric, Integers64
  <1>. QED
    BY <1>1, <1>2
=============================================================================
