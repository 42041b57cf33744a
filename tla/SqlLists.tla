------------------------------ MODULE SqlLists ------------------------------
(***************************************************************************)
(* The operations of valops.rs that reach into lists, and what is built on *)
(* them: rendering, the binary operators, and casts.  A list may hold      *)
(* lists, so the definitions are RECURSIVE, for TLC only; what they do on  *)
(* any other value is in SqlValues.                                        *)
(***************************************************************************)
EXTENDS SqlValues

RECURSIVE Render(_)
Render(v) ==
  LET Item(i) == IF v.items[i] = Null THEN <<Word("null")>> ELSE Render(v.items[i])
      From[i \in 1..(Len(v.items) + 1)] ==
        IF i > Len(v.items) THEN <<Word("close")>>
        ELSE (IF i > 1 THEN <<Word("comma")>> ELSE <<>>) \o Item(i) \o From[i + 1]
  IN IF v.k = "List" THEN <<Word("open")>> \o From[1] ELSE RenderScalar(v)

Concat(l, r) == IF Null \in {l, r} THEN Null ELSE StrV(Render(l) \o Render(r))

Binary(op, l, r) ==
  CASE op = "And" -> LogicAnd(l, r)
    [] op = "Or" -> LogicOr(l, r)
    [] op \in DOMAIN Holds -> CompareOp(op, l, r)
    [] op = "Concat" -> Concat(l, r)
    [] op \in {"Add", "Sub", "Mul", "Div", "Mod"} -> Arith(op, l, r)

\* The kinds that are cast only from themselves.
Unconverted == {"Date", "Timestamp", "Time", "Interval"}

RECURSIVE Coerce(_, _)
Coerce(v, ty) ==
  CASE Null = v \/ ty.k = "Null" -> Null
    [] ty.k = "Boolean" -> IF AsBool(v) = Null THEN Err ELSE AsBool(v)
    [] ty.k = "Int64" -> ToInt64(v)
    [] ty.k = "UInt64" -> ToUInt64(v)
    [] ty.k = "HugeInt" -> ToHugeInt(v)
    [] ty.k = "Double" -> IF AsF64(v) = Null THEN Err ELSE AsF64(v)
    [] ty.k = "Decimal" -> ToDecimal(v, ty.sc)
    [] ty.k = "Varchar" -> StrV(Render(v))
    [] ty.k \in Unconverted -> IF v.k = ty.k THEN v ELSE Err
    [] ty.k = "List" ->
         LET items == [i \in DOMAIN v.items |-> Coerce(v.items[i], ty.elem)]
         IN IF v.k # "List" \/ \E i \in DOMAIN items : items[i] = Err THEN Err ELSE ListV(items)
=============================================================================
