---------------------------- MODULE Unification ----------------------------
(***************************************************************************)
(* The type of COALESCE, GREATEST and LEAST: scalar.rs result_ty folds     *)
(* Ty::unify over the types of the arguments, in the order written, and    *)
(* refuses the call where two of them have no common type.                 *)
(*                                                                         *)
(* What that fold answers is stated without an order, from the set of the  *)
(* arguments' types: IsJoin.  Lists unify element-wise and are in          *)
(* Expressions.                                                            *)
(***************************************************************************)
EXTENDS SqlTypes, Sequences

CONSTANTS
  Types,     \* the types an argument has
  MaxArgs,   \* how many arguments a call has
  IntDigits  \* digits of the largest BIGINT, 19

IsType(t) ==
  \/ t.k \in {"Null", "Boolean", "Int64", "UInt64", "HugeInt", "Double", "Varchar", "Date", "Interval"} /\ t = Scalar(t.k)
  \/ t.k \in {"Timestamp", "Time"} /\ t = [k |-> t.k, unit |-> t.unit]
  \/ t.k = "Decimal" /\ t = DecimalT(t.p, t.sc) /\ t.p \in Nat /\ t.sc \in Nat

ASSUME UnificationAssumption ==
  /\ \A t \in Types : IsType(t)
  /\ MaxArgs \in Nat
  /\ IntHeadroom \in Nat

VARIABLES
  args,  \* the types of the arguments
  done,  \* how many of them are folded
  acc    \* their common type, or NoType once two of them have none

vars == <<args, done, acc>>

Calls == UNION {[1..n -> Types] : n \in 1..MaxArgs}

\* Every function of the kind takes at least one argument.
Init == args \in Calls /\ done = 1 /\ acc = args[1]

\* The fold stops at the first argument that does not unify.
Fold ==
  /\ done < Len(args) /\ acc # NoType
  /\ acc' = Join(acc, args[done + 1])
  /\ done' = done + 1
  /\ UNCHANGED args

Next == Fold

Spec == Init /\ [][Next]_vars

----------------------------------------------------------------------------
\* The common type of the types of S, whatever their order.

Numeric(S) == \A s \in S : NumericOrNull(s)
Mixed(S) == \E s, t \in S : s # t /\ NullT \notin {s, t}
Decimals(S) == {s \in S : s.k = "Decimal"}
HasInteger(S) == \E s \in S : s.k \in Integers64

IsWidest(S, t) ==
  /\ t.k = "Decimal" /\ t = DecimalT(t.p, t.sc)
  /\ \A s \in Decimals(S) : s.p <= t.p /\ s.sc <= t.sc
  /\ HasInteger(S) => IntHeadroom <= t.p
  /\ (\E s \in Decimals(S) : t.p = s.p) \/ (HasInteger(S) /\ t.p = IntHeadroom)
  /\ \E s \in Decimals(S) : t.sc = s.sc

IsJoin(S, t) ==
  \/ S \subseteq {NullT} /\ t = NullT
  \/ t \in S /\ t # NullT /\ S \subseteq {t, NullT}
  \/ Mixed(S) /\ ~Numeric(S) /\ t = NoType
  \/ Mixed(S) /\ Numeric(S) /\ Scalar("Double") \in S /\ t = Scalar("Double")
  \/ Mixed(S) /\ Numeric(S) /\ Scalar("Double") \notin S /\ Decimals(S) = {} /\ t = Scalar("HugeInt")
  \/ Mixed(S) /\ Numeric(S) /\ Scalar("Double") \notin S /\ Decimals(S) # {} /\ IsWidest(S, t)

Over(n) == {args[i] : i \in 1..n}
Answered == done = Len(args) \/ acc = NoType

\* A call has one type, the join of the types it is given, and it is refused when they have none:
\* neither depends on the order the arguments are written in (unify, and numeric_rank, which must
\* not give UBIGINT a rank).
OrderInvisible == Answered => IsJoin(Over(Len(args)), acc)

\* The types are well formed all along, and a type the fold has left stays left: only a refusal
\* ends it early (result_ty's loop).
TypeOK ==
  /\ args \in Calls /\ done \in 1..Len(args)
  /\ IsType(acc) \/ acc = NoType

\* What the fold has answered so far is the join of what it has read.
IInv == TypeOK /\ IsJoin(Over(done), acc)

----------------------------------------------------------------------------
\* What a comment says and the code does not do.

\* A decimal that is unified with integers has room for their digits before the point.
RoomForIntegers ==
  acc.k = "Decimal" /\ HasInteger(Over(done)) => acc.p - acc.sc >= IntDigits
=============================================================================
