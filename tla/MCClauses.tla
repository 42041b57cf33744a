------------------------------ MODULE MCClauses -----------------------------
(***************************************************************************)
(* The clauses of a query before it runs, one of them in each behaviour:   *)
(* an expression that is parsed (ExprParser), a pattern that is compiled   *)
(* (Compilation) or a call that is given a type (Unification).  The other  *)
(* two machines are idle.                                                  *)
(*                                                                         *)
(* Expressions three operators high, each printed with the parentheses it  *)
(* needs, and every short sequence of tokens, of the operators or after    *)
(* the head of a function; patterns up to three constructs deep, with      *)
(* counts up to three, against a limit of nine instructions; calls of up   *)
(* to four arguments of thirteen types: every kind of number, decimals of  *)
(* more and of fewer digits than an integer needs, and types that join     *)
(* only themselves.                                                        *)
(***************************************************************************)
EXTENDS ExprParser, Compilation, Unification

NoExpression == input = [toks |-> <<>>, meant |-> NoExpr] /\ res = Err /\ reading = "idle"
NoPattern == pattern = PEmpty /\ insts = <<>> /\ compiling = "idle"
NoCall == args = <<>> /\ done = 0 /\ acc = NullT

ClausesInit ==
  \/ ParserInit /\ NoPattern /\ NoCall
  \/ CompilationInit /\ NoExpression /\ NoCall
  \/ Init /\ NoExpression /\ NoPattern

ClausesNext ==
  \/ ParserNext /\ UNCHANGED <<programVars, vars>>
  \/ CompilationNext /\ UNCHANGED <<parserVars, vars>>
  \/ Next /\ UNCHANGED <<parserVars, programVars>>

ClausesSpec == ClausesInit /\ [][ClausesNext]_<<parserVars, programVars, vars>>

----------------------------------------------------------------------------
\* Properties: RoundTrip of ExprParser, OrderInvisible of Unification, and these.

(***************************************************************************)
(* Type invariant: of the machine that is not idle.                        *)
(***************************************************************************)
ClausesTypeOK ==
  /\ reading # "idle" => ParserTypeOK
  /\ compiling # "idle" => CompilationTypeOK
  /\ done > 0 => TypeOK

(***************************************************************************)
(* What is accepted is what was written: no token is dropped, no interval  *)
(* is cut to its field, and nothing nests deeper than the limit            *)
(* (ExprParser).                                                           *)
(***************************************************************************)
NothingSilent == NothingLost /\ IntervalKept /\ NestingRefused

(***************************************************************************)
(* What the matcher relies on without looking: every jump lands, no loop   *)
(* goes round without consuming a row, and programs are bounded, by a      *)
(* limit that refuses only what exceeds it (Compilation).                  *)
(***************************************************************************)
CompiledSound == JumpsLand /\ NoEmptyLoop /\ ProgramBounded /\ FittingCompiles

----------------------------------------------------------------------------
\* Expressions.

MCInts == [x \in {"0", "1", "2", "90"} |-> CASE x = "0" -> 0 [] x = "1" -> 1 [] x = "2" -> 2 [] x = "90" -> 90]
MCCounts == [x \in {"'8'", "'-90'"} |-> IF x = "'8'" THEN 8 ELSE -90]
MCQuoted == [q \in {"quoted b"} |-> "b"]
MCUpper == [w \in {"a"} |-> "A"]

Col == [e |-> "Col", col |-> "x"]
One == Lit("1")
Bin(op, y, z) == [e |-> "Binary", op |-> op, lhs |-> y, rhs |-> z]
Btw(y, lo, hi, n) == [e |-> "Between", arg |-> y, lo |-> lo, hi |-> hi, negated |-> n]

\* Every operator around y.
Around(y) ==
  {[e |-> "Neg", arg |-> y], [e |-> "Not", arg |-> y],
   [e |-> "IsNull", arg |-> y, negated |-> TRUE],
   [e |-> "Cast", arg |-> y, ty |-> NamedDecimal(2, 1)], [e |-> "RunningFinal", final |-> TRUE, arg |-> y],
   [e |-> "Nav", kind |-> "PREV", arg |-> y, offset |-> 2], [e |-> "Agg", kind |-> "SUM", form |-> "Expr", arg |-> y],
   [e |-> "Call", name |-> "COALESCE", args |-> <<y, One>>],
   [e |-> "In", arg |-> y, list |-> <<One>>, negated |-> TRUE], [e |-> "In", arg |-> One, list |-> <<y, Col>>, negated |-> FALSE],
   Btw(y, One, One, FALSE), Btw(One, y, One, TRUE), Btw(One, One, y, FALSE)}
  \cup {Bin(op, y, One) : op \in {"OR", "AND", "<", "||", "-", "/"}}
  \cup {Bin(op, One, y) : op \in {"OR", "AND", "=", "||", "+", "*"}}

Atoms == {Col, [e |-> "Qualified", var |-> "A", col |-> "x"]}
Low == UNION {Around(y) : y \in Atoms}
Middle == UNION {Around(y) : y \in Low}
\* The operators at the ends of the ladder, and those with more than one operand position.
Edges(y) ==
  {[e |-> "Neg", arg |-> y], [e |-> "Not", arg |-> y], [e |-> "IsNull", arg |-> y, negated |-> FALSE],
   Btw(y, One, One, TRUE), Btw(One, y, One, FALSE), Bin("AND", One, y), Bin("=", y, One), Bin("-", One, y)}
High == UNION {Edges(y) : y \in UNION {Edges(y) : y \in Around(Col)}}

Given(toks) == [toks |-> toks, meant |-> NoExpr]
Meant(x, bound) == [toks |-> Printed(x, 0, bound), meant |-> x]

Repeated(t, n) == [i \in 1..n |-> t]
Nested == {Given(Repeated("(", n) \o <<"x">> \o Repeated(")", n)) : n \in 0..10}

OperatorToks == {"x", "1", "(", ")", "-", "=", "NOT", "AND", "BETWEEN"}
Tails == UNION {[1..n -> {"x", "a", "quoted b", "0", ".", "*", ")"}] : n \in 0..3}
Heads == {<<h, "(">> : h \in {"COUNT", "SUM", "PREV", "CLASSIFIER", "MATCH_NUMBER", "ABS"}}

Units == {<<"INTERVAL", n, u>> : n \in DOMAIN MCInts \cup DOMAIN MCCounts \cup {"x", "'s'"}, u \in DOMAIN UnitOf \cup {"x"}}
Casted ==
  {[toks |-> <<"CAST", "(", "x", "AS">> \o w[1] \o <<")">>, meant |-> [e |-> "Cast", arg |-> Col, ty |-> w[2]]] :
     w \in {<<<<"BIGINT">>, [k |-> "BIGINT"]>>, <<<<"DECIMAL">>, NamedDecimal(18, 3)>>,
            <<<<"DECIMAL", "(", "2", ")">>, NamedDecimal(2, 0)>>,
            <<<<"DECIMAL", "(", "2", ",", "1", ")">>, NamedDecimal(2, 1)>>,
            <<<<"DECIMAL", "(", "90", ",", "90", ")">>, NamedDecimal(10, -6)>>, <<<<"VARCHAR", "(", "2", ")">>, [k |-> "VARCHAR"]>>}}

MCInputs ==
  {Meant(x, BP_ADD) : x \in Atoms \cup Low \cup Middle \cup High}
    \cup {Given(ts) : ts \in UNION {[1..n -> OperatorToks] : n \in 1..4} \cup Units}
    \cup {Given(h \o t) : h \in Heads, t \in Tails}
    \cup Nested \cup Casted

\* A concatenation as a bound.
MCBounds == {Meant(Btw(Col, One, Bin("||", Col, One), FALSE), BP_CONCAT)}

\* x - x - ... - x
RECURSIVE Chain(_)
Chain(n) == IF n = 1 THEN <<"x">> ELSE Chain(n - 1) \o <<"-", "x">>
MCChains == {Given(Chain(n)) : n \in 1..12}

----------------------------------------------------------------------------
\* Patterns.

Quantifiers == {<<0, Unbounded>>, <<1, Unbounded>>, <<0, 1>>, <<2, 3>>, <<3, 3>>, <<0, 9>>}

Leaves == {PEmpty, PVar("A"), PAnchor("anchor_start")}

Quantified(S) == {PQuant(p, c[1], c[2], g) : p \in S, c \in Quantifiers, g \in BOOLEAN}
Joined(S, T) ==
  {PConcat(<<p, q>>) : p \in S, q \in T} \cup {PAlt(<<p, q>>) : p \in S, q \in T}
    \cup {PAlt(<<p, q, PVar("A")>>) : p \in S, q \in T}

Simple == Quantified(Leaves) \cup Joined(Leaves, Leaves) \cup {PPermute(<<p, q>>) : p, q \in Leaves}
Compound == Quantified(Simple) \cup Joined(Simple, Leaves) \cup Joined(Leaves, Simple)
Deep == Quantified(Joined(Simple, Leaves)) \cup Quantified(Quantified(Simple))

MCWritten == Leaves \cup Simple \cup Compound \cup Deep

----------------------------------------------------------------------------
\* Types.

MCTypes ==
  {Scalar(k) : k \in {"Null", "Boolean", "Int64", "UInt64", "HugeInt", "Double", "Varchar", "Date"}}
    \cup {TimestampT("Second"), TimestampT("Nanosecond")}
    \cup {DecimalT(5, 2), DecimalT(25, 0), DecimalT(18, 10)}
=============================================================================
