---------------------------- MODULE ExprParser ----------------------------
(***************************************************************************)
(* The precedence-climbing parser of DEFINE and MEASURES expressions       *)
(* (expr/parser.rs), over tokens.                                          *)
(*                                                                         *)
(* A token is a string: a symbol, a word in its upper-case form or a       *)
(* column's, a number, a literal or a quoted name.  A synonym stands as    *)
(* the word it means: LAG as PREV, LIST as ARRAY_AGG, INT as BIGINT and    *)
(* the other names of a type.  Each parse_x of the                         *)
(* code is an operator from a position to a result: [ok, pos, x] with the  *)
(* position after what was read, or Err.  d is the depth the parser has    *)
(* entered.                                                                *)
(***************************************************************************)
EXTENDS Integers, SequencesExt

CONSTANTS
  Inputs,          \* what is parsed: [toks, meant], the expression it was printed from or NoExpr
  Ints,            \* the value of each integer token
  Literals,        \* the tokens of strings and floats
  Counts,          \* the value of each string that holds an integer
  Quoted,          \* the name in each quoted identifier
  UpperOf,         \* the upper-case form of each word that is not in upper case
  MaxDepth,        \* MAX_DEPTH
  I32Max, I64Max,  \* the bounds of an interval's fields
  NanosPerSecond,
  U8Size           \* a precision is cut to eight bits, a scale to eight bits and a sign

VARIABLES input, res, reading

parserVars == <<input, res, reading>>

----------------------------------------------------------------------------
\* The ladder of binding powers.

BP_OR == 1
BP_AND == 2
\* Mutant: prefix NOT binds like a unary minus.
NotAsUnary == 8
BP_NOT == 3
BP_CMP == 4
BP_CONCAT == 5
BP_ADD == 6
BP_MUL == 7
BP_UNARY == 8

Symbols == {"(", ")", ",", ".", "*", "+", "-", "/", "%", "||", "::", "=", "<>", "<", "<=", ">", ">="}
End == "end of input"

Tok(ts, p) == IF p \in DOMAIN ts THEN ts[p] ELSE End
IsIdent(t) == t \notin Symbols \cup DOMAIN Ints \cup Literals \cup DOMAIN Quoted \cup {End}
Upper(t) == IF t \in DOMAIN UpperOf THEN UpperOf[t] ELSE t

\* A name, quoted or not; an unquoted label is in upper case.
IsName(t) == IsIdent(t) \/ t \in DOMAIN Quoted
ColumnNamed(t) == IF t \in DOMAIN Quoted THEN Quoted[t] ELSE t
LabelNamed(t) == IF t \in DOMAIN Quoted THEN Quoted[t] ELSE Upper(t)

InfixOps == {"=", "<>", "<", "<=", ">", ">=", "||", "+", "-", "*", "/", "%"}

\* infix_bp; 0 is no operator
InfixBp(ts, p) ==
  LET t == Tok(ts, p)
  IN CASE t = "OR" -> BP_OR
       [] t = "AND" -> BP_AND
       [] t \in {"=", "<>", "<", "<=", ">", ">=", "IS", "BETWEEN", "IN", "LIKE"} -> BP_CMP
       [] t = "NOT" -> IF Tok(ts, p + 1) \in {"BETWEEN", "IN"} THEN BP_CMP ELSE 0
       [] t = "||" -> BP_CONCAT
       [] t \in {"+", "-"} -> BP_ADD
       [] t \in {"*", "/", "%"} -> BP_MUL
       [] OTHER -> 0

----------------------------------------------------------------------------
\* Results.

NoExpr == [e |-> "None"]
Err == [ok |-> FALSE, pos |-> 0, x |-> NoExpr]
Ok(p, x) == [ok |-> TRUE, pos |-> p, x |-> x]

\* What follows r must be t.
Expect(ts, r, t) == IF r.ok /\ Tok(ts, r.pos) = t THEN Ok(r.pos + 1, r.x) ELSE Err
Mapped(r, F(_)) == IF r.ok THEN Ok(r.pos, F(r.x)) ELSE Err

\* enter.  Mutant: a nested expression does not count.
DeeperNever(d) == d
Deeper(d) == d + 1

Lit(t) == [e |-> "Lit", v |-> t]
CountOf(rest) == [e |-> "Agg", kind |-> "COUNT"] @@ rest

MayBeStar(kind) == kind = "COUNT"

AggKinds == {"SUM", "COUNT", "AVG", "MIN", "MAX", "ARRAY_AGG", "ARBITRARY"}
NavKinds == {"PREV", "NEXT", "FIRST", "LAST"}
DefaultOffset(kind) == IF kind \in {"PREV", "NEXT"} THEN 1 ELSE 0

----------------------------------------------------------------------------
\* Types and intervals.

SimpleTypes == {"BIGINT", "UBIGINT", "HUGEINT", "DOUBLE", "BOOLEAN", "DATE", "TIMESTAMP", "TIME", "INTERVAL"}
NamedDecimal(p, s) == [k |-> "DECIMAL", p |-> p, s |-> s]

\* parse_ty; expect_int is a token of Ints
ParseTy(ts, p) ==
  LET t == Upper(Tok(ts, p))
      Arg(i) == Tok(ts, p + i) \in DOMAIN Ints
      Precision(i) == Ints[Tok(ts, p + i)] % U8Size
      Scale(i) == ((Ints[Tok(ts, p + i)] + (U8Size \div 2)) % U8Size) - (U8Size \div 2)
      open == Tok(ts, p + 1) = "("
  IN CASE t \in SimpleTypes -> Ok(p + 1, [k |-> t])
       [] t = "DECIMAL" /\ ~open -> Ok(p + 1, NamedDecimal(18, 3))
       [] t = "DECIMAL" /\ open /\ Arg(2) /\ Tok(ts, p + 3) # "," ->
            Expect(ts, Ok(p + 3, NamedDecimal(Precision(2), 0)), ")")
       [] t = "DECIMAL" /\ open /\ Arg(2) /\ Tok(ts, p + 3) = "," /\ Arg(4) ->
            Expect(ts, Ok(p + 5, NamedDecimal(Precision(2), Scale(4))), ")")
       [] t = "VARCHAR" /\ ~open -> Ok(p + 1, [k |-> t])
       [] t = "VARCHAR" /\ open /\ Arg(2) -> Expect(ts, Ok(p + 3, [k |-> t]), ")")
       [] OTHER -> Err

\* The months, days and nanoseconds of each unit; a plural stands as its singular, and the units
\* below the second are left out.
UnitOf ==
  [YEAR |-> <<12, 0, 0>>, MONTH |-> <<1, 0, 0>>, WEEK |-> <<0, 7, 0>>, DAY |-> <<0, 1, 0>>,
   HOUR |-> <<0, 0, 3600 * NanosPerSecond>>, MINUTE |-> <<0, 0, 60 * NanosPerSecond>>,
   SECOND |-> <<0, 0, NanosPerSecond>>]

\* Scaled first, then narrowed.  Mutant: the scaled count is cut to the field's width.
ScaledCut(n, unit) ==
  [i \in 1..3 |-> (n * UnitOf[unit][i]) % (IF i = 3 THEN I64Max + 1 ELSE I32Max + 1)]

Scaled(n, unit) == [i \in 1..3 |-> n * UnitOf[unit][i]]

CountAt(t) == IF t \in DOMAIN Ints THEN Ints[t] ELSE Counts[t]

\* i32::try_from and i64::try_from of the three fields
Fits(fields) ==
  \A i \in 1..3 : LET top == IF i = 3 THEN I64Max ELSE I32Max IN fields[i] \in (-top - 1)..top

ParseInterval(ts, p) ==
  LET n == Tok(ts, p)
      unit == Upper(Tok(ts, p + 1))
      fields == Scaled(CountAt(n), unit)
  IN IF n \in DOMAIN Ints \cup DOMAIN Counts /\ unit \in DOMAIN UnitOf
     THEN IF Fits(fields)
          THEN Ok(p + 2, [e |-> "Interval", months |-> fields[1], days |-> fields[2], nanos |-> fields[3]])
          ELSE Err
     ELSE Err

----------------------------------------------------------------------------
\* Expressions.

RECURSIVE ParseExpr(_, _, _, _), Climb(_, _, _, _), ParseInfix(_, _, _, _), Casts(_, _), ParseItems(_, _, _, _)
RECURSIVE ParsePrimary(_, _, _), ParseIdent(_, _, _), ParseNav(_, _, _, _), ParseAgg(_, _, _, _)

ParseExpr(ts, p, min, d) ==
  IF d > MaxDepth THEN Err ELSE Climb(ts, Casts(ts, ParsePrimary(ts, p, d)), min, d)

\* The loop of parse_expr: operators that bind at least as tightly as min.
Climb(ts, lhs, min, d) ==
  LET bp == IF lhs.ok THEN InfixBp(ts, lhs.pos) ELSE 0
  IN IF bp = 0 \/ bp < min THEN lhs ELSE Climb(ts, ParseInfix(ts, lhs, bp, d), min, d)

\* The loop of parse_prefix: casts after a primary.
Casts(ts, r) ==
  LET ty == ParseTy(ts, r.pos + 1)
  IN IF ~r.ok \/ Tok(ts, r.pos) # "::" THEN r
     ELSE IF ty.ok THEN Casts(ts, Ok(ty.pos, [e |-> "Cast", arg |-> r.x, ty |-> ty.x])) ELSE Err

\* Expressions separated by commas, as a sequence.
ParseItems(ts, p, d, items) ==
  LET r == ParseExpr(ts, p, 0, Deeper(d))
  IN IF ~r.ok THEN Err
     ELSE IF Tok(ts, r.pos) = "," THEN ParseItems(ts, r.pos + 1, d, Append(items, r.x))
     ELSE Ok(r.pos, Append(items, r.x))

\* What is between the parentheses that open at p.
Arguments(ts, p, d) ==
  CASE Tok(ts, p) # "(" -> Err
    [] Tok(ts, p) = "(" /\ Tok(ts, p + 1) = ")" -> Ok(p + 2, <<>>)
    [] OTHER -> Expect(ts, ParseItems(ts, p + 1, d, <<>>), ")")

RightLevel(lbp) == lbp + 1

ParseBetween(ts, lhs, p, negated, d) ==
  LET lo == ParseExpr(ts, p, BP_ADD, Deeper(d))
      and == Expect(ts, lo, "AND")
      hi == ParseExpr(ts, and.pos, BP_ADD, Deeper(d))
  IN IF ~and.ok THEN Err
     ELSE Mapped(hi, LAMBDA y : [e |-> "Between", arg |-> lhs, lo |-> lo.x, hi |-> y, negated |-> negated])

ParseInfix(ts, lhs, lbp, d) ==
  LET p == lhs.pos
      t == Tok(ts, p)
      not == IF Tok(ts, p + 1) = "NOT" THEN 1 ELSE 0
      negated == t = "NOT"
      at == IF negated THEN p + 1 ELSE p
  IN CASE t \in InfixOps \cup {"AND", "OR"} ->
            Mapped(ParseExpr(ts, p + 1, RightLevel(lbp), Deeper(d)),
                   LAMBDA y : [e |-> "Binary", op |-> t, lhs |-> lhs.x, rhs |-> y])
       [] t = "IS" ->
            Expect(ts, Ok(p + 1 + not, [e |-> "IsNull", arg |-> lhs.x, negated |-> not = 1]), "NULL")
       [] t \notin InfixOps /\ Tok(ts, at) = "BETWEEN" -> ParseBetween(ts, lhs.x, at + 1, negated, d)
       [] t \notin InfixOps /\ Tok(ts, at) = "IN" ->
            Mapped(Arguments(ts, at + 1, d),
                   LAMBDA ys : [e |-> "In", arg |-> lhs.x, list |-> ys, negated |-> negated])
       [] OTHER -> Err

ParsePrimary(ts, p, d) ==
  LET t == Tok(ts, p)
  IN CASE t = "-" -> Mapped(ParseExpr(ts, p + 1, BP_UNARY, Deeper(d)), LAMBDA y : [e |-> "Neg", arg |-> y])
       [] t = "+" -> ParseExpr(ts, p + 1, BP_UNARY, Deeper(d))
       [] t = "(" -> Expect(ts, ParseExpr(ts, p + 1, 0, Deeper(d)), ")")
       [] t \in DOMAIN Ints \cup Literals -> Ok(p + 1, Lit(t))
       [] IsName(t) -> ParseIdent(ts, p, d)
       [] OTHER -> Err

\* A column, or a column of a label: of any name, quoted or not.
ColumnAt(ts, p) ==
  LET t == Tok(ts, p)
      col == Tok(ts, p + 2)
  IN CASE Tok(ts, p + 1) # "." -> Ok(p + 1, [e |-> "Col", col |-> ColumnNamed(t)])
       [] Tok(ts, p + 1) = "." /\ IsName(col) ->
            Ok(p + 3, [e |-> "Qualified", var |-> LabelNamed(t), col |-> ColumnNamed(col)])
       [] OTHER -> Err

ParseClassifier(ts, p) ==
  IF IsName(Tok(ts, p + 1))
  THEN Expect(ts, Ok(p + 2, [e |-> "Classifier", label |-> LabelNamed(Tok(ts, p + 1))]), ")")
  ELSE Expect(ts, Ok(p + 1, [e |-> "Classifier", label |-> "no label"]), ")")

ParseCast(ts, p, d) ==
  LET arg == Expect(ts, ParseExpr(ts, p + 1, 0, Deeper(d)), "AS")
  IN IF Tok(ts, p) # "(" \/ ~arg.ok THEN Err
     ELSE Expect(ts, Mapped(ParseTy(ts, arg.pos), LAMBDA ty : [e |-> "Cast", arg |-> arg.x, ty |-> ty]), ")")

\* parse_ident and, for a quoted name, parse_quoted_ident
ParseIdent(ts, p, d) ==
  LET t == IF Tok(ts, p) \in DOMAIN Quoted THEN End ELSE Upper(Tok(ts, p))
      open == Tok(ts, p + 1) = "("
  IN CASE t \in {"TRUE", "FALSE", "NULL"} -> Ok(p + 1, Lit(t))
       [] t = "NOT" -> Mapped(ParseExpr(ts, p + 1, BP_NOT, Deeper(d)), LAMBDA y : [e |-> "Not", arg |-> y])
       [] t = "INTERVAL" -> ParseInterval(ts, p + 1)
       [] t = "CAST" -> ParseCast(ts, p + 1, d)
       [] t \in {"RUNNING", "FINAL"} ->
            Mapped(ParseExpr(ts, p + 1, BP_UNARY, Deeper(d)),
                   LAMBDA y : [e |-> "RunningFinal", final |-> t = "FINAL", arg |-> y])
       [] t \in NavKinds -> ParseNav(ts, p + 1, t, d)
       [] t \in AggKinds -> ParseAgg(ts, p + 1, t, d)
       [] t = "CLASSIFIER" -> IF open THEN ParseClassifier(ts, p + 1) ELSE Err
       [] t = "MATCH_NUMBER" -> IF open THEN Expect(ts, Ok(p + 2, [e |-> "MatchNumber"]), ")") ELSE Err
       [] t = "MATCH_SEQUENCE_NUMBER" ->
            IF open
            THEN Expect(ts, Ok(p + 2, [e |-> "RunningFinal", final |-> FALSE, arg |-> CountOf([form |-> "Star"])]), ")")
            ELSE Err
       [] OTHER ->
            IF open /\ t # End
            THEN Mapped(Arguments(ts, p + 1, d), LAMBDA ys : [e |-> "Call", name |-> t, args |-> ys])
            ELSE ColumnAt(ts, p)

ParseNav(ts, p, kind, d) ==
  LET arg == ParseExpr(ts, p + 1, 0, Deeper(d))
      n == Tok(ts, arg.pos + 1)
      Nav(offset) == [e |-> "Nav", kind |-> kind, arg |-> arg.x, offset |-> offset]
  IN CASE Tok(ts, p) # "(" \/ ~arg.ok -> Err
       [] Tok(ts, p) = "(" /\ arg.ok /\ Tok(ts, arg.pos) = "," ->
            IF n \in DOMAIN Ints THEN Expect(ts, Ok(arg.pos + 2, Nav(Ints[n])), ")") ELSE Err
       [] OTHER -> Expect(ts, Ok(arg.pos, Nav(DefaultOffset(kind))), ")")

ParseAgg(ts, p, kind, d) ==
  LET t == Tok(ts, p + 1)
      Agg(rest) == [e |-> "Agg", kind |-> kind] @@ rest
      star == t \in {")", "*"}
      qualified == IsName(t) /\ Tok(ts, p + 2) = "." /\ Tok(ts, p + 3) = "*"
  IN CASE Tok(ts, p) # "(" \/ ((star \/ qualified) /\ ~MayBeStar(kind)) -> Err
       [] Tok(ts, p) = "(" /\ star /\ MayBeStar(kind) ->
            Expect(ts, Ok(IF t = "*" THEN p + 2 ELSE p + 1, Agg([form |-> "Star"])), ")")
       [] Tok(ts, p) = "(" /\ qualified /\ MayBeStar(kind) ->
            Expect(ts, Ok(p + 4, Agg([form |-> "QualStar", var |-> LabelNamed(t)])), ")")
       [] OTHER ->
            Expect(ts, Mapped(ParseExpr(ts, p + 1, 0, Deeper(d)), LAMBDA y : Agg([form |-> "Expr", arg |-> y])), ")")

\* parse.  Mutant: what follows an expression is ignored.
ParseLoose(ts) == ParseExpr(ts, 1, 0, 1)

ParseWhole(ts) ==
  LET r == ParseExpr(ts, 1, 0, 1) IN IF r.ok /\ r.pos = Len(ts) + 1 THEN r ELSE Err

----------------------------------------------------------------------------
ParserInit == input \in Inputs /\ res = Err /\ reading = "given"

Accept ==
  /\ reading = "given"
  /\ ParseWhole(input.toks).ok
  /\ res' = ParseWhole(input.toks)
  /\ reading' = "parsed"
  /\ UNCHANGED input

Refuse ==
  /\ reading = "given"
  /\ ~ParseWhole(input.toks).ok
  /\ reading' = "refused"
  /\ UNCHANGED <<input, res>>

ParserNext == Accept \/ Refuse

ParserSpec == ParserInit /\ [][ParserNext]_parserVars

----------------------------------------------------------------------------
\* The grammar, the other way round: an expression as the tokens SQL writes it in.

LevelOf(op) ==
  CASE op = "OR" -> 1
    [] op = "AND" -> 2
    [] op \in {"=", "<>", "<", "<=", ">", ">="} -> 4
    [] op = "||" -> 5
    [] op \in {"+", "-"} -> 6
    [] op \in {"*", "/", "%"} -> 7

Level(x) ==
  CASE x.e = "Binary" -> LevelOf(x.op)
    [] x.e = "Not" -> 3
    [] x.e \in {"IsNull", "Between", "In"} -> 4
    [] x.e \in {"Neg", "RunningFinal"} -> 8
    [] OTHER -> 9

Listed(toks) == FlattenSeq([i \in DOMAIN toks |-> IF i = 1 THEN toks[i] ELSE <<",">> \o toks[i]])
Maybe(cond, toks) == IF cond THEN toks ELSE <<>>

TypeToks(ty) ==
  IF ty.k = "DECIMAL" THEN <<"DECIMAL", "(", ToString(ty.p), ",", ToString(ty.s), ")">> ELSE <<ty.k>>

\* x with the parentheses it needs where an operand of level min is expected; bounds of BETWEEN
\* are of level bound.
RECURSIVE Printed(_, _, _)
Printed(x, min, bound) ==
  LET P(y, level) == Printed(y, level, bound)
      All(ys) == Listed([i \in DOMAIN ys |-> P(ys[i], 0)])
      InParens(toks) == <<"(">> \o toks \o <<")">>
      bare ==
        CASE x.e = "Lit" -> <<x.v>>
          [] x.e = "Col" -> <<x.col>>
          [] x.e = "Qualified" -> <<x.var, ".", x.col>>
          [] x.e = "Nav" -> 
               <<x.kind>> \o InParens(P(x.arg, 0) \o Maybe(x.offset # DefaultOffset(x.kind), <<",", ToString(x.offset)>>))
          [] x.e = "Agg" ->
               <<x.kind>> \o InParens(CASE x.form = "Star" -> <<"*">>
                                         [] x.form = "QualStar" -> <<x.var, ".", "*">>
                                         [] x.form = "Expr" -> P(x.arg, 0))
          [] x.e = "Classifier" -> <<"CLASSIFIER">> \o InParens(Maybe(x.label # "no label", <<x.label>>))
          [] x.e = "MatchNumber" -> <<"MATCH_NUMBER", "(", ")">>
          [] x.e = "Interval" ->
               <<"INTERVAL", ToString(x.months + x.days + x.nanos),
                 CASE x.months # 0 -> "MONTH" [] x.months = 0 /\ x.days # 0 -> "DAY" [] OTHER -> "SECOND">>
          [] x.e = "RunningFinal" -> <<IF x.final THEN "FINAL" ELSE "RUNNING">> \o P(x.arg, 8)
          [] x.e = "Neg" -> <<"-">> \o P(x.arg, 8)
          [] x.e = "Not" -> <<"NOT">> \o P(x.arg, 3)
          [] x.e = "Binary" -> P(x.lhs, Level(x)) \o <<x.op>> \o P(x.rhs, Level(x) + 1)
          [] x.e = "IsNull" -> P(x.arg, 4) \o <<"IS">> \o Maybe(x.negated, <<"NOT">>) \o <<"NULL">>
          [] x.e = "Between" ->
               P(x.arg, 4) \o Maybe(x.negated, <<"NOT">>) \o <<"BETWEEN">> \o P(x.lo, bound)
                 \o <<"AND">> \o P(x.hi, bound)
          [] x.e = "In" -> P(x.arg, 4) \o Maybe(x.negated, <<"NOT">>) \o <<"IN">> \o InParens(All(x.list))
          [] x.e = "Cast" -> P(x.arg, 9) \o <<"::">> \o TypeToks(x.ty)
          [] x.e = "Call" -> <<x.name>> \o InParens(All(x.args))
  IN IF Level(x) < min THEN InParens(bare) ELSE bare

RECURSIVE Height(_)
Height(x) ==
  LET below == CASE x.e = "Binary" -> {x.lhs, x.rhs}
                 [] x.e = "Between" -> {x.arg, x.lo, x.hi}
                 [] x.e = "In" -> {x.arg} \cup ToSet(x.list)
                 [] x.e = "Call" -> ToSet(x.args)
                 [] x.e \in {"Nav", "RunningFinal", "Neg", "Not", "IsNull", "Cast"} \/ (x.e = "Agg" /\ x.form = "Expr") ->
                      {x.arg}
                 [] OTHER -> {}
  IN 1 + Max({0} \cup {Height(y) : y \in below})

\* How deep parentheses nest in a sequence of tokens.
Nesting(ts) ==
  Max({0} \cup {Cardinality({i \in 1..n : ts[i] = "("}) - Cardinality({i \in 1..n : ts[i] = ")"}) : n \in DOMAIN ts})

\* What tokens say, without what only groups them and however the names are spelled.
Said(ts) ==
  LET told == SelectSeq(ts, LAMBDA t : t \notin {"(", ")", "+", ",", "*"})
  IN [i \in DOMAIN told |-> Upper(ColumnNamed(told[i]))]

----------------------------------------------------------------------------
Parsed == reading = "parsed"

\* An accepted expression is one the later phases have a case for: only COUNT stands without an
\* argument, and every interval fits its fields.
RECURSIVE WellFormed(_)
WellFormed(x) ==
  CASE x.e = "Agg" -> IF x.form = "Expr" THEN WellFormed(x.arg) ELSE x.kind = "COUNT"
    [] x.e = "Interval" -> Fits(<<x.months, x.days, x.nanos>>)
    [] x.e = "Nav" -> x.offset >= 0 /\ WellFormed(x.arg)
    [] x.e \in {"RunningFinal", "Neg", "Not", "IsNull", "Cast"} -> WellFormed(x.arg)
    [] x.e = "Binary" -> WellFormed(x.lhs) /\ WellFormed(x.rhs)
    [] x.e = "Between" -> WellFormed(x.arg) /\ WellFormed(x.lo) /\ WellFormed(x.hi)
    [] x.e = "In" -> WellFormed(x.arg) /\ \A i \in DOMAIN x.list : WellFormed(x.list[i])
    [] x.e = "Call" -> \A i \in DOMAIN x.args : WellFormed(x.args[i])
    [] OTHER -> x.e \in {"Lit", "Col", "Qualified", "Classifier", "MatchNumber"}

ParserTypeOK == reading \in {"given", "parsed", "refused"} /\ (Parsed => WellFormed(res.x))

\* An expression written with no more parentheses than SQL's precedence asks for is read as that
\* expression: NOT below comparison, every operator to the left, a sign above them all
\* (parse_expr, parse_infix, and BP_NOT, which once was BP_UNARY and inverted NOT x IS NULL).
RoundTrip == reading # "given" /\ input.meant # NoExpr => Parsed /\ res.x = input.meant

\* Nothing that was written is dropped or read twice: an accepted expression, printed, has the
\* tokens of the input in their order, apart from what groups (parse refuses what is left over).
NothingLost == Parsed /\ input.meant = NoExpr /\ res.x.e # "Interval" => Said(Printed(res.x, 0, BP_ADD)) = Said(input.toks)

\* An interval is as many units as were written, or it is refused; a count that overflows its
\* field is never a smaller one (parse_interval scales before it narrows).
IntervalKept ==
  Parsed /\ res.x.e = "Interval" =>
    LET n == CountAt(input.toks[2])
        unit == UnitOf[Upper(input.toks[3])]
    IN res.x.months = n * unit[1] /\ res.x.days = n * unit[2] /\ res.x.nanos = n * unit[3]

\* Input that nests deeper than the limit is refused, wherever it nests, and what does not is
\* not refused for its depth (enter).
NestingRefused ==
  reading # "given" =>
    /\ Parsed => Nesting(input.toks) < MaxDepth
    /\ input.meant # NoExpr /\ 2 * Height(input.meant) <= MaxDepth => Parsed

----------------------------------------------------------------------------
\* What the comments say and the code does not do.

\* BETWEEN is an operator of comparison level, whose operands may be anything that binds tighter.
BoundsBindTighter ==
  reading # "given" /\ input.meant # NoExpr => Parsed /\ res.x = input.meant

\* The depth limit bounds the nesting of the expression that is built.
TreeWithinLimit == Parsed => Height(res.x) <= MaxDepth
=============================================================================
