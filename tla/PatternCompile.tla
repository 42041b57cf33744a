---------------------------- MODULE PatternCompile ----------------------------
(***************************************************************************)
(* From a row pattern to the matcher's program: the parser's treatment of  *)
(* quantifiers and PERMUTE (pattern/parser.rs) and the compiler            *)
(* (pattern/compile.rs).  Tokens and precedence are left out; a pattern is *)
(* the tree the grammar describes:                                         *)
(*                                                                         *)
(*   [k |-> "empty"]                                                       *)
(*   [k |-> "var", var |-> v]                                              *)
(*   [k |-> "anchor", op |-> "anchor_start" or "anchor_end"]               *)
(*   [k |-> "concat", items |-> <<p, ...>>]                                *)
(*   [k |-> "alt", items |-> <<p, ...>>]                                   *)
(*   [k |-> "permute", items |-> <<p, ...>>]      (before parsing only)    *)
(*   [k |-> "quant", inner |-> p, min |-> n, max |-> n or Unbounded,       *)
(*    greedy |-> b]                                                        *)
(*                                                                         *)
(* The definitions are RECURSIVE: this module is for TLC only.             *)
(***************************************************************************)
EXTENDS Integers, Sequences, SequencesExt

CONSTANTS
  MaxPermuteArgs,   (* MAX_PERMUTE_ARGS   *)
  MaxProgramInsts   (* MAX_PROGRAM_INSTS  *)

ASSUME CompileAssumption == MaxPermuteArgs \in Nat /\ MaxProgramInsts \in Nat

Unbounded == -1

PEmpty == [k |-> "empty"]
PVar(v) == [k |-> "var", var |-> v]
PAnchor(op) == [k |-> "anchor", op |-> op]
PConcat(ps) == [k |-> "concat", items |-> ps]
PAlt(ps) == [k |-> "alt", items |-> ps]
PPermute(ps) == [k |-> "permute", items |-> ps]
PQuant(p, min, max, greedy) ==
  [k |-> "quant", inner |-> p, min |-> min, max |-> max, greedy |-> greedy]

Elems(s) == {s[n] : n \in DOMAIN s}

-----------------------------------------------------------------------------
(* The parser.                                                              *)

(* Can match zero rows. *)
RECURSIVE Nullable(_)
Nullable(p) ==
  CASE p.k \in {"empty", "anchor"} -> TRUE
    [] p.k = "var" -> FALSE
    [] p.k = "concat" -> \A q \in Elems(p.items) : Nullable(q)
    [] p.k = "alt" -> \E q \in Elems(p.items) : Nullable(q)
    [] p.k = "quant" -> p.min = 0 \/ Nullable(p.inner)

(* Matches exactly zero rows on every branch. *)
RECURSIVE AlwaysEmpty(_)
AlwaysEmpty(p) ==
  CASE p.k \in {"empty", "anchor"} -> TRUE
    [] p.k = "var" -> FALSE
    [] p.k \in {"concat", "alt"} -> \A q \in Elems(p.items) : AlwaysEmpty(q)
    [] p.k = "quant" -> AlwaysEmpty(p.inner)

Rejected == [k |-> "rejected"]

(* Mutant: any body may be repeated. *)
FactorUnchecked(prim, min, max, greedy) == PQuant(prim, min, max, greedy)

(* factor: a quantified primary.  Repeating what never consumes a row is    *)
(* collapsed to at most one occurrence; an unbounded loop over what may     *)
(* consume nothing is refused.                                              *)
Factor(prim, min, max, greedy) ==
  IF AlwaysEmpty(prim) THEN
    IF min = 0 THEN PQuant(prim, 0, 1, greedy) ELSE prim
  ELSE
    IF max = Unbounded /\ Nullable(prim) THEN Rejected
    ELSE PQuant(prim, min, max, greedy)

(* Mutant: the argument chosen is swapped, not rotated, into place. *)
Swapped(order, at, from) ==
  [order EXCEPT ![at] = order[from], ![from] = order[at]]

(* permutations: the smallest remaining argument first, the rest kept in    *)
(* order, from position `at` on.                                            *)
Rotated(order, at, from) ==
  InsertAt(RemoveAt(order, from), at, order[from])

RECURSIVE PermutationsFrom(_, _)
PermutationsFrom(order, at) ==
  IF at > Len(order) THEN <<order>>
  ELSE LET tail(from) == PermutationsFrom(Rotated(order, at, from), at + 1)
       IN  FoldLeft(LAMBDA acc, from : acc \o tail(from), <<>>,
                    [n \in 1 .. Len(order) - at + 1 |-> at + n - 1])

(* permute: the alternation of every permutation of the arguments. *)
Permute(args) ==
  IF Len(args) < 2 \/ Len(args) > MaxPermuteArgs THEN Rejected
  ELSE LET orders == PermutationsFrom([n \in 1 .. Len(args) |-> n], 1)
       IN  PAlt([o \in 1 .. Len(orders) |->
                   PConcat([n \in 1 .. Len(args) |-> args[orders[o][n]]])])

(* The parser over a written pattern, bottom up; an error anywhere refuses  *)
(* the whole pattern.                                                       *)
RECURSIVE Parse(_)
Parse(p) ==
  IF p.k \in {"empty", "var", "anchor"} THEN p
  ELSE IF p.k = "quant" THEN
    LET inner == Parse(p.inner)
    IN  IF inner = Rejected THEN Rejected
                            ELSE Factor(inner, p.min, p.max, p.greedy)
  ELSE
    LET items == [n \in 1 .. Len(p.items) |-> Parse(p.items[n])]
    IN  CASE Rejected \in Elems(items) -> Rejected
          [] p.k = "permute" /\ Rejected \notin Elems(items) -> Permute(items)
          [] OTHER -> [p EXCEPT !.items = items]

-----------------------------------------------------------------------------
(* The compiler: c is the Compiler, with the instructions emitted so far    *)
(* and whether the program outgrew its limit.                               *)

Char(v) == [op |-> "char", var |-> v]
SplitTo(a, b) == [op |-> "split", a |-> a, b |-> b]
JmpTo(t) == [op |-> "jmp", to |-> t]
Placeholder == JmpTo(0)

Here(c) == Len(c.insts) + 1
Put(c, inst) == [c EXCEPT !.insts = Append(@, inst)]
Patch(c, at, inst) == [c EXCEPT !.insts[at] = inst]

(* Mutants: what is emitted already is not counted; the last one is. *)
WouldOverflowAlone(c, n) == c.too_big \/ n > MaxProgramInsts
WouldOverflowEarly(c, n) == c.too_big \/ Len(c.insts) + n + 1 > MaxProgramInsts

WouldOverflow(c, n) == c.too_big \/ Len(c.insts) + n > MaxProgramInsts
TooBig(c) == [c EXCEPT !.too_big = TRUE]

Copies(p, n) == [k \in 1 .. n |-> p]

(* Mutant: a body of one instruction is taken for granted. *)
BranchOverOne(c, at, first, exit, greedy) ==
  Patch(c, at, IF greedy THEN SplitTo(first, first + 2) ELSE SplitTo(first + 2, first))

Branch(c, at, first, exit, greedy) ==
  Patch(c, at, IF greedy THEN SplitTo(first, exit) ELSE SplitTo(exit, first))

RECURSIVE Emit(_, _), EmitAlt(_, _), EmitQuant(_, _, _, _, _)

Emit(c, p) ==
  IF WouldOverflow(c, 1) THEN TooBig(c)
  ELSE CASE p.k = "empty"  -> c
         [] p.k = "anchor" -> Put(c, [op |-> p.op])
         [] p.k = "var"    -> Put(c, Char(p.var))
         [] p.k = "concat" -> FoldLeft(Emit, c, p.items)
         [] p.k = "alt"    -> EmitAlt(c, p.items)
         [] p.k = "quant"  -> EmitQuant(c, p.inner, p.min, p.max, p.greedy)

(* Each branch but the last is guarded by a Split to the rest and jumps to  *)
(* the common end.                                                          *)
EmitAlt(c, branches) ==
  IF Len(branches) = 1 THEN Emit(c, branches[1])
  ELSE LET split == Here(c)
           body  == Emit(Put(c, Placeholder), Head(branches))
           jmp   == Here(body)
           rest  == EmitAlt(Put(body, Placeholder), Tail(branches))
       IN  Patch(Patch(rest, jmp, JmpTo(Here(rest))),
                 split, SplitTo(split + 1, jmp + 1))

(* inner*: a loop.  inner?: the same without the jump back. *)
EmitStar(c, inner, greedy) ==
  LET split == Here(c)
      body  == Put(Emit(Put(c, Placeholder), inner), JmpTo(split))
  IN  Branch(body, split, split + 1, Here(body), greedy)

EmitOpt(c, inner, greedy) ==
  LET split == Here(c)
      body  == Emit(Put(c, Placeholder), inner)
  IN  Branch(body, split, split + 1, Here(body), greedy)

(* `min` copies, then a loop or `max - min` optional copies; a count that   *)
(* cannot fit is refused before any copy is made.                           *)
EmitQuant(c, inner, min, max, greedy) ==
  LET floor == FoldLeft(Emit, c, Copies(inner, min))
      optional(d, p) == IF d.too_big THEN d ELSE EmitOpt(d, p, greedy)
  IN  IF WouldOverflow(c, IF max > min THEN max ELSE min) THEN TooBig(c)
      ELSE IF max = Unbounded THEN EmitStar(floor, inner, greedy)
      ELSE FoldLeft(optional, floor, Copies(inner, max - min))

(* compile: the program, terminated by Match, or <<>> when it is refused. *)
Compile(p) ==
  LET c == Emit([insts |-> <<>>, too_big |-> FALSE], p)
  IN  IF c.too_big THEN <<>> ELSE Append(c.insts, [op |-> "match"])
=============================================================================
