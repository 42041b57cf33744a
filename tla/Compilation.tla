---------------------------- MODULE Compilation ----------------------------
(***************************************************************************)
(* A written pattern on its way to a program: parsed, then compiled, or    *)
(* refused by either.  What the matcher relies on without looking: that    *)
(* every jump lands, that no loop goes round without consuming a row, and  *)
(* that a program never outgrows its limit by more than the jumps that     *)
(* close what was open.                                                    *)
(***************************************************************************)
EXTENDS PatternCompile, FiniteSetsExt

CONSTANT Written  \* the patterns that are written

VARIABLES pattern, insts, compiling

programVars == <<pattern, insts, compiling>>

CompilationInit == pattern \in Written /\ insts = <<>> /\ compiling = "written"

ParsePattern ==
  /\ compiling = "written"
  /\ pattern' = (IF Parse(pattern) = Rejected THEN pattern ELSE Parse(pattern))
  /\ compiling' = (IF Parse(pattern) = Rejected THEN "refused" ELSE "parsed")
  /\ UNCHANGED insts

CompilePattern ==
  /\ compiling = "parsed"
  /\ insts' = Emit([insts |-> <<>>, too_big |-> FALSE], pattern).insts
  /\ compiling' = (IF Compile(pattern) = <<>> THEN "too big" ELSE "compiled")
  /\ UNCHANGED pattern

CompilationNext == ParsePattern \/ CompilePattern

CompilationSpec == CompilationInit /\ [][CompilationNext]_programVars

----------------------------------------------------------------------------
\* The size of a program, without building it.
SumOf(sizes) == FoldLeft(LAMBDA a, b : a + b, 0, sizes)

RECURSIVE Size(_)
Size(p) ==
  CASE p.k = "empty" -> 0
    [] p.k \in {"var", "anchor"} -> 1
    [] p.k = "concat" -> SumOf([i \in DOMAIN p.items |-> Size(p.items[i])])
    [] p.k = "alt" -> SumOf([i \in DOMAIN p.items |-> Size(p.items[i])]) + 2 * (Len(p.items) - 1)
    [] p.k = "quant" ->
         p.min * Size(p.inner)
           + (IF p.max = Unbounded THEN Size(p.inner) + 2
              ELSE IF p.max > p.min THEN (p.max - p.min) * (Size(p.inner) + 1) ELSE 0)

RECURSIVE Depth(_)
Depth(p) ==
  CASE p.k = "quant" -> 1 + Depth(p.inner)
    [] p.k \in {"concat", "alt"} -> 1 + Max({Depth(p.items[i]) : i \in DOMAIN p.items})
    [] OTHER -> 0

\* Where a program may be after the instruction at `at`, without consuming a row.
Onward(at) ==
  CASE insts[at].op = "split" -> {insts[at].a, insts[at].b}
    [] insts[at].op = "jmp" -> {insts[at].to}
    [] insts[at].op \in {"anchor_start", "anchor_end"} -> {at + 1}
    [] OTHER -> {}

RECURSIVE Reached(_, _)
Reached(from, n) ==
  IF n = 0 THEN from
  ELSE Reached(from \cup UNION {Onward(at) : at \in from \cap DOMAIN insts}, n - 1)

----------------------------------------------------------------------------
\* A written pattern is refused by the parser, refused by the compiler, or run: and it is run only
\* as the whole program compile returns for it, never as what a compiler that gave up had emitted.
CompilationTypeOK ==
  /\ compiling \in {"written", "parsed", "compiled", "refused", "too big"}
  /\ insts # <<>> => compiling \in {"compiled", "too big"}
  /\ compiling = "compiled" => Compile(pattern) = Append(insts, [op |-> "match"])

\* Every jump of a compiled program lands in it or on the Match at its end: no placeholder of
\* emit_alt, emit_star or emit_opt is left, nor patched with a place counted too soon.
JumpsLand ==
  compiling = "compiled" => \A at \in DOMAIN insts : Onward(at) \subseteq 1..(Len(insts) + 1) /\ insts[at] # Placeholder

\* A program never comes back to an instruction without consuming a row: the matcher has no check
\* of its own for it, and relies on the parser having refused or collapsed every such loop.
NoEmptyLoop ==
  compiling = "compiled" => \A at \in DOMAIN insts : at \notin Reached(Onward(at), Len(insts))

\* However counts multiply, what is emitted before the compiler stops stays at its limit, but for
\* one jump and one split of each construct that was open.
ProgramBounded == Len(insts) <= MaxProgramInsts + 2 * Depth(pattern)

\* And what is refused was too big: a pattern whose program is under the limit compiles, to a
\* program of exactly its size.
FittingCompiles ==
  /\ compiling = "too big" => Size(pattern) >= MaxProgramInsts
  /\ compiling = "compiled" => Len(insts) = Size(pattern)
=============================================================================
