------------------------------ MODULE MCMatcher ------------------------------
(***************************************************************************)
(* Instances of the matcher for TLC: every tape of up to three rows over a *)
(* few cell values, under patterns and predicates chosen so that           *)
(* backtracking gives rows back after the index and the memo absorbed them *)
(* and the same prefix length then holds other rows.                       *)
(*                                                                         *)
(*   A            undefined, so always true                                *)
(*   B AS val > A.val             reads the label index; NULL before any A *)
(*   C AS COUNT(C.* ) <= 2        reads a running fold                     *)
(*   D AS SUM(U.val) <= 3 AND val >= U.val,  SUBSET U = (A, D)             *)
(*                                reads both; a value of 9 is an error     *)
(***************************************************************************)
EXTENDS PatternSemantics, TLC

MCVar == {"A", "B", "C", "D"}
MCLabel == MCVar \cup {"U"}
MCMembers == [l \in MCLabel |-> IF l = "U" THEN {"A", "D"} ELSE {l}]

MCSite == {"countC", "sumU"}
MCReads == [v \in MCVar |-> CASE v = "C" -> {"countC"}
                              [] v = "D" -> {"sumU"}
                              [] OTHER -> {}]

Truth(b) == IF b THEN "true" ELSE "false"

MCDefine(v, rows, path, last, folds) ==
  LET val(b) == rows[b.tape_pos + 1]
      here   == val(path[Len(path)])
      scope(site, label) == SelectSeq(folds[site], LAMBDA b : Covers(label, b.var))
      sum(s) == FoldLeft(LAMBDA acc, b : acc + val(b), 0, s)
  IN  CASE v = "A" -> "true"
        [] v = "B" -> IF last["A"] = 0 THEN "null"
                      ELSE Truth(here > val(path[last["A"]]))
        [] v = "C" -> Truth(Len(scope("countC", "C")) <= 2)
        [] v = "D" -> IF here = 9 THEN "error"
                      ELSE Truth(/\ sum(scope("sumU", "U")) <= 3
                                 /\ here >= val(path[last["U"]]))

-----------------------------------------------------------------------------

a == PVar("A")  b == PVar("B")  c == PVar("C")  d == PVar("D")
Star(p) == PQuant(p, 0, Unbounded, TRUE)
Plus(p) == PQuant(p, 1, Unbounded, TRUE)
Opt(p)  == PQuant(p, 0, 1, TRUE)
Lazy(p) == [p EXCEPT !.greedy = FALSE]
Caret == PAnchor("anchor_start")
Dollar == PAnchor("anchor_end")

Patterns == {
  PConcat(<<a, Star(b)>>),
  PConcat(<<Plus(a), b>>),
  PConcat(<<Lazy(Plus(a)), Plus(b)>>),
  PConcat(<<Star(c), d>>),
  PConcat(<<Star(PAlt(<<b, a>>)), d>>),
  PConcat(<<Plus(PAlt(<<d, PConcat(<<a, b>>)>>)), Opt(c), Dollar>>),
  PAlt(<<PConcat(<<a, c, d>>), PConcat(<<c, a>>), b>>),
  PConcat(<<PQuant(PAlt(<<a, b>>), 0, 2, FALSE), d>>),
  PConcat(<<PQuant(PAlt(<<c, PConcat(<<a, b>>)>>), 1, 2, TRUE), d>>),
  PPermute(<<b, c, a>>),
  PConcat(<<Star(PEmpty), PQuant(Caret, 2, Unbounded, TRUE), c, Star(c)>>),
  PConcat(<<Star(d), PQuant(PAlt(<<Opt(b), a>>), 0, 2, TRUE), Dollar>>),
  Star(b),
  PAlt(<<PConcat(<<Opt(d), b>>), PEmpty>>)
}

Afters == {[mode |-> "past_last_row"], [mode |-> "to_next_row"],
           [mode |-> "to_first", label |-> "B"], [mode |-> "to_last", label |-> "U"]}

(* No tape here costs this many steps. *)
Ample == 200

JobsOver(patterns, afters, tapes, budgets) ==
  {[pattern |-> p, prog |-> Compile(Parse(p)), after |-> s, rows |-> t, budget |-> n] :
     p \in patterns, s \in afters, t \in tapes, n \in budgets}

Tapes(n, values) == UNION {[1 .. k -> values] : k \in 0 .. n}

MCJobs == JobsOver(Patterns, Afters, Tapes(3, 0 .. 2), {Ample})
     \cup JobsOver({PConcat(<<Star(c), d>>)}, {[mode |-> "past_last_row"]},
                   Tapes(3, {1, 9}), {1, 2, 7, Ample})

NoSites == {}

-----------------------------------------------------------------------------

(* The outer loop ends by itself: every job with an ample budget is         *)
(* answered (or fails on an erroneous predicate) without exhausting it.     *)
AmpleCompletes == (job.budget = Ample) ~> (status \in {"done", "error"})
=============================================================================
