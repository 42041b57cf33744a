--------------------------- MODULE PatternSemantics ---------------------------
(***************************************************************************)
(* What a row pattern means, written without a program, a stack or caches: *)
(* the paths (sequences of bound rows) a pattern has from a start row,     *)
(* most preferred first.  The matcher is to find, at each start, the first *)
(* of them.                                                                *)
(*                                                                         *)
(* Preference is the language's: the left branch of an alternation first;  *)
(* a greedy quantifier prefers one more iteration, whatever its branches;  *)
(* an unbounded reluctant one prefers to stop; a bounded reluctant one     *)
(* prefers fewer iterations, then better ones; PERMUTE prefers the order   *)
(* written.  For TLC only (RECURSIVE).                                     *)
(***************************************************************************)
EXTENDS Matcher, PatternCompile

(* DEFINE[v] over a path, from scans and whole folds. *)
Satisfied(v, rows, path) ==
  Define(v, rows, path, [l \in Label |-> LastByScan(path, l, Len(path))],
         [s \in Reads[v] |-> path]) = "true"

(* Apply Then to each path of a list, keeping the order of preference. *)
Each(list, Then(_)) == FoldLeft(LAMBDA acc, x : acc \o Then(x), <<>>, list)

(* The orders of 1 .. n, lexicographically. *)
RECURSIVE Orders(_)
Orders(S) ==
  IF S = {} THEN << <<>> >>
  ELSE Each(SetToSortSeq(S, <), LAMBDA n :
         LET rest == Orders(S \ {n})
         IN  [m \in 1 .. Len(rest) |-> <<n>> \o rest[m]])

RECURSIVE Paths(_, _, _, _), InTurn(_, _, _, _), Repeat(_, _, _, _, _),
          UpTo(_, _, _, _, _), Looped(_, _, _, _, _)

(* The paths of p that extend `path`, for an attempt that started at row    *)
(* `start` of the tape.                                                     *)
Paths(p, rows, start, path) ==
  LET row == start + Len(path)
      bound(v) == Append(path, [tape_pos |-> row, var |-> v])
  IN  CASE p.k = "empty" -> <<path>>
        [] p.k = "anchor" ->
             IF row = (IF p.op = "anchor_start" THEN 0 ELSE Len(rows))
             THEN <<path>> ELSE <<>>
        [] p.k = "var" ->
             IF row < Len(rows) /\ Satisfied(p.var, rows, bound(p.var))
             THEN <<bound(p.var)>> ELSE <<>>
        [] p.k = "concat" -> InTurn(p.items, rows, start, path)
        [] p.k = "alt" ->
             Each(p.items, LAMBDA q : Paths(q, rows, start, path))
        [] p.k = "permute" ->
             Each(Orders(DOMAIN p.items), LAMBDA o :
               InTurn([n \in DOMAIN o |-> p.items[o[n]]], rows, start, path))
        [] p.k = "quant" ->
             Each(Repeat(p.inner, p.min, rows, start, path), LAMBDA x :
               IF p.max = Unbounded THEN Looped(p.inner, p.greedy, rows, start, x)
               ELSE IF p.greedy THEN UpTo(p.inner, p.max - p.min, rows, start, x)
               ELSE Each([n \in 1 .. p.max - p.min + 1 |-> n - 1],
                         LAMBDA n : Repeat(p.inner, n, rows, start, x)))

InTurn(ps, rows, start, path) ==
  IF ps = <<>> THEN <<path>>
  ELSE Each(Paths(Head(ps), rows, start, path),
            LAMBDA x : InTurn(Tail(ps), rows, start, x))

(* Exactly n iterations. *)
Repeat(p, n, rows, start, path) ==
  IF n = 0 THEN <<path>>
  ELSE Each(Paths(p, rows, start, path),
            LAMBDA x : Repeat(p, n - 1, rows, start, x))

(* At most n iterations, more preferred. *)
UpTo(p, n, rows, start, path) ==
  IF n = 0 THEN <<path>>
  ELSE Each(Paths(p, rows, start, path),
            LAMBDA x : UpTo(p, n - 1, rows, start, x)) \o <<path>>

(* Any number of iterations; one that consumes no row is the last. *)
Looped(p, greedy, rows, start, path) ==
  LET more == Each(Paths(p, rows, start, path), LAMBDA x :
                IF x = path THEN <<x>> ELSE Looped(p, greedy, rows, start, x))
  IN  IF greedy THEN more \o <<path>> ELSE <<path>> \o more

(* Where the scan resumes after a match: the named row, or past the end,    *)
(* but always beyond the start.                                             *)
ResumeRow(after, m) ==
  LET named == {b \in Elems(m.binds) :
                  after.mode \in {"to_first", "to_last"} /\ b.var \in Members[after.label]}
      rows  == {b.tape_pos : b \in named}
      beyond(n) == IF n > m.start THEN n ELSE m.start + 1
  IN  CASE after.mode = "to_next_row" -> m.start + 1
        [] after.mode = "to_first" /\ rows # {} ->
             beyond(CHOOSE n \in rows : \A r \in rows : n <= r)
        [] after.mode = "to_last" /\ rows # {} ->
             beyond(CHOOSE n \in rows : \A r \in rows : n >= r)
        [] OTHER -> beyond(m.end)

(* Every match of a tape, scanning from row `from`, the next one numbered n. *)
RECURSIVE AllMatches(_, _, _, _, _)
AllMatches(p, rows, after, from, n) ==
  IF from >= Len(rows) THEN <<>>
  ELSE LET paths == Paths(p, rows, from, <<>>)
           m == [match_number |-> n, start |-> from,
                 end |-> from + Len(paths[1]), binds |-> paths[1]]
       IN  IF paths = <<>> THEN AllMatches(p, rows, after, from + 1, n)
           ELSE <<m>> \o AllMatches(p, rows, after, ResumeRow(after, m), n + 1)

(* The matcher's answer is the language's: when find_all returns, it has    *)
(* found exactly the matches the written pattern has, each the most         *)
(* preferred at its start row, resuming where AFTER MATCH SKIP says.        *)
MatchesArePreferred ==
  status = "done" =>
    matches = AllMatches(job.pattern, job.rows, job.after, 0, 1)
=============================================================================
