------------------------------- MODULE Matcher -------------------------------
(***************************************************************************)
(* The backtracking matcher (engine/matcher.rs): find_all's scan over the  *)
(* tape of one partition, and inside it `run`, the VM that executes a      *)
(* compiled pattern with an explicit stack of pending alternatives, a step *)
(* budget, a label index and a memo of running aggregates.                 *)
(*                                                                         *)
(* One action per outcome of one VM instruction.  Instructions are counted *)
(* from 1 (the code's ip + 1); tape positions from 0, as in the code, so   *)
(* row p of the tape is rows[p + 1].                                       *)
(***************************************************************************)
EXTENDS BindIndex, FiniteSetsExt

CONSTANTS
  Jobs,       (* The partitions to match: [prog, rows, after, budget].     *)
  Site,       (* The aggregate call sites of the DEFINE predicates that    *)
              (* can be folded incrementally (aggmemo's `memoizable`).     *)
  FinalSite,  (* Those under an explicit FINAL prefix.                     *)
  Reads,      (* Reads[v] = the sites DEFINE[v] evaluates.                 *)
  Define(_, _, _, _, _)
              (* Define(v, rows, path, last, folds): what DEFINE[v]        *)
              (* evaluates to on the tape `rows`, given the visible binds  *)
              (* `path`, the LAST of each label and the rows folded into   *)
              (* each aggregate it reads: "true", "false", "null" or       *)
              (* "error".  An undefined variable is always "true".         *)

(* What a compiled program is: every target is inside it and it cannot be  *)
(* left by falling off its end (`compile` appends Match).                  *)
IsProgram(prog) ==
  /\ Len(prog) \in Nat \ {0}
  /\ \A k \in 1 .. Len(prog) :
       \/ prog[k].op = "match"
       \/ prog[k].op = "jmp" /\ prog[k].to \in 1 .. Len(prog)
       \/ prog[k].op = "split" /\ prog[k].a \in 1 .. Len(prog)
                               /\ prog[k].b \in 1 .. Len(prog)
       \/ prog[k].op \in {"anchor_start", "anchor_end"} /\ k + 1 \in 1 .. Len(prog)
       \/ prog[k].op = "char" /\ prog[k].var \in Var /\ k + 1 \in 1 .. Len(prog)

IsAfter(after) ==
  \/ after.mode \in {"past_last_row", "to_next_row"}
  \/ after.mode \in {"to_first", "to_last"} /\ after.label \in Label

IsJob(j) ==
  /\ IsProgram(j.prog)
  /\ Len(j.rows) \in Nat
  /\ IsAfter(j.after)
  /\ j.budget \in Nat

ASSUME JobAssumption == \A j \in Jobs : IsJob(j)

ASSUME SiteAssumption ==
  /\ FinalSite \subseteq Site
  /\ Reads \in [Var -> SUBSET Site]

VARIABLES
  job,       (* what Matcher::new was given                                *)
  status,    (* where control is: between attempts, in run, or returned    *)
  i,         (* find_all's cursor: the start position of the attempt       *)
  ip, pos,   (* run's instruction pointer and tape position                *)
  binds,     (* the rows bound on the current path                         *)
  stack,     (* the pending alternatives                                   *)
  index,     (* label_index                                                *)
  memo,      (* agg_memo: per site, how many binds are folded, and which   *)
  budget,    (* what is left of the step budget                            *)
  number,    (* match_number                                               *)
  matches,   (* the matches found so far                                   *)
  saved      (* history variable: for each pending alternative, the binds  *)
             (* that were live when it was recorded                        *)

vars == <<job, status, i, ip, pos, binds, stack, index, memo, budget, number,
          matches, saved>>

Prog == job.prog
TapeLen == Len(job.rows)
Bind == [tape_pos : Nat, var : Var]

Final == {"done", "overrun", "error"}

-----------------------------------------------------------------------------
(* Incremental aggregates.                                                  *)

(* Entry::COMPLETE, the `done` mark of a FINAL fold. *)
COMPLETE == -1

NoFolds == [s \in Site |-> [done |-> 0, rows |-> <<>>]]

(* eval_agg_memoized: extend the site's fold to the horizon, the whole of   *)
(* `path`; a finished FINAL fold is returned as it is, and a fold that is   *)
(* ahead of the horizon starts again.  The accumulator is represented by    *)
(* the rows folded into it.                                                 *)
Extend(entry, site, path) ==
  LET from == IF entry.done <= Len(path) THEN entry
                                         ELSE [done |-> 0, rows |-> <<>>]
  IN  IF entry.done = COMPLETE THEN entry
      ELSE [done |-> IF site \in FinalSite THEN COMPLETE ELSE Len(path),
            rows |-> from.rows \o SubSeq(path, from.done + 1, Len(path))]

(* The memo after DEFINE[v] was evaluated over `path`. *)
Evaluated(v, path) ==
  [s \in Site |-> IF s \in Reads[v] THEN Extend(memo[s], s, path) ELSE memo[s]]

-----------------------------------------------------------------------------
(* Evaluating a predicate over a tentative path.                            *)

Candidate(v) == Append(binds, [tape_pos |-> pos, var |-> v])
Indexed(v) == Push(index, Len(binds) + 1, v)

(* What the evaluator is told by the caches... *)
LastRead(v) == [l \in Label |-> LastBefore(Indexed(v), l, Len(Candidate(v)))]
FoldsRead(v) == [s \in Reads[v] |-> Evaluated(v, Candidate(v))[s].rows]

Outcome(v) == Define(v, job.rows, Candidate(v), LastRead(v), FoldsRead(v))

-----------------------------------------------------------------------------
(* find_all.                                                                *)

Init ==
  /\ job \in Jobs
  /\ status = "scan"
  /\ i = 0 /\ ip = 1 /\ pos = 0
  /\ binds = <<>> /\ stack = <<>> /\ saved = <<>>
  /\ index = NoBinds /\ memo = NoFolds
  /\ budget = job.budget
  /\ number = 1 /\ matches = <<>>

(* Mutant: the alternatives an accepted match left pending are not dropped. *)
AttemptKeepsStack ==
  /\ status = "scan"
  /\ i < TapeLen
  /\ status' = "run"
  /\ ip' = 1 /\ pos' = i
  /\ binds' = <<>>
  /\ index' = NoBinds /\ memo' = NoFolds
  /\ UNCHANGED <<job, i, stack, budget, number, matches, saved>>

(* The top of the scan loop: clear what the last attempt left, enter run.   *)
Attempt ==
  /\ status = "scan"
  /\ i < TapeLen
  /\ status' = "run"
  /\ ip' = 1 /\ pos' = i
  /\ binds' = <<>> /\ stack' = <<>> /\ saved' = <<>>
  /\ index' = NoBinds /\ memo' = NoFolds
  /\ UNCHANGED <<job, i, budget, number, matches>>

Return ==
  /\ status = "scan"
  /\ i >= TapeLen
  /\ status' = "done"
  /\ UNCHANGED <<job, i, ip, pos, binds, stack, index, memo, budget, number,
                 matches, saved>>

(* Mutant: SKIP PAST LAST ROW resumes on the last row of the match. *)
SkipTargetLastRow(after, m) ==
  IF after.mode = "past_last_row" THEN m.end - 1 ELSE m.start + 1

(* skip_target: where AFTER MATCH SKIP resumes; a label no row of the match *)
(* is bound to falls back to the end of the match.                          *)
SkipTarget(after, m) ==
  LET covered == {k \in 1 .. Len(m.binds) : Covers(after.label, m.binds[k].var)}
  IN  CASE after.mode = "past_last_row" -> m.end
        [] after.mode = "to_next_row" -> m.start + 1
        [] after.mode = "to_first" /\ covered # {} -> m.binds[Min(covered)].tape_pos
        [] after.mode = "to_last" /\ covered # {} -> m.binds[Max(covered)].tape_pos
        [] OTHER -> m.end

(* Mutant: a skip to the row the match started on is taken literally. *)
AdvanceStuck(from, next) == IF next >= from THEN next ELSE from + 1

(* The scan always moves on by at least one row. *)
Advance(from, next) == IF next > from THEN next ELSE from + 1

-----------------------------------------------------------------------------
(* run: one VM step.                                                        *)

(* Every step is charged first, and the step that exhausts the budget fails *)
(* the partition instead of executing.                                      *)
Charge == budget' = budget - 1
Exhausted == budget - 1 <= 0

Executes(op) ==
  /\ status = "run"
  /\ Charge
  /\ ~Exhausted
  /\ Prog[ip].op = op

Overrun ==
  /\ status = "run"
  /\ Charge
  /\ Exhausted
  /\ status' = "overrun"
  /\ UNCHANGED <<job, i, ip, pos, binds, stack, index, memo, number, matches,
                 saved>>

Accept ==
  /\ Executes("match")
  /\ LET m == [match_number |-> number, start |-> i, end |-> pos, binds |-> binds]
     IN  /\ matches' = Append(matches, m)
         /\ i' = Advance(i, SkipTarget(job.after, m))
  /\ number' = number + 1
  /\ binds' = <<>>
  /\ status' = "scan"
  /\ UNCHANGED <<job, ip, pos, stack, index, memo, saved>>

Jump ==
  /\ Executes("jmp")
  /\ ip' = Prog[ip].to
  /\ UNCHANGED <<job, status, i, pos, binds, stack, index, memo, number, matches,
                 saved>>

(* Mutant: the alternative resumes one row later than it was recorded. *)
SplitNextRow ==
  /\ Executes("split")
  /\ stack' = Append(stack, [ip |-> Prog[ip].b, pos |-> pos + 1, binds_len |-> Len(binds)])
  /\ saved' = Append(saved, binds)
  /\ ip' = Prog[ip].a
  /\ UNCHANGED <<job, status, i, pos, binds, index, memo, number, matches>>

(* Take the first target now, keep the second for later. *)
Split ==
  /\ Executes("split")
  /\ stack' = Append(stack, [ip |-> Prog[ip].b, pos |-> pos, binds_len |-> Len(binds)])
  /\ saved' = Append(saved, binds)
  /\ ip' = Prog[ip].a
  /\ UNCHANGED <<job, status, i, pos, binds, index, memo, number, matches>>

(* Mutants: binds are not cut back; the folds are not dropped. *)
ResumeWith(indexed, path, folds) ==
  LET alt == stack[Len(stack)]
  IN  /\ stack # <<>>
      /\ stack' = SubSeq(stack, 1, Len(stack) - 1)
      /\ saved' = SubSeq(saved, 1, Len(saved) - 1)
      /\ ip' = alt.ip
      /\ pos' = alt.pos
      /\ binds' = path
      /\ index' = Truncate(indexed, alt.binds_len)
      /\ memo' = folds
      /\ UNCHANGED <<job, status, i, number, matches>>
ResumeKeepsBinds(indexed) == ResumeWith(indexed, binds, NoFolds)
ResumeKeepsFolds(indexed) ==
  ResumeWith(indexed, SubSeq(binds, 1, stack[Len(stack)].binds_len), memo)

(* An instruction failed: resume the most recent alternative, or give the   *)
(* start position up when none is left.  `indexed` is the index as the      *)
(* failed instruction leaves it.                                            *)
Resume(indexed) ==
  LET alt == stack[Len(stack)]
  IN  /\ stack # <<>>
      /\ stack' = SubSeq(stack, 1, Len(stack) - 1)
      /\ saved' = SubSeq(saved, 1, Len(saved) - 1)
      /\ ip' = alt.ip
      /\ pos' = alt.pos
      /\ binds' = SubSeq(binds, 1, alt.binds_len)
      /\ index' = Truncate(indexed, alt.binds_len)
      /\ memo' = NoFolds
      /\ UNCHANGED <<job, status, i, number, matches>>

GiveUp(indexed) ==
  /\ stack = <<>>
  /\ binds' = <<>>
  /\ index' = Truncate(indexed, 0)
  /\ memo' = NoFolds
  /\ i' = i + 1
  /\ status' = "scan"
  /\ UNCHANGED <<job, ip, pos, stack, number, matches, saved>>

Backtrack(indexed) == Resume(indexed) \/ GiveUp(indexed)

(* The edge of the partition an anchor asks for. *)
AtEdge(op) == IF op = "anchor_start" THEN pos = 0 ELSE pos = TapeLen

AnchorHolds(op) ==
  /\ Executes(op)
  /\ AtEdge(op)
  /\ ip' = ip + 1
  /\ UNCHANGED <<job, status, i, pos, binds, stack, index, memo, number, matches,
                 saved>>

AnchorFails(op) ==
  /\ Executes(op)
  /\ ~AtEdge(op)
  /\ Backtrack(index)

EndOfTape ==
  /\ Executes("char")
  /\ pos >= TapeLen
  /\ Backtrack(index)

(* A row is there: index it, bind it, and evaluate the predicate over it.   *)
BindRow ==
  /\ Executes("char")
  /\ pos < TapeLen
  /\ LET v == Prog[ip].var
     IN  /\ Outcome(v) = "true"
         /\ index' = Indexed(v)
         /\ binds' = Candidate(v)
         /\ memo' = Evaluated(v, Candidate(v))
  /\ ip' = ip + 1
  /\ pos' = pos + 1
  /\ UNCHANGED <<job, status, i, stack, number, matches, saved>>

(* FALSE and NULL both reject; the row is unbound again before backtracking. *)
RejectRow ==
  /\ Executes("char")
  /\ pos < TapeLen
  /\ LET v == Prog[ip].var
     IN  /\ Outcome(v) \in {"false", "null"}
         /\ Backtrack(Truncate(Indexed(v), Len(binds)))

(* An evaluation error leaves find_all at once, dropping the matcher. *)
PredicateError ==
  /\ Executes("char")
  /\ pos < TapeLen
  /\ Outcome(Prog[ip].var) = "error"
  /\ status' = "error"
  /\ UNCHANGED <<job, i, ip, pos, binds, stack, index, memo, number, matches,
                 saved>>

Next ==
  \/ Attempt \/ Return
  \/ Overrun
  \/ Accept \/ Jump \/ Split
  \/ \E op \in {"anchor_start", "anchor_end"} : AnchorHolds(op) \/ AnchorFails(op)
  \/ EndOfTape \/ BindRow \/ RejectRow \/ PredicateError

Spec == Init /\ [][Next]_vars

(* find_all is one thread that runs to its return. *)
FairSpec == Spec /\ WF_vars(Next)

-----------------------------------------------------------------------------
(* Properties.                                                              *)

Alt == [ip : 1 .. Len(Prog), pos : 0 .. TapeLen, binds_len : Nat]
Match == [match_number : Nat, start : Nat, end : Nat, binds : Seq(Bind)]

(* Every variable of the matcher has its type, and control never leaves the *)
(* program or the tape.                                                     *)
TypeOK ==
  /\ IsJob(job)
  /\ status \in {"scan", "run"} \cup Final
  /\ i \in Nat
  /\ ip \in 1 .. Len(Prog)
  /\ pos \in 0 .. TapeLen
  /\ binds \in Seq(Bind)
  /\ stack \in Seq(Alt)
  /\ index \in [Label -> Seq(Nat)]
  /\ memo \in [Site -> [done : Nat \cup {COMPLETE}, rows : Seq(Bind)]]
  /\ budget \in Int
  /\ number \in Nat
  /\ matches \in Seq(Match)
  /\ saved \in Seq(Seq(Bind))

(* Contiguity: the rows bound on a path are consecutive from the start of   *)
(* the attempt, and the next row to bind is the one after them.  The binary *)
(* search of var_at_tp relies on it.                                        *)
Contiguous ==
  status = "run" =>
    /\ pos = i + Len(binds)
    /\ \A k \in 1 .. Len(binds) : binds[k].tape_pos = i + k - 1

(* Truncation restores an alternative: the prefix of binds each pending     *)
(* alternative will be cut back to is exactly the binding state that was    *)
(* live when the alternative was recorded (the claim on `struct Alt`).      *)
AltsRestorable ==
  status = "run" =>
    /\ Len(saved) = Len(stack)
    /\ \A k \in 1 .. Len(stack) :
         /\ stack[k].binds_len <= Len(binds)
         /\ stack[k].pos = i + stack[k].binds_len
         /\ saved[k] = SubSeq(binds, 1, stack[k].binds_len)

(* The caches never outlive the path they describe, through any sequence of *)
(* binds, rejections and restored alternatives: the label index lists       *)
(* exactly the rows bound on it, and the fold of each aggregate site is     *)
(* over a prefix of it, row for row (`invalidate_aggs`).                    *)
IndexExact == Exact(index, binds)

MemoFresh ==
  \A s \in Site :
    /\ memo[s].done \in 0 .. Len(binds)
    /\ memo[s].rows = SubSeq(binds, 1, memo[s].done)

CachesFresh == status = "run" => IndexExact /\ MemoFresh

(* A DEFINE predicate sees the rows matched so far and nothing else: what   *)
(* the index and the memo are about to tell it is what scanning and folding *)
(* the tentative path from scratch would tell it.                           *)
DefineSeesPath ==
  status = "run" /\ Prog[ip].op = "char" /\ pos < TapeLen =>
    LET v == Prog[ip].var
    IN  /\ \A l \in Label : LastRead(v)[l]
                              = LastByScan(Candidate(v), l, Len(Candidate(v)))
        /\ \A s \in Reads[v] : FoldsRead(v)[s] = Candidate(v)

(* Matches are reported in tape order, numbered from 1 without gaps, each   *)
(* spanning exactly the rows it binds; under SKIP PAST LAST ROW no row is   *)
(* in two matches.                                                          *)
MatchesOrdered ==
  /\ number = Len(matches) + 1
  /\ \A k \in 1 .. Len(matches) :
       /\ matches[k].match_number = k
       /\ matches[k].end = matches[k].start + Len(matches[k].binds)
       /\ matches[k].start < i
       /\ job.after.mode = "past_last_row" => matches[k].end <= i
  /\ \A k, m \in 1 .. Len(matches) : k < m =>
       /\ matches[k].start < matches[m].start
       /\ job.after.mode = "past_last_row" => matches[k].end <= matches[m].start

(* The scan's cursor only moves forward, an attempt always ends with the    *)
(* cursor past its start, and a reported match is never changed.            *)
ScanAdvances ==
  [][/\ i' >= i
     /\ status = "run" /\ status' = "scan" => i' > i
     /\ Len(matches') >= Len(matches)
     /\ SubSeq(matches', 1, Len(matches)) = matches]_vars
=============================================================================
