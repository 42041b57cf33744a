# MATCH_RECOGNIZE: the verification project

TLA+ models, model-checking runs and proofs for `vgi-matchrecognize`, a Rust worker that gives DuckDB the SQL:2016
`MATCH_RECOGNIZE` operator as a table function. Paths are relative to `src/`; `mr-core` and `mr-worker` are
`crates/mr-core/src` and `crates/mr-worker/src`.

1. [The system](#the-system) - inventory: components, state, operations, interactions, what is hard
2. [The plan](#the-plan) - modules, composition, what is done, what is next
3. [The matcher](#the-matcher), [the finalize stream](#the-finalize-stream), [buffering](#buffering),
   [values and measures](#values-and-measures), [partitions](#partitions), [a query before it runs](#a-query-before-it-runs) -
   what each module models, what its runs check and show
4. [What is proved](#what-is-proved)
5. [Bounds](#bounds), [fairness](#fairness), [abstractions](#abstractions)
6. [Findings](#findings), [further disagreements](#further-disagreements), [what is not modelled](#what-is-not-modelled)

## The system

DuckDB calls the worker in three phases. **Sink**: its threads hand over the input in batches (`process`), each tagged
with its index in the input; the worker writes them to a spool on disk. **Combine**: one call, after all sinks ended,
decides how many producers there are and may split the spool by partition key. **Finalize**: each producer reads its
part back, groups it into partitions, sorts and matches each, and streams the output rows in batches. The phases may
run in different processes; only the file system and the SDK's shared store connect them.

| component | state | operations | what makes it correct |
| --- | --- | --- | --- |
| Pattern parser, compiler (`mr-core/pattern`) | the program under construction | parse, factor a quantifier, expand PERMUTE, emit | the program prefers the match the written pattern prefers; its size is bounded; no loop without consuming |
| Matcher (`mr-core/engine/matcher.rs`) | cursor, ip, tape position, binds, stack of alternatives, label index, aggregate memo, step budget, matches | `find_all`, `run` (a VM step), `skip_target`, `predicate_holds` | finds exactly the preferred matches, in order; its caches always describe the current path; it ends |
| Label index, aggregate memo (`bindindex.rs`, `aggmemo.rs`) | positions per label; a fold per call site | push, truncate, clear, last_before; take, extend, put | equal to scanning and folding the path from scratch, through any backtracking |
| Evaluator, values (`eval.rs`, `scalar.rs`, `valops.rs`) | none | evaluate an expression in a frame | SQL's three-valued logic, widths, RUNNING/FINAL horizons |
| Grouping and ordering (`plan.rs`) | partitions as one tape with offsets | `partitions`, `sort_tape`, `apply_permutation` | a partition is a class of equal keys; stable sort, NULLs placed absolutely; the tape is permuted in place |
| Finalize stream (`match_recognize.rs`, `plan.rs`) | next partition, queue of matched runs with a cursor inside a match, batch under construction, rows emitted and to replay | `match_chunk` (threads), `fill_rows`, `emit_rows`, `next_batch`, `restore_resume`, cleanup | the rows of the answer, each once, in order, whatever the batching, threads, rebuilds and retries |
| Sink and spool (`spool.rs`, `buffer.rs`) | a file per thread and execution; table of open files; the SDK's log and its row counts | append, fall back, discard, sweep | nothing is lost silently; files go away |
| Combine and split (`shard.rs`) | one cursor per sink file, an accumulator per shard | `shard_count`, `split`, `flush` | every row goes to one shard, in input order, within a memory bound |
| Read-back (`buffer.rs`) | none | `read_batches`, three checks, sort by index | whole and in input order, or an error |
| Plan building (`plan.rs`, `labels.rs`) | the plan under construction | `Plan::build`: labels, subsets, DEFINE, MEASURES, keys, SKIP, include, columns | a written label means itself; every phase builds the same plan; the sink stores what the plan reads |
| Expression parser (`expr/parser.rs`) | position, depth | `parse_expr` and a `parse_x` per form | SQL's precedence; nothing dropped; bounded nesting |
| Type inference (`types/`) | none | `infer`, `unify` | what binds evaluates to a value of its type |
| Arrow conversion (`arrow_in.rs`, `arrow_out.rs`, `schema.rs`) | batches addressed as one row space | `cell`, `cmp_cells`, `build_column` | a value arrives as itself, as NULL or as an error |
| Lexers, argument declarations, catalog, explain (`args.rs`, `catalog.rs`, `scalar/`) | none | declarations and text | formats |
| SDK, transport, DuckDB (not in the repository) | a shared log; a token per stream | lock-step requests, lost replies | what `src/` assumes of them |

Interactions: the compiler's program drives the matcher; the matcher asks the evaluator about a tentative row, the
evaluator reads the matcher's index and memo; `Plan::match_partition` runs a matcher per partition, on several threads
that share only the immutable plan and store; the finalize stream emits what they found; over HTTP it is destroyed
after each batch and rebuilt from the spool, so the spool must outlive the stream; several producers share one spool
directory, and any new process may sweep it.

What is hard: caches that survive backtracking; preference that is only an order of branches; a batch boundary inside a
match; replay after a rebuild, with lost replies; matching threads finishing in any order; sinks writing in any order
while the input order must be kept; some sinks spooling and some falling back; deleting files others may still need;
phases that see only part of the state. `PROJECT.json` lists each of these with its line and the properties against it.

## The plan

| | modules | status |
| --- | --- | --- |
| A | `BindIndex`, `Matcher`, `PatternCompile`, `PatternSemantics`, `MCMatcher` | done |
| B | `MatcherProofs` | done |
| C | `RowStream` (abstract), `PartitionStream`, `MCPartitionStream`; `SequenceLemmas`, `PartitionStreamProofs` | done |
| D | `Spool`, `Buffering`, `MCBuffering`; `BufferingProofs` | done |
| E | `SqlValues`, `SqlTypes`, `SqlLists` (operators on values, on types and on lists), `Expressions` (evaluation and inference over trees), `Measures` (emit_rows over whole matches), `MCMeasures` | done |
| F | `ArrowData` (columns, cells, the row store), `Calculations`, `Columns`, `MCCells` | done |
| G | `Grouping`, `MCGrouping`, `GroupingProofs`; `ApplyPermutation`, `TapeSort`, `MCTapeSort`, `TapeSortProofs` | done |
| H | `Binding`, `BindingProofs`, `MCBinding` | done |
| I | `ExprParser`, `Compilation`, `Unification`, `MCClauses`, `UnificationProofs` | done |

`PartitionStream` takes partitions and their matches as given, which is what A and G establish; D ends where G begins,
with the relation a producer holds. C shows that `PartitionStream` implements `RowStream` - its safety is proved, its
liveness checked; D's counterpart is `BufferingInvisible`: a producer holds exactly its share of the relation, in input
order. `TapeSort` extends `ApplyPermutation` and runs it on the permutation the sort computed. `Measures`, `Calculations`, `Columns`, `Grouping`
and `TapeSort` share the operators of `SqlValues`, `SqlTypes` and `ArrowData`. `SqlLists` and `Columns` hold what recurses
into lists (rendering, coercion, the conversion of types), so that what is proved about reaches no RECURSIVE operator. `MCCells` and `MCClauses` put machines
that do not interact into one instance: a behaviour runs one of them, the others stay idle.

Theorems worth proving, in order: the matcher's invariants, in-place permutation, the join of argument types, the
finalize stream and its refinement, that buffering never answers short, keeps the input order and conserves rows in the
split; the partitions of `Grouping` and the order of `TapeSort`. All are done.

## The matcher

`Matcher.tla` is `find_all` and `run`, one action per outcome of a VM instruction. A program is a sequence of
instruction records (ip counted from 1), a tape position counts from 0 as in the code.

| code | model |
| --- | --- |
| `find_all` loop head, `run` entry | `Attempt`, `Return` |
| step budget | `Charge`, `Exhausted`, `Overrun`: the step that brings it to 0 fails instead of executing |
| `Inst::Match`, `skip_target`, the cursor | `Accept`, `SkipTarget`, `Advance` |
| `Inst::Jmp`, `Inst::Split` | `Jump`, `Split` |
| `Inst::AnchorStart/End` | `AnchorHolds`, `AnchorFails` |
| `Inst::Char` | `EndOfTape`, `BindRow`, `RejectRow`, `PredicateError` |
| backtracking, `invalidate_aggs` | `Resume`, `GiveUp` |
| `LabelSet::covers`, `BindIndex` | `BindIndex.tla`: `Covers`, `Push`, `Truncate`, `LastBefore` |
| `eval_agg_memoized`, `AggMemo` | `Extend`, `Evaluated`: an accumulator is represented by the rows folded into it |
| `Parser::factor`, PERMUTE, `Compiler` | `PatternCompile.tla`: `Factor`, `Permute`, `Emit`..., `Compile` |

`saved` is a history variable: the binds that were live when each pending alternative was recorded.

`PatternSemantics.tla` is the reference: the matches of a pattern *as written*, in order of preference, by recursion
over its syntax, with no program, stack or cache. The compiler and the matcher are checked against it together.

- Run `matcher`: fourteen patterns (alternation, greedy and reluctant loops, counted and nested quantifiers, PERMUTE,
  anchors, empty patterns) under four skip modes, on every tape of up to three rows over three values, and a job that
  runs out of budget or hits an erroneous predicate. `AltsRestorable` (cutting binds back restores exactly the state an alternative was recorded in); `CachesFresh` and
  `DefineSeesPath` (the index and the memo tell a predicate what a scan and a fold of the tentative path would);
  `MatchesOrdered`; `MatchesArePreferred` (when `find_all` returns, its matches are those of the reference);
  `ScanAdvances` (action property); `AmpleCompletes` (with enough budget every job is answered). That bound rows are
  consecutive (`Contiguous`) and the types are right (`TypeOK`) is proved and no longer run.
- Run `matcher_final` (expected violation of `DefineSeesPath`): the aggregates of DEFINE under FINAL; see
  [Findings](#findings).

Where the standard leaves room the reference states the code's preference: over a body with alternatives, a bounded
reluctant quantifier (`X{0,2}?`) prefers fewer iterations overall, while an unbounded one decides after each iteration
whether to stop.

## The finalize stream

`PartitionStream.tla` is the producer. A query is an abstract shape: partitions with their input rows and the number of
rows each match binds, whether matching one fails, the rows at which a measure fails, ALL ROWS or ONE ROW PER MATCH,
OMIT EMPTY MATCHES, transport, threads. An output row carries *how it was evaluated*: partition, match, row, the match
the label index describes, and the binds its running aggregates were folded over. So a cursor, an index or a memo that
does not survive a batch boundary, or survives a match, makes a different row.

| code | model |
| --- | --- |
| `finalize_producer`, `restore_resume` | `Rebuild`, `RebuildFails` |
| `next_batch` and its replay loop | `Enter`, `Discard`, `SendBatch`, `SendEof` (with `cleanup_spool`) |
| `fill_rows` | `Filled`, `PopDone`, and the actions below |
| `Plan::emit_rows` and `emit_row` | `Emission`, `EmitRow` (one row or one empty match), `EmitFails` |
| `match_chunk` | `StartChunk`, `MatchNext` (one thread, one partition), `Join` |
| the transport | `Continue`, `Receive` (HTTP drops the producer), `Lose` (HTTP: the client asks again with its old token) |

`RowStream.tla` is the promise: the rows of the answer in order, each once, in full batches except the last, then the
end; or an error in place of the rest.

- Run `stream`: `StreamsAnswer` (the producer implements `RowStream`, including that it ends); `CursorExact` (what a
  producer holds is exactly what follows the rows it replayed and sent); `ErrorReproducible` (a failing query fails
  with the error one uninterrupted thread meets first, and never ends well); `SpoolKept` (the spool goes only when no
  row is left to send; a rebuild fails for want of it only after the reply that said so was lost); `OneChunkLive`
  (memory: a batch and a chunk, also in replay). `TypeOK` includes `limit <= TARGET_BATCH_ROWS`.

`SpoolKept` admits one failure: the end-of-stream reply is lost and asked for again. Whether the SDK's transport retries
at all is outside the repository; `MaxLosses` bounds it. `Rebuild` assumes that the relation reads back whole or not at
all, which holds when all sinks used the same buffer (see `buffering` for what the checks do otherwise).

## Buffering

`Spool.tla` is the sink phase, `Buffering.tla` extends it with combine, split and read-back. One execution; a row is
its batch and its place in it, so order and completeness are visible.

| code | model |
| --- | --- |
| a DuckDB sink thread takes a batch | `Take` |
| `process`, `append_batch`, `spool::append` | `AppendSpool`, `AppendStore` (no file could be opened), `AppendFails` |
| the table of open files filling up | `Evict` |
| `sweep` by a new process | `Sweep`: unlinks the directory; handles open on its files become `orphan`, and writes to them succeed |
| the SDK's store | `store`, `counts`, `StoreLoses` |
| `combine`, `shard_count` | `Combine`, `ShardCount`, `Splits` |
| `split`, `flush` | `SplitRecord` (one record of the merge), `SplitEnds`, `SplitFails` |
| `read_batches` | `ReadBack`, `ReadFails`, `Collected` (what is read), `Intact` (its three checks), `ByIndex` (the stable sort, by rank) |
| `cleanup_spool`: `discard`, `discard_shard` | `EndOfStream` |

The deployment, and what may go wrong in it, is the variable `setting`, drawn from `Setting` at the start: `tempOf`
(which temp directory a worker sees), `fileOf` (the file name its pid and thread number give), `serves` (which workers a
sink's calls may reach), and bounds on sweeps and losses.

- Run `buffering`, over three settings: `Failing` (a worker and a file per sink on one host, as over stdio; files may
  fail to open and to be written, open files are evicted), `SweptLate` (the spool is swept while producers run, at any
  point between two rebuilds) and `Unpartitioned` (no PARTITION BY, sinks served by any thread, a store that loses a
  record). `NeverShort` (a producer that read back holds every row of its share), `InputOrderKept` (in input order, each
  once), `SplitConserves` (in the split every row is in exactly one place, and the counts say where), `AccumBounded`,
  `NoSpuriousFailure` (the checks never refuse a whole relation, and no producer deletes what another needs),
  `CleansUp`.
- Run `split_temp` (expected violation of `NeverShort`): containers that share nothing; see [Findings](#findings).
  `SweptSink`, `SharedVolume`, `PooledSinks` and `Uncounted` drop one assumption each; see
  [Further disagreements](#further-disagreements).

## Values and measures

`SqlValues.tla` is `valops.rs`, `value.rs` and the numeric half of `scalar.rs`: comparison, ordering, three-valued
logic, arithmetic, temporal shifts and differences, coercion, rendering. Integers are four, three and nine bits wide
instead of 64, 32 and 128, and wrap, saturate or fail where the code does; a double has a mantissa of three bits, so it
rounds, and carries its NaNs and both zeros. Text is a sequence of codes. `SqlTypes.tla` is `ty.rs` and the operators
of `infer.rs`; `NoType` is a refusal.

`Expressions.tla` is `eval.rs`, `aggmemo.rs` and `infer` over expression trees; `Measures.tla` is `emit_rows` with
`emit_all_row`, `emit_one_row` and `emit_empty_row`, one row a step, with the memo between them. `Calculations.tla` is
one operation on two values, `Columns.tla` one cell on its way in, through the plan and out, over the arms of
`cell_value` and `build_column` in `ArrowData.tla`.

- Run `measures`: expressions of every form over columns of six types, for matches of up to three rows on tapes of
  four, ALL ROWS and ONE ROW. `TypingSound` (an expression that binds never evaluates to a value its column cannot
  hold); `MemoExact` (a row written from folds extended row by row, skipped on rows that do not reach them and shared
  between RUNNING and FINAL readers, is the row a full recomputation gives); `HorizonsKept` (RUNNING sees what DEFINE
  saw when the row was tried, FINAL the whole match).
- Run `cells`: all operators over all pairs of 43 values, all casts, and a cell of every Arrow type through the worker.
  `AnswersTyped`; `TimesExact` (differences are lossless and shifts never wrap, or they fail); `OrdersAgree` (ORDER BY
  is total, NaN, zeros and NULL included, and is the order DEFINE compares by); `CastsReturn` (an integer cast and cast
  back is itself or an error); `CellsReturn` (a key leaves as it came, a measure as `coerce` made it).

Two decimals of one scale may be equal to SQL comparison, which compares them as doubles, and still be told apart by
the sort; `OrdersAgree` asks that the sort refine the comparison.

## Partitions

`Grouping.tla` is `Plan::partitions` with the split that may precede it: the hash of a key chooses a shard; in a shard a
single integer key is grouped by value until a value is no integer (`FallBack`), any other key by its rendering, and
`from_ids` counts, sums and places. A hash is any function that gives equal encodings equal shards: rows are routed by
what `hash_value` feeds the hasher. `TapeSort.tla` is `sort_tape`: by `cmp_cells`, or on copies of the keys
(`ReadKeys`, `SortOnKeys`), after which `ApplyPermutation.tla` moves the tape in place along the cycles (`Open`, `Walk`,
`Close`, `Skip`).

- Run `grouping`: relations over integer, text, NULL, float and decimal keys and over pairs of keys, in one or two
  shards. `PartitionsExact` (the partitions are the classes of "the same key", each row once and ascending);
  `ShardingInvisible` (the shards together give the partitions of the whole).
- Run `grouping_nan` (expected violation of `ShardingInvisible`): NaNs of different bits.
- Run `ordering`: every order of one key of each type `KeyCol` or `cmp_cells` has an arm for, at the ends of its range,
  and of two keys with ties, on tapes of none to four rows out of two batches. Tapes of two or three rows take the
  copied keys, the others the cells. `SortedStable` against an order stated apart from the code - it has one solution,
  so both paths must agree; `Applied` and `WrittenOnce` of the permutation.

## A query before it runs

`Binding.tla` is `Plan::build`, a step per clause in the code's order, each with its refusals, run once by every phase:
labels, SUBSETs, DEFINE, MEASURES, ORDER BY, PARTITION BY, AFTER MATCH SKIP, include, output columns, and the
projection the sink stores by. A name is a spelling and whether it was quoted; an expression is the columns it
mentions, each with the kinds of node it stands under, its qualifiers and its type: `infer`, `collect_columns` and
`eval` are the lists of nodes each of them goes under (`InferNodes`, `CollectNodes`, `EvalNodes`). `ExprParser.tla` is
`expr/parser.rs` over tokens, one operator per `parse_x`. `Compilation.tla` puts a written pattern through
`PatternCompile`. `Unification.tla` is the fold that types COALESCE, GREATEST and LEAST.

- Run `binding`: `LabelsMeanWhatIsWritten` (a written name resolves to the label of its spelling while there is one),
  `PlansAgree` (sink, combine and finalize build plans that differ at most in the numbering of subsets, so labels are
  compared by name),
  `FinalizeReadsWhatWasBound` (a name that finalize turns into an index of its own projected schema is, in a batch a sink
  laid out by another plan, the column the bind typed: dropped columns shift the places, and a column that only stands
  under a CAST, a COUNT or IS NULL is one `infer` never saw). Columns the plan does not read stand before ones it does.
- Run `clauses`: `RoundTrip` (a tree, printed with the parentheses precedence asks for, parses to itself),
  `NothingSilent` (no token is dropped, no interval cut to its field, nothing nests past the limit), `CompiledSound`
  (jumps land, no loop comes back without consuming a row, programs stay within the limit, which refuses only what
  exceeds it), `OrderInvisible` (the type of a call is the join of the set of its arguments' types).

`Grouping`, `TapeSort`, `Binding`, `Measures` and `MCCells` also state a `TypeOK`, and `MCClauses` a `ClausesTypeOK`,
which the runs do not list; they hold under the same .cfg files.

## What is proved

**The matcher** (`MatcherProofs`), for every program, tape, DEFINE, set of labels and call sites, skip mode and budget (assumptions: `LabelAssumption`,
`JobAssumption`, `SiteAssumption` - jobs hold well-formed programs, which is what `compile` makes).

- `LastBeforeIsScan`: an index that is exact for a path answers LAST, at any horizon, as a
  backwards scan does. Rests on: pushing and truncating keep an index exact (`PushExact`, `TruncateExact`).
- `TypeCorrect`, `PathIsContiguous`, `TruncationRestores`. The invariant is
  `IInv == TypeOK /\ PathInv`. `TypeOK` is not inductive: after `Resume`, `binds` is a sequence of the right length only
  because no alternative asks for more rows than are bound. `PathInv` adds that, what each alternative's prefix is, and
  `AltsNested`: alternatives lower on the stack are cut back at least as far. Without `AltsNested`, the ones that stay
  on the stack after a cut could ask for rows that are gone. One lemma per action (`SplitInv`, `ResumeInv`, ...),
  combined in `StepInv` and `Inductive`.
- `CachesStayFresh`, `DefineIsRunning`: under the hypothesis `FinalSite = {}`, which `matcher_final` shows is needed.
- `MatchesInOrder`, `ScanOnlyAdvances`.

**The permutation** (`TapeSortProofs`), for every tape up to `MaxRows`, every permutation of its positions and
every mark above them (`PermDoneAssumption`): `PermutationTyped`, `PermutationApplied`, `PermutationWrittenOnce`.
`Applied` speaks of the end only. `IInv` says of every moment which slots are final: the marked ones hold what their
entry named (`Undisturbed`), an unmarked slot still holds its own, every slot the outer loop passed is marked
(`Passed`), and an unmarked entry names a marked slot only if it is the one that will close the cycle (`Closing`).
Without `Closing` the walk could return into a cycle already applied; it is preserved because the permutation is
injective.

**The order of a tape** (`TapeSortProofs`), for every partition, any number of keys in any direction, and all widths
(`SizesAssumption`, `InputsAssumption`: tapes of ascending rows over cells of the types `cell_value` has an arm for):
`SortExact`, `SortApplied`, `SortWritesOnce`, `SortTyped`. `SortedStable` compares the tape with an order stated on values,
by position on a line and by text; the code compares cells of the store, packed numbers or values. Along these steps:

- `RawTells`, `PlacedTells`, `SortTells`, `CellsTell`, `ColumnTells`: each comparator of the code (`raw_cmp` in place,
  `cmp_present` on values, `cmp_at` on packed numbers) answers Less, Equal or Greater exactly as the stated order does,
  NULLs included.
- `StringsWeak`, `BelowWeak`, `PartBeforeWeak`: the stated order of text, of one key and of all keys in turn is a strict weak
  order - asymmetric, and what lies between two ordered rows is ordered with one of them. Without it a sort promises nothing.
- `LexicographicTells`, `BeforeIs`, `SortedInOrder`: the first term that tells rows apart decides; ranks in a stable sort
  under a strict weak order are a permutation, ascending, with ties by position.
- `SortInv` carries that through the run: until the sort the tape is the partition's (`Untouched`), the copied keys are of
  its rows (`Copied`), what is handed to `apply_permutation` is the tape and the sorting permutation (`Handed`), the
  invariant of the permutation holds meanwhile (`IInv`), and when it is done the tape is in order (`KeySorted`,
  `TapeBy`). So the assumption of `PermutationApplied`, that it is given a permutation, is discharged.

A column of a type without an arm (a list, a Float16, a duration, a year-month interval) reads as NULL in every row; that
such keys tie throughout is what TLC sees, and no theorem says.

**The partitions** (`GroupingProofs`), for every relation, hash and number of shards (`WidthAssumption`,
`KeyedAssumption`):

- `Grouped`, `GroupingTyped`, `RowsOnce` ask nothing of the keys. `IInv` says of the shards that each holds the rows routed
  to it, each once and ascending (`GivenOK`, `ProgressOK`); of the groups, that they are numbered without gaps; and of the
  counting placement, where each cursor stands: behind the rows of its group placed so far (`Lower` plus `Within`). That
  the slots so defined are a permutation with a segment for every group (`FillsPlaces`) is arithmetic on counts,
  proved apart from any keys. Hence every row is in one place of one partition, in the order of the input.
- `KeyedPartitions` adds what the keys decide: two rows of a shard have the same group exactly if the texts of their keys
  are equal - also for groups numbered on raw integers and for those numbered again after a fallback (`KeysOK`,
  `SingleOK`, `PartsKeyed`).
- `GroupingExact`, `ShardingHidden`: equal text is "the same key", so the partitions are its classes; equal encodings have equal
  hashes, so a class is never torn apart by the split.

The last three are of `Plain` relations: values of the column's own variant, or of another integer variant in an integer
column (what Arrow delivers); no text with the control characters that `write_key_part` adds; no negative zero and no
NaNs of both signs; decimals and intervals only if equal ones are alike, since SQL compares them as a double and as
nanoseconds. TLC refutes the conclusions without these (`KeysApart` for text, `KeysTogether` for zeros, `grouping_nan`;
see [Further disagreements](#further-disagreements)). The relations of the run `grouping` are plain
(`PlainAssumption` in `MCGrouping`).

**The types of calls** (`UnificationProofs`), for every set of types and number of arguments
(`UnificationAssumption`): `UnificationTyped`, `JoinCommutes`, `UnificationOrderInvisible`. The invariant is that what
the fold has answered so far is the join of the *set* of types read (`IsJoin(Over(done), acc)`), a statement without an
order. One lemma per row of the lattice says that joining one more type keeps it. Lists, which unify element-wise, are
outside of it.

**The finalize stream** (`PartitionStreamProofs`), for every query - any partitions, matches, failures and bad rows, any
number of threads - every batch, chunk and look-ahead size and any number of lost replies (`LimitAssumption`,
`QueryAssumption`): `StreamTyped`, `StreamBounded`, `StreamCursorExact`, `StreamErrorReproducible`, `StreamSpoolKept`,
and `StreamRefinesRowStream`: `Spec => Stream!SafeSpec`. All follow from one inductive invariant (`StreamInvariant`).
`CursorExact` compares rows with the answer but does not say where the producer *stands*; the invariant does. `Reached`
is the number of rows of the answer before the next one to be emitted, read off the queue, and `CursorOK` says that it is
what was sent, less what is still to be discarded, plus what is held - in every state in which a producer can go on,
between two batches and through a rebuild. It needs `QueueOK` (the queue is what is left of one whole chunk, in
order, only its first run begun, and the next chunk begins where an uninterrupted producer would begin one), `ClientOK`
(the client has the rows its token counts; a batch on its way holds the next ones) and `ErrorOK` (nothing the producer
went past failed), without which "first error" could not be carried across a chunk. Where a row stands in
`FlattenSeq` of the partitions' rows comes from `SequenceLemmas`: lengths, offsets, and what stands between two of them.
The refinement maps every action: `Receive` of a batch is a `Deliver`, `Receive` of the end a `Finish`, of an error a
`Fail`; the rest stutters.

**Buffering** (`BufferingProofs`), for every relation, hash, number of workers, streams and shards, and any number of
sweeps and losses (`SpoolAssumption`, `BufferingAssumption`), in layers that each rest on the ones before:

- `IInv`, in every deployment, whatever fails: the files and the store hold batches of the input (`OwnRecords`), a shard
  only rows of its own keys (`OwnShares`), an accumulator less than a record, and what each phase leaves behind.
  Hence `BufferingTyped` and `SplitMemoryBounded`.
- `SpoolInv`, on one temp directory (`OneTemp`): the counts are those of what is stored, a producer is told to expect what
  is or will be in its file, and a producer that ended left nothing. Hence `NeverRefusedWhole` and `LeavesNothing`.
- `PlacesInv`, on one temp directory and where nothing is lost unseen (`Accountable`): where each batch, and once it is
  split each row, is - held by a sink, kept in a file, unread by the split, handed to its shard - or that its loss shows
  in a count. `NeverShort` itself says only what a producer that passed the checks holds, and nothing before that.
  Hence `NeverShortAnswer`.
- `SinksInv`, in every deployment: a batch is held by one sink or is in one record, of one file or of the store. It needs
  what is held (`HeldOnce`) and what is done with (`OnlyDone`) together: a batch can only be appended twice if a sink
  still holds it afterwards.
- `FilesAscend` and `SplitOrder`, where streams do not share a sink file (`Orderly`): the batches of a file ascend, and a
  sink holds one that comes after all its workers' files have (`Trails`), since batches are taken in order. So the
  merge, which takes the smallest head, never meets an index below one it handed out (`Ahead`): a shard's file is
  in input order, also where rows of several batches share a record under the index of the first (`ShardInOrder`).
  Sorting what is read by index then restores the input order, since no two records have the same index (`Sortable`).
  Hence `InputOrderIsKept`. A relation that is not split is sorted as a whole and needs no ascending files, so
  `Orderly` asks nothing of queries without a PARTITION BY.
- `OnceInv`, which needs no order: no row was handed to a shard twice (`ShardsOnce`), because no shard has a row of a
  batch that is still unread (`UnreadLacked`), because every batch is in one record (`SinksInv`). With the places of
  the rows (`PlacesInv`) and the counts (`SpoolInv`): `SplitConservesRows`. A query that fails stays as it was when it
  failed; the invariants speak of running queries only, so that is a step of its own (`FailingConserves`).
- `BufferingInvisible`: under all three hypotheses a producer that has read its part back holds exactly the rows of
  its share, in input order.

The hypotheses are needed: `split_temp` refutes `NeverShort` without `OneTemp`, and `SharedVolume` and `PooledSinks`
refute `InputOrderKept` where sinks of a query that is split share a file. `Accountable` asks that the spool not be
swept while it is written (`SweptSink`), nor at all where sinks may use the store, and that the store of a relation that
may be split lose nothing (`Uncounted`). Every setting of the run `buffering` satisfies all three.

**Binding** (`BindingProofs`), for every call (`CallsAssumption`: the arguments have the shapes JSON gives them) and every
order in which a HashMap may list the subsets, anew at each phase. The properties speak of finished plans only. `IInv` says of every
stage what `Plan::build` has passed and made (`Progress`): each part of the plan is the function of the call, and of
the labelling chosen, that its step computes, and its guard held. Agreement then rests on lemmas about two labellings
of one call: names resolve by the set of the labels, which is the same in both (`ResolveAlike`); pattern variables stand
first, so they keep their ids (`PatternIdFixed`); hence predicates, measures and every guard are the same
(`PredicatesAlike`, `GuardsAlike`, `AfterAlike`). That the guards are is needed for the invariant itself: `BoundOK`, a
call that was bound is never refused, is preserved by `Refuse` only because no refusal depends on the labelling.

- `PhasesAgree`: `PlansAgree`. A label that is covered is found by name; ids of subsets may differ (`IdsReproducible`,
  refuted below), which nothing that leaves a phase shows.
- `ReadBackByName`: `FinalizeReadsWhatWasBound`. The two plans project alike (`ReferencedAlike`); a stored column is
  determined by how many are stored up to it (`PlaceFixesColumn`, by cardinalities of finite sets); every input column
  of a name that is looked up is stored, so the first of them stays the first, even of names given twice
  (`FirstIsStored`).
- `LabelsAsWritten`: `LabelsMeanWhatIsWritten`. A DEFINE key resolves in the pattern alone, its qualifiers among all
  labels; both give the same reading because the name of a subset is upper case (`VariableIsSpelled`).

What the models' functions over sequences compute - `Total` along a log, `FlattenSeq`, the rank-based `ByIndex`, the rows
of a record that are a shard's - are lemmas of these modules and of `SequenceLemmas`. Where one needs an induction
it is made on the set of positions at which the statement holds (`IntervalInduction`, from the least element of a set
of naturals), since the library's induction rules take operators as parameters.

Only model-checked: `MatchesArePreferred` (the reference is recursive over syntax), `AmpleCompletes` and the liveness
in `StreamsAnswer` (beyond this prover), what rests on recursive operators over expressions, token lists and patterns -
`TypingSound`, `MemoExact`, `HorizonsKept`, `RoundTrip`, `NothingSilent`, `CompiledSound` - and the arithmetic of `cells`,
where every answer is a case of its own.

## Bounds

- Tapes of three rows and patterns of up to three variables: enough for a path to bind two rows, give them back, and
  bind others at the same length - the case every cache can get wrong - and for a match to be followed by another.
  `Ample = 200` steps exceeds what any of these jobs costs; the budgets 1, 2 and 7 run out before, at and inside an
  attempt.
- `TARGET_BATCH_ROWS = 2`, `LOOKAHEAD_ROWS = 3`, `MAX_CHUNK_PARTITIONS = 3`: matches of 0 to 5 rows fall short of, fill
  and exceed a batch; chunks end for each of the three reasons; one to three threads with slices of unequal length.
  `MaxLosses = 2`: a reply and its retry.
- Up to five batches of one to three rows, two sinks, a budget of 2 or 3 rows, `TargetRecord = 2`, two or three shards: relations
  within and beyond the budget, more shards than keys (empty shards), groups that span batches and files, capped shard
  counts. One sweep, one lost record: one is enough to lose data.
- Widths of 4, 3 and 9 bits with values at both ends of each, one off, and past the mantissa: every wrap, saturation and
  rounding of the 64, 32 and 128 bits has a counterpart. A day is 8 nanoseconds, a month 2 days, a second 4 ticks.
- Expressions three operators high, token sequences up to four long, nesting to ten against a limit of eight; patterns
  three constructs deep with counts up to three against a program limit of nine; calls of up to four arguments of
  thirteen types. Precedence relates two operators, a jump its construct and the one around it, a join three types.
- Tapes of up to four rows: a permutation of three has cycles of every length, next to a fixed point; the theorem covers
  the rest. Relations of up to four rows for grouping: two keys, a third value that stops the fast path.

## Fairness

`matcher`: `WF_vars(Next)`; `find_all` is one thread that runs until it returns. `stream`: `WF_vars(Next)`; the
producer's thread does not stop, the scope joins its threads, and the client keeps asking; `RowStream` is fair likewise.
Reply losses are bounded, not unfair. The other modules state safety only.

Deadlock checking is off in every run: each models one query, which really stops.

## Abstractions

- In the matcher a predicate is an operator over the rows, the path, the LAST of each label and the rows folded
  into each aggregate, and an accumulator the sequence of rows folded into it. All its reads happen, as the evaluator's
  AND and OR do not short-circuit. What the accumulators compute is in `Expressions`.
- Bytes are rows: the memory budget, the target record and the batch limits count rows.
- Records are read whole or are missing. Torn records are an error of the reader and are not modelled.
- In buffering the hash of a partition key is a constant function of the key; when keys hash alike is in `Grouping`.
- Text is compared and concatenated, never scanned: the functions on text (UPPER, SUBSTR, ...) are left out, and a cast
  from text succeeds on what a cast to text produced.
- A DECIMAL's declared precision is cut by the parser to eight bits, its scale to eight bits and a sign (`U8Size` values
  of each; the run has four bits, and a scale that turns negative), as in the code.
- SDK, DuckDB and transport are external, modelled from the calls `src/` makes and the comments about them.

## Findings

| run | what the code does | what is said |
| --- | --- | --- |
| `matcher_final` | FINAL before an aggregate in DEFINE is accepted, and its fold is frozen at the first evaluation on a path | `README.md:206`, `matcher.rs:313` |
| `split_temp` | the sink-count guard fires only if nothing at all is read back | `README.md:434` |
| `grouping_nan` | shards hash a double by its bits, groups are formed by rendering: NaNs of different bits are one partition or two | `shard.rs:343` |

## Further disagreements

Each property below says what a comment or a document says, and TLC finds it violated. They have no run of their own:
put the property into the named .cfg in place of its INVARIANTS, with the constant given. `c/` is `crates/mr-core/src/`,
`w/` is `crates/mr-worker/src/`.

| property | .cfg, constant | what the code does | what is said |
| --- | --- | --- | --- |
| `NothingLeftBehind` | MCPartitionStream, `MaxLosses = 0` | a query that fails keeps its spool until a sweep | `README.md:485`, `w/spool.rs:42` |
| `NeverShort` | MCBuffering, `Setting <- SweptSink` | a sweep during a pause of the source longer than the TTL unlinks open files, and what is written afterwards is lost | `w/spool.rs:879`, `README.md:479` |
| `InputOrderKept` | MCBuffering, `Setting <- SharedVolume` | containers on one volume share pid 1 and so one sink file | `w/spool.rs:30` |
| `InputOrderKept` | MCBuffering, `Setting <- PooledSinks` | a thread serving several sinks writes a file out of index order, which the merge assumes never happens | `w/shard.rs:153` |
| `NeverShort` | MCBuffering, `Setting <- Uncounted`, `MaxShards = 2` | a lost fallback batch lets combine split, and the counts are not compared | `w/buffer.rs:38` |
| `IntegersKept` | MCMeasures | `coerce` to BIGINT wraps (`c/engine/valops.rs:507`), so a SUM out of range is another number | `c/types/ty.rs:42`, `c/engine/valops.rs:319` |
| `OutputTyped` | MCMeasures | a TIMESTAMP cast to another unit keeps its old unit (`c/engine/valops.rs:562`) | `c/engine/valops.rs:495` "Coerce a value to a target type" |
| `ClassifierIsVariable` | MCMeasures | CLASSIFIER() on an unbound row answers the qualifier around it, a SUBSET included (`c/engine/eval.rs:190`) | `c/expr/ast.rs:93` |
| `DateDifferenceExact` | MCCells | DATE - DATE is cut to 32 bits (`c/engine/valops.rs:339`) | `c/engine/valops.rs:319` "an error rather than a saturating value" |
| `BoundCanEvaluate` | MCCells | TIME with INTERVAL and INTERVAL with INTERVAL bind and have no arm in `temporal_arith` | `c/engine/valops.rs:333` |
| `BetweenCanHold` | MCCells | BETWEEN over types that do not compare binds | `c/types/infer.rs:66` "Operands must be comparable" |
| `ReferencedIsRead` | MCCells, `Inputs <- MCListed` | a list column may be referenced, and its cells read as NULL (`w/arrow_in.rs:273`) | `w/schema.rs:8` |
| `KeysApart` | MCGrouping, `Keyed <- MCControl` | a string spelled like the NULL sentinel is grouped with NULL | `c/plan.rs:1221` |
| `KeysTogether` | MCGrouping, `Keyed <- MCZeros` | -0.0 and 0.0 are two partitions | `w/shard.rs:343` "regrouped by the real comparator" |
| `PlainCoversItself` | MCBinding, `Calls <- MCCollision` | a SUBSET named like a variable in another case is accepted (`c/plan.rs:1506`) | `c/engine/labels.rs:34` |
| `IdsReproducible` | MCBinding, `Calls <- MCTwoSubsets` | labels are numbered in the order of a HashMap (`c/plan.rs:133`) | `c/engine/labels.rs:29` |
| `AfterNamesWritten` | MCBinding, `Calls <- MCQuoted` | `parse_after` lower-cases a quoted name | `c/plan.rs:1416` |
| `OrderSpecWhole` | MCBinding, `Calls <- MCTrailing` | what follows NULLS FIRST is dropped (`c/plan.rs:1235`) | `c/plan.rs:1234` "Strip a trailing NULLS FIRST" |
| `DistinctColumns` | MCBinding, `Calls <- MCKeyTwice` | a key both of PARTITION BY and ORDER BY is emitted twice under ALL ROWS | `c/plan.rs:181` |
| `ColumnsExist` | MCBinding, `Calls <- MCTyped` or `MCHidden` | a measure with a declared type, or what is under a CAST, is not looked up | `README.md:209` |
| `BoundsBindTighter` | MCClauses, `Inputs <- MCBounds` | `x BETWEEN a AND b \|\| c` concatenates the result (`c/expr/parser.rs:257`) | `c/expr/parser.rs:23` |
| `TreeWithinLimit` | MCClauses, `Inputs <- MCChains` | a chain of operators nests without counting (`c/expr/parser.rs:134`) | `c/expr/parser.rs:31` |
| `RoomForIntegers` | MCClauses | BIGINT with DECIMAL(5,2) is DECIMAL(20,2), 18 digits before the point | `c/types/ty.rs:169` "give it headroom for the integer part" |

They are disagreements between the code and what it says of itself, some only in the environment their setting names:
`SweptSink` needs a source silent for longer than `VGI_BUFFERING_STORE_TTL_SECS`, `Uncounted` a store that loses a batch
but not its count, `PooledSinks` a server that runs requests on a pool of threads, which is the SDK's choice.

## What is not modelled

The expression and pattern lexers and the precedence of the pattern parser: text. `pattern_explain`, the catalog, the
declarations of arguments and the wasm registration: wording and declarations without state; JSON decoding and the
messages of `diag.rs`. The scalar functions on text. `VecRowStore`, which only the tests build; its comparisons are
those of `cmp_for_sort`. Record framing, compression and memory mapping: they are undone before anything modelled looks
at a record. Paging through the SDK's log: the cursor is a bound on an external id. `HashMap`, `DefaultHasher` and
`sort_by` are external: an arbitrary order, any function of what is fed to it, and a stable sort.
