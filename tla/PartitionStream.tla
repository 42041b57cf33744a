--------------------------- MODULE PartitionStream ---------------------------
(***************************************************************************)
(* The finalize producer (mr-worker's PartitionStream over mr-core's       *)
(* PartitionRun): partitions are matched a chunk at a time by several      *)
(* threads, their rows are emitted a batch at a time from a cursor that    *)
(* may stop inside a match, and over HTTP the producer is thrown away      *)
(* after every batch and rebuilt from the spool for the next one, which it *)
(* reaches by replaying and discarding the rows the client already has.    *)
(*                                                                         *)
(* A query is a record [parts, all, omit, http, threads]; a partition is   *)
(* [rows, matches, fails, bad]: how many input rows it has, how many rows  *)
(* each of its matches binds, whether matching it fails, and the rows      *)
(* <<match, row>> at which evaluating a measure fails.                     *)
(* Partitions, matches and rows are counted from 1.                        *)
(***************************************************************************)
EXTENDS Naturals, Sequences, FiniteSetsExt, SequencesExt

CONSTANTS
  Queries,
  TARGET_BATCH_ROWS, LOOKAHEAD_ROWS, MAX_CHUNK_PARTITIONS,
  MaxLosses     (* Bound: how many replies the transport loses per query.  *)

ASSUME LimitAssumption ==
  /\ TARGET_BATCH_ROWS \in Nat \ {0}
  /\ LOOKAHEAD_ROWS \in Nat
  /\ MAX_CHUNK_PARTITIONS \in Nat \ {0}
  /\ MaxLosses \in Nat

ASSUME QueryAssumption ==
  Queries \subseteq
    [parts : Seq([rows : Nat, matches : Seq(Nat), fails : BOOLEAN,
                  bad : SUBSET (Nat \X Nat)]),
     all : BOOLEAN, omit : BOOLEAN, http : BOOLEAN, threads : Nat \ {0}]

VARIABLES
  query,
  (* The client. *)
  delivered,     (* the rows it has received                               *)
  token,         (* the resume state of its last batch: a row count        *)
  outcome,       (* "open", "done" or "error"                              *)
  losses,        (* replies lost so far                                    *)
  (* The producer, and where its thread is. *)
  pc, reply,
  alive,         (* whether a producer is held between two requests        *)
  next_part, ready, rows, limit, emitted_rows, resume_skip,
  (* One match_chunk. *)
  chunk,         (* [from, to]: the partitions being matched               *)
  matched,       (* those whose slot is filled                             *)
  (* The execution's spool directory: "kept" or "gone". *)
  spool

client == <<delivered, token, outcome, losses>>
cursor == <<next_part, ready, rows, limit, emitted_rows, resume_skip>>
vars == <<query, client, pc, reply, alive, cursor, chunk, matched, spool>>

Parts == query.parts
NumParts == Len(Parts)

-----------------------------------------------------------------------------
(* One partition's run: Plan::match_partition and Plan::emit_rows.          *)

(* What match_partition returns: a cursor before the first match.           *)
NewRun(p) == [part |-> p, mi |-> 1, ri |-> 0, loaded |-> FALSE,
              index |-> 0, memo |-> <<>>]

IsDone(run) == run.mi > Len(Parts[run.part].matches)
Bound(run) == Parts[run.part].matches[run.mi]

(* Mutant: the folds of one match carry over into the next. *)
LoadedKeepsMemo(run) ==
  IF run.loaded THEN run ELSE [run EXCEPT !.loaded = TRUE, !.index = run.mi]

(* Index the match's binds and start its folds afresh, once per match.      *)
Loaded(run) ==
  IF run.loaded THEN run
  ELSE [run EXCEPT !.loaded = TRUE, !.index = run.mi, !.memo = <<>>]

(* The fold an aggregate is at once it saw the first k binds.               *)
Folded(run, k) ==
  run.memo \o [j \in 1 .. k - Len(run.memo) |-> <<run.mi, Len(run.memo) + j>>]

NextMatch(run) == [run EXCEPT !.mi = @ + 1, !.ri = 0, !.loaded = FALSE]

(* An output row: where it comes from, the match LAST navigates in (0 when  *)
(* nothing is indexed), and the binds a running aggregate has seen.         *)
Row(run, k, index, fold) ==
  [part |-> run.part, match |-> run.mi, row |-> k, index |-> index, fold |-> fold]

(* The next row of a run that is not done, and the run after it.  ALL ROWS  *)
(* PER MATCH yields a row per bind; ONE ROW PER MATCH one row, for which    *)
(* nothing is memoized.  An empty match yields one row, or none under OMIT  *)
(* EMPTY MATCHES, which applies to ALL ROWS only.                           *)
Emission(run) ==
  LET all  == Loaded(run)
      k    == run.ri + 1
      fold == Folded(all, k)
      next == [all EXCEPT !.ri = k, !.memo = fold]
  IN  CASE Bound(run) = 0 /\ query.all /\ query.omit ->
             [row |-> <<>>, run |-> [run EXCEPT !.mi = @ + 1]]
        [] Bound(run) = 0 /\ ~(query.all /\ query.omit) ->
             [row |-> <<Row(run, 0, 0, <<>>)>>, run |-> [run EXCEPT !.mi = @ + 1]]
        [] Bound(run) > 0 /\ query.all ->
             [row |-> <<Row(run, k, all.index, fold)>>,
              run |-> IF k < Bound(run) THEN next ELSE NextMatch(next)]
        [] Bound(run) > 0 /\ ~query.all ->
             [row |-> <<Row(run, 0, all.index, <<>>)>>, run |-> NextMatch(all)]

-----------------------------------------------------------------------------
(* Chunks of partitions.                                                    *)

InputRows(q, from, to) == MapThenSumSet(LAMBDA p : q.parts[p].rows, from .. to)

(* match_chunk takes partitions until their rows or their number are enough. *)
ChunkEnd(q, from) ==
  Min({to \in from .. Len(q.parts) :
         \/ to = Len(q.parts)
         \/ InputRows(q, from, to) >= LOOKAHEAD_ROWS
         \/ to - from + 1 >= MAX_CHUNK_PARTITIONS})

ChunkSize(c) == c.to - c.from + 1

(* How many partitions each thread takes: all of them on the calling thread *)
(* when threads would not pay, else contiguous slices of equal length.      *)
PerThread(c) ==
  LET threads == Min({query.threads, ChunkSize(c)})
  IN  IF threads <= 1 \/ InputRows(query, c.from, c.to) < TARGET_BATCH_ROWS
      THEN ChunkSize(c)
      ELSE (ChunkSize(c) + threads - 1) \div threads

(* The threads, each named by the first partition of its slice.             *)
Slices(c) == {p \in c.from .. c.to : (p - c.from) % PerThread(c) = 0}
Slice(c, first) == first .. Min({first + PerThread(c) - 1, c.to})

-----------------------------------------------------------------------------
(* The transport and finalize_producer.                                     *)

NoReply == [kind |-> "none"]

Init ==
  /\ query \in Queries
  /\ delivered = <<>> /\ token = 0 /\ outcome = "open" /\ losses = 0
  /\ pc = "client" /\ reply = NoReply
  /\ alive = FALSE
  /\ next_part = 1 /\ ready = <<>> /\ rows = <<>> /\ limit = 0
  /\ emitted_rows = 0 /\ resume_skip = 0
  /\ chunk = [from |-> 1, to |-> 0] /\ matched = {}
  /\ spool = "kept"

(* Whether the relation, or the shard, has no row: then it reads back as it *)
(* was even when its files are gone.                                        *)
NoInput == \A p \in 1 .. NumParts : Parts[p].rows = 0

(* Mutant: the rows the client already has are not replayed. *)
RebuildFromStart ==
  /\ pc = "client" /\ outcome = "open" /\ ~alive
  /\ spool = "kept" \/ NoInput
  /\ next_part' = 1 /\ ready' = <<>> /\ rows' = <<>> /\ limit' = 0
  /\ emitted_rows' = token /\ resume_skip' = 0
  /\ alive' = TRUE
  /\ pc' = "enter"
  /\ UNCHANGED <<query, client, reply, chunk, matched, spool>>

(* A request finds no producer: build one from the spool, and start at the  *)
(* row count of the client's token.  The relation reads back whole or not   *)
(* at all.                                                                  *)
Rebuild ==
  /\ pc = "client" /\ outcome = "open" /\ ~alive
  /\ spool = "kept" \/ NoInput
  /\ next_part' = 1 /\ ready' = <<>> /\ rows' = <<>> /\ limit' = 0
  /\ emitted_rows' = token /\ resume_skip' = token
  /\ alive' = TRUE
  /\ pc' = "enter"
  /\ UNCHANGED <<query, client, reply, chunk, matched, spool>>

RebuildFails ==
  /\ pc = "client" /\ outcome = "open" /\ ~alive
  /\ spool = "gone" /\ ~NoInput
  /\ reply' = [kind |-> "error", what |-> <<"spool">>]
  /\ pc' = "reply"
  /\ UNCHANGED <<query, client, alive, cursor, chunk, matched, spool>>

(* A request finds the producer of the one before.                          *)
Continue ==
  /\ pc = "client" /\ outcome = "open" /\ alive
  /\ pc' = "enter"
  /\ UNCHANGED <<query, client, reply, alive, cursor, chunk, matched, spool>>

(* The client gets the reply; over HTTP the producer does not outlive it.   *)
Receive ==
  /\ pc = "reply"
  /\ CASE reply.kind = "batch" -> /\ delivered' = delivered \o reply.rows
                                  /\ token' = reply.token
                                  /\ UNCHANGED outcome
       [] reply.kind = "eof"   -> outcome' = "done" /\ UNCHANGED <<delivered, token>>
       [] reply.kind = "error" -> outcome' = "error" /\ UNCHANGED <<delivered, token>>
  /\ alive' = (alive /\ ~query.http)
  /\ pc' = "client" /\ reply' = NoReply
  /\ UNCHANGED <<query, losses, cursor, chunk, matched, spool>>

(* The reply is lost on its way: the client can only ask again with the     *)
(* token it has.                                                            *)
Lose ==
  /\ pc = "reply" /\ query.http /\ losses < MaxLosses
  /\ losses' = losses + 1
  /\ alive' = FALSE
  /\ pc' = "client" /\ reply' = NoReply
  /\ UNCHANGED <<query, delivered, token, outcome, cursor, chunk, matched, spool>>

-----------------------------------------------------------------------------
(* next_batch and fill_rows.                                                *)

(* Mutant: a replay fills all it has to discard at once. *)
EnterUnbounded ==
  /\ pc = "enter"
  /\ limit' = IF resume_skip > 0 THEN resume_skip ELSE TARGET_BATCH_ROWS
  /\ rows' = <<>>
  /\ pc' = "fill"
  /\ UNCHANGED <<query, client, reply, alive, next_part, ready, emitted_rows,
                 resume_skip, chunk, matched, spool>>

(* Top of next_batch, and of each round of its replay loop: how many rows   *)
(* to fill.                                                                 *)
Enter ==
  /\ pc = "enter"
  /\ limit' = IF resume_skip > 0 THEN Min({resume_skip, TARGET_BATCH_ROWS})
                                 ELSE TARGET_BATCH_ROWS
  /\ rows' = <<>>
  /\ pc' = "fill"
  /\ UNCHANGED <<query, client, reply, alive, next_part, ready, emitted_rows,
                 resume_skip, chunk, matched, spool>>

Current == Head(ready)
(* Mutant: a match that was begun is emitted to its end. *)
EmittingWholeMatch ==
  /\ pc = "fill" /\ ready # <<>> /\ ~IsDone(Current)
  /\ Len(rows) < limit \/ Current.loaded

Emitting == pc = "fill" /\ ready # <<>> /\ ~IsDone(Current) /\ Len(rows) < limit
BadRow(e) == e.row # <<>> /\ <<e.row[1].match, e.row[1].row>> \in Parts[Current.part].bad

EmitRow ==
  /\ Emitting
  /\ LET e == Emission(Current)
     IN  /\ ~BadRow(e)
         /\ rows' = rows \o e.row
         /\ ready' = <<e.run>> \o Tail(ready)
  /\ UNCHANGED <<query, client, pc, reply, alive, next_part, limit, emitted_rows,
                 resume_skip, chunk, matched, spool>>

(* A measure that fails takes its half-written row back and ends the query. *)
EmitFails ==
  /\ Emitting
  /\ LET e == Emission(Current)
     IN  /\ BadRow(e)
         /\ reply' = [kind |-> "error",
                      what |-> <<"row", Current.part, e.row[1].match, e.row[1].row>>]
  /\ pc' = "reply"
  /\ UNCHANGED <<query, client, alive, cursor, chunk, matched, spool>>

PopDone ==
  /\ pc = "fill" /\ ready # <<>> /\ IsDone(Current)
  /\ ready' = Tail(ready)
  /\ UNCHANGED <<query, client, pc, reply, alive, next_part, rows, limit,
                 emitted_rows, resume_skip, chunk, matched, spool>>

StartChunk ==
  /\ pc = "fill" /\ ready = <<>> /\ Len(rows) < limit
  /\ next_part <= NumParts
  /\ chunk' = [from |-> next_part, to |-> ChunkEnd(query, next_part)]
  /\ matched' = {}
  /\ next_part' = ChunkEnd(query, next_part) + 1
  /\ pc' = "match"
  /\ UNCHANGED <<query, client, reply, alive, ready, rows, limit, emitted_rows,
                 resume_skip, spool>>

(* A thread fills the slot of the next partition of its slice.              *)
MatchNext(first) ==
  /\ pc = "match"
  /\ first \in Slices(chunk)
  /\ LET left == Slice(chunk, first) \ matched
     IN  left # {} /\ matched' = matched \cup {Min(left)}
  /\ UNCHANGED <<query, client, pc, reply, alive, cursor, chunk, spool>>

Failures == {p \in chunk.from .. chunk.to : Parts[p].fails}

(* Mutant: the last failure wins. *)
JoinLastFailure ==
  /\ pc = "match" /\ matched = chunk.from .. chunk.to
  /\ IF Failures = {}
     THEN /\ ready' = [j \in 1 .. ChunkSize(chunk) |-> NewRun(chunk.from + j - 1)]
          /\ pc' = "fill"
          /\ UNCHANGED reply
     ELSE /\ reply' = [kind |-> "error", what |-> <<"match", Max(Failures)>>]
          /\ pc' = "reply"
          /\ UNCHANGED ready
  /\ UNCHANGED <<query, client, alive, next_part, rows, limit, emitted_rows,
                 resume_skip, chunk, matched, spool>>

(* Every slot is filled: queue the runs in partition order, or fail with    *)
(* the first failure in that order.                                         *)
Join ==
  /\ pc = "match" /\ matched = chunk.from .. chunk.to
  /\ IF Failures = {}
     THEN /\ ready' = [j \in 1 .. ChunkSize(chunk) |-> NewRun(chunk.from + j - 1)]
          /\ pc' = "fill"
          /\ UNCHANGED reply
     ELSE /\ reply' = [kind |-> "error", what |-> <<"match", Min(Failures)>>]
          /\ pc' = "reply"
          /\ UNCHANGED ready
  /\ UNCHANGED <<query, client, alive, next_part, rows, limit, emitted_rows,
                 resume_skip, chunk, matched, spool>>

(* fill_rows returns: full, or nothing left to match.                       *)
Filled ==
  /\ pc = "fill"
  /\ IF ready = <<>> THEN Len(rows) >= limit \/ next_part > NumParts
                     ELSE ~IsDone(Current) /\ Len(rows) >= limit

(* A round of the replay: discard the rows; to run out of them is an error. *)
Discard ==
  /\ Filled /\ resume_skip > 0
  /\ IF rows # <<>>
     THEN pc' = "enter" /\ UNCHANGED reply
     ELSE pc' = "reply" /\ reply' = [kind |-> "error", what |-> <<"resume">>]
  /\ resume_skip' = resume_skip - Len(rows)
  /\ UNCHANGED <<query, client, alive, next_part, ready, rows, limit,
                 emitted_rows, chunk, matched, spool>>

(* Mutant: the spool is released with the last short batch, not at the end. *)
SendBatchReleases ==
  /\ Filled /\ resume_skip = 0 /\ rows # <<>>
  /\ emitted_rows' = emitted_rows + Len(rows)
  /\ reply' = [kind |-> "batch", rows |-> rows, token |-> emitted_rows']
  /\ pc' = "reply"
  /\ spool' = IF next_part > NumParts THEN "gone" ELSE spool
  /\ UNCHANGED <<query, client, alive, next_part, ready, rows, limit, resume_skip,
                 chunk, matched>>

(* A batch, and the row count it brings the client to. *)
SendBatch ==
  /\ Filled /\ resume_skip = 0 /\ rows # <<>>
  /\ emitted_rows' = emitted_rows + Len(rows)
  /\ reply' = [kind |-> "batch", rows |-> rows, token |-> emitted_rows']
  /\ pc' = "reply"
  /\ UNCHANGED <<query, client, alive, next_part, ready, rows, limit, resume_skip,
                 chunk, matched, spool>>

(* End of stream: cleanup_spool.                                            *)
SendEof ==
  /\ Filled /\ resume_skip = 0 /\ rows = <<>>
  /\ spool' = "gone"
  /\ reply' = [kind |-> "eof"]
  /\ pc' = "reply"
  /\ UNCHANGED <<query, client, alive, cursor, chunk, matched>>

Next ==
  \/ Rebuild \/ RebuildFails \/ Continue \/ Receive \/ Lose
  \/ Enter \/ EmitRow \/ EmitFails \/ PopDone
  \/ StartChunk \/ (\E first \in 1 .. NumParts : MatchNext(first)) \/ Join
  \/ Discard \/ SendBatch \/ SendEof

Spec == Init /\ [][Next]_vars

(* Every thread of the scope runs to its end, the producer's thread does    *)
(* not stop, and the client keeps asking until the stream ends.             *)
FairSpec == Spec /\ WF_vars(Next)

-----------------------------------------------------------------------------
(* Properties.                                                              *)

(* The rows of a partition's match m: one per bind, or one.                 *)
MatchRows(q, p, m) ==
  LET binds == q.parts[p].matches[m]
      one(index) == [part |-> p, match |-> m, row |-> 0, index |-> index,
                     fold |-> <<>>]
  IN  CASE binds > 0 /\ q.all  -> [k \in 1 .. binds |->
                                    [part |-> p, match |-> m, row |-> k, index |-> m,
                                     fold |-> [j \in 1 .. k |-> <<m, j>>]]]
        [] binds > 0 /\ ~q.all -> <<one(m)>>
        [] binds = 0 -> IF q.all /\ q.omit THEN <<>> ELSE <<one(0)>>

RowsOf(q, p) ==
  FlattenSeq([m \in 1 .. Len(q.parts[p].matches) |-> MatchRows(q, p, m)])

(* The answer: every partition's rows, in partition order, each evaluated   *)
(* over its own match up to its own row.                                    *)
AnswerOf(q) == FlattenSeq([p \in 1 .. Len(q.parts) |-> RowsOf(q, p)])
Answer == AnswerOf(query)

(* Every variable of the producer and of the client has its type.           *)
RowType == [part : Nat, match : Nat, row : Nat, index : Nat, fold : Seq(Nat \X Nat)]
RunType(q) == [part : 1 .. Len(q.parts), mi : Nat \ {0}, ri : Nat, loaded : BOOLEAN,
               index : Nat, memo : Seq(Nat \X Nat)]

TypeOK ==
  /\ query \in Queries
  /\ delivered \in Seq(RowType)
  /\ token \in Nat /\ losses \in 0 .. MaxLosses
  /\ outcome \in {"open", "done", "error"}
  /\ pc \in {"client", "enter", "fill", "match", "reply"}
  /\ reply.kind \in {"none", "batch", "eof", "error"}
  /\ reply.kind = "batch" => reply.rows \in Seq(RowType) /\ reply.token \in Nat
  /\ alive \in BOOLEAN
  /\ next_part \in 1 .. NumParts + 1
  /\ ready \in Seq(RunType(query))
  /\ rows \in Seq(RowType)
  /\ limit \in 0 .. TARGET_BATCH_ROWS
  /\ emitted_rows \in Nat /\ resume_skip \in 0 .. emitted_rows
  /\ chunk \in [from : 1 .. NumParts + 1, to : 0 .. NumParts]
  /\ matched \subseteq chunk.from .. chunk.to
  /\ spool \in {"kept", "gone"}

(* The stream implements its promise: whatever the batch boundaries, the    *)
(* threads, the rebuilds and the lost replies, the client receives the rows *)
(* of the answer in order, each once and with the value an uninterrupted    *)
(* run gives it, and is told the stream ended only when it has them all     *)
(* (the doc of emit_rows, and of PartitionStream).                          *)
Stream == INSTANCE RowStream
            WITH answer <- Answer, Answers <- {AnswerOf(q) : q \in Queries},
                 BatchRows <- TARGET_BATCH_ROWS
StreamsAnswer == Stream!Spec

(* While a producer is filling, the rows it holds are exactly those that    *)
(* follow what it has replayed and sent: the cursor inside a match, the     *)
(* per-match index and the folds survive every batch boundary, and a        *)
(* rebuilt producer stands where the token says.                            *)
CursorExact ==
  pc \in {"fill", "match"} =>
    LET before == emitted_rows - resume_skip
    IN  rows = SubSeq(Answer, before + 1, before + Len(rows))

(* An error is reproducible: whichever thread finishes first, and however   *)
(* many batches were replayed, a query that fails fails with the error a    *)
(* single uninterrupted thread meets first.  Within a chunk every partition *)
(* is matched before any row is emitted.                                    *)
ChunkStart(q) ==
  LET start[p \in 1 .. Len(q.parts)] ==
        IF p = 1 THEN 1
        ELSE IF p <= ChunkEnd(q, start[p - 1]) THEN start[p - 1] ELSE p
  IN  start

(* Row r of the answer is one at which a measure fails. *)
BadRowOf(q, r) ==
  LET row == AnswerOf(q)[r]
  IN  <<row.match, row.row>> \in q.parts[row.part].bad

FirstErrorOf(q) ==
  LET failing == {p \in 1 .. Len(q.parts) : q.parts[p].fails}
      badRows == {r \in 1 .. Len(AnswerOf(q)) : BadRowOf(q, r)}
      atRow == AnswerOf(q)[Min(badRows)]
      matchFirst == \/ badRows = {}
                    \/ ChunkStart(q)[Min(failing)] <= ChunkStart(q)[atRow.part]
  IN  CASE failing # {} /\ matchFirst -> <<"match", Min(failing)>>
        [] badRows # {} /\ (failing = {} \/ ~matchFirst) ->
             <<"row", atRow.part, atRow.match, atRow.row>>
        [] OTHER -> <<"none">>

FirstError == FirstErrorOf(query)

ErrorReproducible ==
  /\ reply.kind = "error" => reply.what \in {FirstError, <<"spool">>}
  /\ outcome = "done" => FirstError = <<"none">>

(* The spool outlives every request that may still need it: it goes only    *)
(* when no row is left to send, so a rebuild fails for want of it only when *)
(* the reply that was lost said the stream had ended.                       *)
SpoolKept ==
  /\ spool = "gone" => /\ delivered = Answer
                       /\ FirstError = <<"none">>
  /\ reply = [kind |-> "error", what |-> <<"spool">>] => losses > 0

(* The memory bound: what is live is one chunk of matched partitions and    *)
(* one batch of rows, never the output of a partition; the next chunk is    *)
(* only matched when nothing of this one is left to emit.                   *)
OneChunkLive ==
  /\ Len(rows) <= limit
  /\ pc = "match" => ready = <<>>
  /\ \A j \in 1 .. Len(ready) :
       /\ ready[j].part \in chunk.from .. chunk.to
       /\ ready[j].part = next_part - 1 - Len(ready) + j

(* README.md: "Spool files are deleted as soon as the finalize phase has    *)
(* read them."  A query that ended left none.                               *)
NothingLeftBehind == outcome # "open" => spool = "gone"

=============================================================================
