------------------------------ MODULE Buffering ------------------------------
(***************************************************************************)
(* From the sinks to the producers: `combine` decides the shape of the     *)
(* finalize phase and may split the spool by partition key (shard.rs), and *)
(* each producer reads its part back and checks it (read_batches in        *)
(* buffer.rs), as often as it is rebuilt, and discards it at its end.      *)
(*                                                                         *)
(* The split runs in one process after the sinks ended; it is modelled a   *)
(* record at a time because what it writes depends on the order it reads.  *)
(* Sizes in bytes are represented by numbers of rows.                      *)
(***************************************************************************)
EXTENDS Spool

CONSTANTS
  Hash,         (* Hash[key]: the hash of a partition key.                  *)
  TargetRecord  (* The size at which accumulated rows become a record.      *)

(* The target is the smaller of 256 KiB and a shard's part of 32 MiB: it is *)
(* never 0.                                                                 *)
ASSUME BufferingAssumption ==
  /\ TargetRecord \in Nat \ {0}
  /\ Hash \in [DOMAIN Hash -> Nat]
  /\ Inputs \subseteq Seq(Seq(DOMAIN Hash))

VARIABLES
  shards,       (* how many producers there are                             *)
  expect,       (* expect[sh] = the rows the split wrote for a shard        *)
  at,           (* the temp directory the split works in                    *)
  cursor,       (* cursor[name] = how many records of a sink file are read  *)
  accum,        (* accum[sh] = [first, rows]: rows waiting to be written    *)
  read          (* read[sh] = [state, rows]: "none", "ok" or "ended", and   *)
                (* the relation the producer's store holds                  *)

splitVars == <<shards, expect, at, cursor, accum>>
vars == <<spoolVars, splitVars, read>>

NoIndex == 0
Empty == [first |-> NoIndex, rows |-> <<>>]
Unread == [state |-> "none", rows |-> <<>>]

Init ==
  /\ SpoolInit
  /\ shards = 1 /\ expect = [sh \in Shard |-> 0]
  /\ at \in Temp /\ cursor = [n \in Names |-> 0]
  /\ accum = [sh \in Shard |-> Empty]
  /\ read = [sh \in Shard |-> Unread]

-----------------------------------------------------------------------------
(* combine.                                                                 *)

(* Mutant: the number of shards is not capped. *)
ShardCountUncapped(bytes) ==
  IF ~setting.partitioned \/ bytes = 0 THEN 1 ELSE (bytes + setting.budget - 1) \div setting.budget

ShardCount(bytes) ==
  IF ~setting.partitioned \/ bytes = 0 THEN 1
  ELSE Min({(bytes + setting.budget - 1) \div setting.budget, MaxShards})

(* Only spooled rows are split, so not if any sink used the store. *)
Splits(t) ==
  /\ ShardCount(NumRows(SinkRecords(t))) > 1
  /\ store[t] = <<>>
  /\ SinkRecords(t) # <<>>

Combine(t) ==
  /\ Sunk
  /\ phase' = IF Splits(t) THEN "split" ELSE "produce"
  /\ shards' = IF Splits(t) THEN ShardCount(NumRows(SinkRecords(t))) ELSE 1
  /\ at' = t
  /\ UNCHANGED <<given, error, sinking, disk, sdk, sweeps, expect, cursor, accum, read>>

-----------------------------------------------------------------------------
(* split.                                                                   *)

ShardOf(row) == Hash[KeyOf(row)] % shards
Live == {n \in Names : cursor[n] < Len(sinkFiles[at][n])}
HeadOf(n) == sinkFiles[at][n][cursor[n] + 1]

(* Mutant: sink files are walked one after the other. *)
FirstFile == Min(Live)

(* The file whose next record has the smallest index, the first by name.    *)
Pick ==
  CHOOSE n \in Live : \A m \in Live \ {n} :
    \/ HeadOf(n).index < HeadOf(m).index
    \/ HeadOf(n).index = HeadOf(m).index /\ n < m

(* The rows of a record that are a shard's, in their order. *)
OfShard(rows, sh) ==
  LET mine == {j \in 1 .. Len(rows) : ShardOf(rows[j]) = sh}
  IN  [p \in 1 .. Cardinality(mine) |-> rows[Nth(mine, p)]]

(* A shard's accumulator after it took its rows of a record. *)
Taking(sh, record) ==
  LET mine == OfShard(record.rows, sh)
  IN  IF mine = <<>> THEN accum[sh]
      ELSE [first |-> IF accum[sh].rows = <<>> THEN record.index ELSE accum[sh].first,
            rows |-> accum[sh].rows \o mine]

(* Mutant: an accumulator of the target size is not written yet. *)
FullStrict(took) ==
  {sh \in Shard : took[sh] # accum[sh] /\ Len(took[sh].rows) > TargetRecord}

(* The accumulators that took rows and reached the target size.             *)
Full(took) ==
  {sh \in Shard : took[sh] # accum[sh] /\ Len(took[sh].rows) >= TargetRecord}

(* The shard files once some accumulators are written, a record each.       *)
Flushed(files, full, after) ==
  [sh \in Shard |-> IF sh \in full THEN Append(files[sh], Record(after[sh].first, after[sh].rows))
                                   ELSE files[sh]]

(* Read one record, hand its rows to the shards, write those that are full, *)
(* and unlink a file with its last record.                                  *)
SplitRecord ==
  /\ phase = "split" /\ Live # {}
  /\ LET n     == Pick
         took  == [sh \in Shard |-> Taking(sh, HeadOf(n))]
         full  == Full(took)
         spent == cursor[n] + 1 = Len(sinkFiles[at][n])
     IN  /\ expect' = [sh \in Shard |->
                         expect[sh] + Len(took[sh].rows) - Len(accum[sh].rows)]
         /\ accum' = [sh \in Shard |-> IF sh \in full THEN Empty ELSE took[sh]]
         /\ shardFiles' = [shardFiles EXCEPT ![at] = Flushed(@, full, took)]
         /\ cursor' = [cursor EXCEPT ![n] = IF spent THEN 0 ELSE @ + 1]
         /\ sinkFiles' = IF spent THEN [sinkFiles EXCEPT ![at][n] = <<>>] ELSE sinkFiles
  /\ UNCHANGED <<given, phase, error, sinking, handle, sdk, sweeps, shards, at, read>>

(* Mutant: what is left in the accumulators is not written. *)
SplitEndsUnflushed ==
  /\ phase = "split" /\ Live = {}
  /\ accum' = [sh \in Shard |-> Empty]
  /\ phase' = "produce"
  /\ UNCHANGED <<given, error, sinking, disk, sdk, sweeps, shards, expect, at, cursor,
                 read>>

(* Every file is consumed: write what is left and hand out the shards. *)
SplitEnds ==
  /\ phase = "split" /\ Live = {}
  /\ LET rest == {sh \in Shard : accum[sh].rows # <<>>}
     IN  shardFiles' = [shardFiles EXCEPT ![at] = Flushed(@, rest, accum)]
  /\ accum' = [sh \in Shard |-> Empty]
  /\ phase' = "produce"
  /\ UNCHANGED <<given, error, sinking, sinkFiles, handle, sdk, sweeps, shards, expect,
                 at, cursor, read>>

SplitFails ==
  /\ phase = "split" /\ setting.mayFail
  /\ phase' = "failed" /\ error' = "write"
  /\ UNCHANGED <<given, sinking, disk, sdk, sweeps, splitVars, read>>

-----------------------------------------------------------------------------
(* The producers.                                                           *)

Producers == 0 .. shards - 1
Sharded == shards > 1

(* Mutant: batches stay in the order they were read. *)
ByArrival(records) == records

(* Record a of a sequence goes before record b: by index, then as they came. *)
Earlier(records, a, b) ==
  \/ records[a].index < records[b].index
  \/ records[a].index = records[b].index /\ a < b

(* Restore the input order; a stable sort.                                  *)
ByIndex(records) ==
  LET before(k) == {j \in 1 .. Len(records) : Earlier(records, j, k)}
  IN  [p \in 1 .. Len(records) |->
         records[CHOOSE k \in 1 .. Len(records) : Cardinality(before(k)) = p - 1]]

(* What is read of the spool and the store; its rows are counted, whatever  *)
(* the order it is then put into.                                           *)
Spooled(t, sh) == IF Sharded THEN shardFiles[t][sh] ELSE SinkRecords(t)
Collected(t, sh) == Spooled(t, sh) \o store[t]
Buffered(t, sh) == ByIndex(Collected(t, sh))
ExpectedRows(t, sh) == NumRows(Spooled(t, sh)) + Total(counts[t])

(* Mutant: the row counts of the store are not compared. *)
IntactUncounted(t, sh) ==
  /\ Collected(t, sh) # <<>> \/ ran = {} \/ Sharded
  /\ Sharded => NumRows(Collected(t, sh)) = expect[sh]

(* Mutant: that nothing came back is taken for an empty relation. *)
IntactUnguarded(t, sh) ==
  /\ Sharded => NumRows(Collected(t, sh)) = expect[sh]
  /\ ~Sharded => NumRows(Collected(t, sh)) = ExpectedRows(t, sh)

(* The checks of read_batches: something came back if anything was sunk, a  *)
(* shard has the rows the split wrote to it, and the rows the store counted *)
(* are there.                                                               *)
Intact(t, sh) ==
  /\ Collected(t, sh) # <<>> \/ ran = {} \/ Sharded
  /\ Sharded => NumRows(Collected(t, sh)) = expect[sh]
  /\ ~Sharded => NumRows(Collected(t, sh)) = ExpectedRows(t, sh)

(* A producer is built, or rebuilt for the next batch of its output. *)
ReadBack(t, sh) ==
  /\ phase = "produce" /\ sh \in Producers /\ read[sh].state # "ended"
  /\ Intact(t, sh)
  /\ read' = [read EXCEPT ![sh] = [state |-> "ok", rows |-> RowsOf(Buffered(t, sh))]]
  /\ UNCHANGED <<spoolVars, splitVars>>

ReadFails(t, sh) ==
  /\ phase = "produce" /\ sh \in Producers /\ read[sh].state # "ended"
  /\ ~Intact(t, sh)
  /\ phase' = "failed" /\ error' = "read"
  /\ UNCHANGED <<given, sinking, disk, sdk, sweeps, splitVars, read>>

(* Mutant: only a sole producer deletes anything. *)
EndKeepsShard(t, sh) ==
  /\ phase = "produce" /\ read[sh].state = "ok"
  /\ read' = [read EXCEPT ![sh].state = "ended"]
  /\ IF Sharded THEN UNCHANGED disk
     ELSE /\ sinkFiles' = [sinkFiles EXCEPT ![t] = NoFiles]
          /\ shardFiles' = [shardFiles EXCEPT ![t] = NoShards]
          /\ handle' = Orphaned(t)
  /\ phase' = IF \A p \in Producers : read'[p].state = "ended" THEN "done" ELSE phase
  /\ UNCHANGED <<given, error, sinking, sdk, sweeps, splitVars>>

(* Mutant: every producer deletes the whole directory. *)
EndDiscardsAll(t, sh) ==
  /\ phase = "produce" /\ read[sh].state = "ok"
  /\ read' = [read EXCEPT ![sh].state = "ended"]
  /\ sinkFiles' = [sinkFiles EXCEPT ![t] = NoFiles]
  /\ shardFiles' = [shardFiles EXCEPT ![t] = NoShards]
  /\ phase' = IF \A p \in Producers : read'[p].state = "ended" THEN "done" ELSE phase
  /\ UNCHANGED <<given, error, sinking, handle, sdk, sweeps, splitVars>>

(* The end of a producer's output: it deletes its own shard's file, or the  *)
(* directory when it is the only one.                                       *)
EndOfStream(t, sh) ==
  /\ phase = "produce" /\ read[sh].state = "ok"
  /\ read' = [read EXCEPT ![sh].state = "ended"]
  /\ IF Sharded
     THEN /\ shardFiles' = [shardFiles EXCEPT ![t][sh] = <<>>]
          /\ UNCHANGED <<sinkFiles, handle>>
     ELSE /\ sinkFiles' = [sinkFiles EXCEPT ![t] = NoFiles]
          /\ shardFiles' = [shardFiles EXCEPT ![t] = NoShards]
          /\ handle' = Orphaned(t)
  /\ phase' = IF \A p \in Producers : read'[p].state = "ended" THEN "done" ELSE phase
  /\ UNCHANGED <<given, error, sinking, sdk, sweeps, splitVars>>

Produce == \E t \in Temp, sh \in Shard :
             ReadBack(t, sh) \/ ReadFails(t, sh) \/ EndOfStream(t, sh)

Next ==
  \/ Sink /\ UNCHANGED <<splitVars, read>>
  \/ \E t \in Temp : Combine(t)
  \/ SplitRecord \/ SplitEnds \/ SplitFails
  \/ Produce

Spec == Init /\ [][Next]_vars

-----------------------------------------------------------------------------
(* Properties.                                                              *)

(* The rows a producer is to match. *)
Share(sh) ==
  {row \in UNION {ToSet(Rows(k)) : k \in 1 .. Len(input)} : Sharded => ShardOf(row) = sh}
Before(a, b) == a[1] < b[1] \/ (a[1] = b[1] /\ a[2] < b[2])

(* Every variable has its type: in particular there are never more shards   *)
(* than MAX_SHARDS, and a handle is only orphaned by a sweep or at the end. *)
RecordType == [index : Nat \ {0}, rows : Seq(Nat \X Nat)]
TypeOK ==
  /\ setting \in Setting /\ input \in Inputs
  /\ phase \in {"sink", "split", "produce", "done", "failed"}
  /\ error \in {"none", "write", "read"} /\ (error # "none" <=> phase = "failed")
  /\ taken \in 0 .. Len(input)
  /\ holding \in [Stream -> 0 .. Len(input)] /\ ran \subseteq Stream
  /\ sinkFiles \in [Temp -> [Names -> Seq(RecordType)]]
  /\ shardFiles \in [Temp -> [Shard -> Seq(RecordType)]]
  /\ store \in [Temp -> Seq(RecordType)] /\ counts \in [Temp -> Seq(Nat)]
  /\ handle \in [Worker -> {"closed", "open", "orphan"}]
  /\ sweeps \in 0 .. setting.maxSweeps /\ losses \in 0 .. setting.maxLosses
  /\ shards \in 1 .. MaxShards
  /\ expect \in [Shard -> Nat] /\ at \in Temp /\ cursor \in [Names -> Nat]
  /\ accum \in [Shard -> [first : Nat, rows : Seq(Nat \X Nat)]]
  /\ read \in [Shard -> [state : {"none", "ok", "ended"}, rows : Seq(Nat \X Nat)]]

(* What a producer matches is never short: once read_batches has returned,  *)
(* it holds every row of its share of the relation.  Anything that went     *)
(* missing is an error instead (the docs of read_batches, and README.md     *)
(* "never a short answer").                                                 *)
NeverShort ==
  \A sh \in Producers :
    read[sh].state # "none" => Share(sh) \subseteq ToSet(read[sh].rows)

(* A producer holds its rows in input order, each once, whichever threads   *)
(* sank them and however the split coalesced them: rows that tie on the     *)
(* ORDER BY come out as they went in.                                       *)
InputOrderKept ==
  \A sh \in Producers :
    \A i, j \in 1 .. Len(read[sh].rows) :
      i < j => Before(read[sh].rows[i], read[sh].rows[j])

(* While the split runs and until a producer ends, every row of a shard's   *)
(* share is in exactly one place, an unread sink record, the accumulator or *)
(* the shard's file, and the count handed to the producer is the number of  *)
(* rows that left the sink files.                                           *)
SplitConserves ==
  Sharded /\ sweeps = 0 =>
    \A sh \in Producers :
      LET unread(n) == RowsOf(SubSeq(sinkFiles[at][n], cursor[n] + 1, Len(sinkFiles[at][n])))
          waiting == OfShard(FlattenSeq([j \in 1 .. Cardinality(Names) |->
                                           unread(Nth(Names, j))]), sh)
          moved == RowsOf(shardFiles[at][sh]) \o accum[sh].rows
      IN  read[sh].state # "ended" =>
            /\ expect[sh] = Len(moved)
            /\ Len(waiting \o moved) = Cardinality(Share(sh))
            /\ ToSet(waiting \o moved) = Share(sh)

(* The split's memory: between two records no shard has more waiting than   *)
(* the target record (the doc of ACCUM_BUDGET_BYTES).                       *)
AccumBounded == \A sh \in Shard : Len(accum[sh].rows) < TargetRecord

(* The checks never refuse a relation that is whole: reading back fails     *)
(* only if a sweep or the store did lose something.                         *)
NoSpuriousFailure == error = "read" => sweeps + losses > 0

(* A query that ended well leaves no spool file, sink or shard.             *)
CleansUp ==
  phase = "done" => \A t \in Temp : sinkFiles[t] = NoFiles /\ shardFiles[t] = NoShards
=============================================================================
