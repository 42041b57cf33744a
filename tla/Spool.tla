-------------------------------- MODULE Spool --------------------------------
(***************************************************************************)
(* The sink phase of a query (process in match_recognize.rs, append_batch  *)
(* in buffer.rs, append, discard and sweep in spool.rs): DuckDB's threads  *)
(* take batches in input order and hand each to a worker thread, which     *)
(* appends it to the spool file it keeps open, or to the SDK's store when  *)
(* it cannot open one.                                                     *)
(*                                                                         *)
(* One execution is modelled.  A spool directory belongs to one temp       *)
(* directory; processes that do not share it do not see each other's       *)
(* files, nor each other's store.  A batch is named by its index, counted  *)
(* from 1; a row by its batch and its place in it.  Compression is left    *)
(* out: the codec is recorded per record and undone when it is read.       *)
(***************************************************************************)
EXTENDS Naturals, FiniteSetsExt, SequencesExt

CONSTANTS
  Inputs,       (* The relations: sequences of batches, each a sequence of  *)
                (* partition keys, one per row.                             *)
  Stream,       (* DuckDB's sink threads.                                   *)
  Worker,       (* Worker threads, in one process or in several.            *)
  Temp,         (* Temp directories.                                        *)
  MaxShards,    (* MAX_SHARDS: the most shards a split may make.            *)
  Setting       (* The deployments, and what may go wrong in each.          *)

(* serves: the workers that may get a call of a stream; tempOf: the temp    *)
(* directory a worker's process sees; fileOf: the name of a worker's sink   *)
(* file, from its pid and thread number, names being ordered; mayFallBack:  *)
(* a spool file may fail to open; mayFail: a write may fail; sweepPhases:   *)
(* the phases in which the query may idle past the TTL; maxSweeps bounds    *)
(* how often a new process then sweeps, maxLosses the records the SDK's     *)
(* store loses after it took them; partitioned: the query has a PARTITION   *)
(* BY; budget: VGI_MR_FINALIZE_MEMORY_BYTES.                                *)
SettingType ==
  [serves : [Stream -> SUBSET Worker], tempOf : [Worker -> Temp], fileOf : [Worker -> Nat],
   mayFallBack : BOOLEAN, mayFail : BOOLEAN, sweepPhases : SUBSET {"sink", "produce"},
   maxSweeps : Nat, maxLosses : Nat, partitioned : BOOLEAN, budget : Nat \ {0}]

ASSUME SpoolAssumption ==
  /\ Setting \subseteq SettingType /\ MaxShards \in Nat \ {0}
  /\ IsFiniteSet(Worker)

VARIABLES
  setting,      (* the deployment                                           *)
  input,
  phase,        (* "sink", "split", "produce"; "done" or "failed"           *)
  error,        (* why it failed: "none", "write" or "read"                 *)
  taken,        (* how many batches DuckDB has taken from the source        *)
  holding,      (* holding[s] = the batch stream s is sinking, or 0         *)
  ran,          (* the streams whose process calls returned a state id      *)
  sinkFiles,    (* sinkFiles[t][name] = the records of a file; an absent    *)
                (* file has none                                            *)
  shardFiles,   (* shardFiles[t][sh] = the records of a shard file          *)
  handle,       (* handle[w] = "closed", "open", or "orphan" once the file  *)
                (* it is open on was unlinked                               *)
  store,        (* store[t] = the batch log of the SDK's store              *)
  counts,       (* counts[t] = its row-count log                            *)
  sweeps, losses

sinking == <<taken, holding, ran>>
disk == <<sinkFiles, shardFiles, handle>>
sdk == <<store, counts, losses>>
given == <<setting, input>>
spoolVars == <<given, phase, error, sinking, disk, sdk, sweeps>>

Names == {setting.fileOf[w] : w \in Worker}
Shard == 0 .. MaxShards - 1
NoFiles == [n \in Names |-> <<>>]
NoShards == [sh \in Shard |-> <<>>]
Idle == 0

Rows(k) == [j \in 1 .. Len(input[k]) |-> <<k, j>>]
KeyOf(row) == input[row[1]][row[2]]
Record(k, rows) == [index |-> k, rows |-> rows]

(* The sum of a sequence of numbers; the rows of a sequence of records. *)
Total(ns) ==
  LET sum[k \in 0 .. Len(ns)] == IF k = 0 THEN 0 ELSE sum[k - 1] + ns[k] IN sum[Len(ns)]
NumRows(records) == Total([k \in 1 .. Len(records) |-> Len(records[k].rows)])
(* Their rows, one record after the other. *)
RowsOf(records) == FlattenSeq([k \in 1 .. Len(records) |-> records[k].rows])

(* The j-th smallest of a set of numbers. *)
Nth(S, j) == CHOOSE n \in S : Cardinality({m \in S : m < n}) = j - 1

SpoolInit ==
  /\ setting \in Setting /\ input \in Inputs
  /\ phase = "sink" /\ error = "none"
  /\ taken = 0 /\ holding = [s \in Stream |-> Idle] /\ ran = {}
  /\ sinkFiles = [t \in Temp |-> NoFiles] /\ shardFiles = [t \in Temp |-> NoShards]
  /\ handle = [w \in Worker |-> "closed"]
  /\ store = [t \in Temp |-> <<>>] /\ counts = [t \in Temp |-> <<>>]
  /\ sweeps = 0 /\ losses = 0

(* A stream takes the next batch of the source. *)
Take(s) ==
  /\ phase = "sink" /\ holding[s] = Idle /\ taken < Len(input)
  /\ taken' = taken + 1
  /\ holding' = [holding EXCEPT ![s] = taken + 1]
  /\ UNCHANGED <<given, phase, error, ran, disk, sdk, sweeps>>

Processing(s, w) == phase = "sink" /\ holding[s] # Idle /\ w \in setting.serves[s]

Processed(s) ==
  /\ holding' = [holding EXCEPT ![s] = Idle]
  /\ ran' = ran \cup {s}

(* Mutant: a file that is opened again is truncated. *)
AppendTruncates(s, w) ==
  /\ Processing(s, w)
  /\ handle' = [handle EXCEPT ![w] = IF @ = "closed" THEN "open" ELSE @]
  /\ sinkFiles' = IF handle[w] = "orphan" THEN sinkFiles
                  ELSE [sinkFiles EXCEPT ![setting.tempOf[w]][setting.fileOf[w]] =
                          Append(IF handle[w] = "closed" THEN <<>> ELSE @,
                                 Record(holding[s], Rows(holding[s])))]
  /\ Processed(s)
  /\ UNCHANGED <<given, phase, error, taken, shardFiles, sdk, sweeps>>

(* process, the local spool: open this thread's file on first use and write *)
(* one record at its end.  Into an unlinked file the write succeeds all the *)
(* same.                                                                    *)
AppendSpool(s, w) ==
  /\ Processing(s, w)
  /\ handle' = [handle EXCEPT ![w] = IF @ = "closed" THEN "open" ELSE @]
  /\ sinkFiles' = IF handle[w] = "orphan" THEN sinkFiles
                  ELSE [sinkFiles EXCEPT ![setting.tempOf[w]][setting.fileOf[w]] =
                          Append(@, Record(holding[s], Rows(holding[s])))]
  /\ Processed(s)
  /\ UNCHANGED <<given, phase, error, taken, shardFiles, sdk, sweeps>>

(* process, the SDK's store: no spool file could be opened. *)
AppendStore(s, w) ==
  /\ Processing(s, w)
  /\ setting.mayFallBack /\ handle[w] = "closed"
  /\ store' = [store EXCEPT ![setting.tempOf[w]] = Append(@, Record(holding[s], Rows(holding[s])))]
  /\ counts' = [counts EXCEPT ![setting.tempOf[w]] = Append(@, Len(Rows(holding[s])))]
  /\ Processed(s)
  /\ UNCHANGED <<given, phase, error, taken, disk, losses, sweeps>>

(* A write or the store's append fails, and with it the query. *)
AppendFails(s, w) ==
  /\ Processing(s, w) /\ setting.mayFail
  /\ phase' = "failed" /\ error' = "write"
  /\ UNCHANGED <<given, sinking, disk, sdk, sweeps>>

(* Other executions fill this thread's table of open files, which is then   *)
(* dropped wholesale; the next append reopens and continues.                *)
Evict(w) ==
  /\ phase = "sink" /\ handle[w] # "closed"
  /\ handle' = [handle EXCEPT ![w] = "closed"]
  /\ UNCHANGED <<given, phase, error, sinking, sinkFiles, shardFiles, sdk, sweeps>>

(* Unlinking the files of a directory orphans the handles open on them. *)
Orphaned(t) == [w \in Worker |-> IF setting.tempOf[w] = t /\ handle[w] = "open"
                                 THEN "orphan" ELSE handle[w]]

(* A new process spools for the first time and finds nothing in this        *)
(* directory younger than the TTL.                                          *)
Sweep(t) ==
  /\ phase \in setting.sweepPhases /\ sweeps < setting.maxSweeps
  /\ sinkFiles[t] # NoFiles \/ shardFiles[t] # NoShards
  /\ sweeps' = sweeps + 1
  /\ sinkFiles' = [sinkFiles EXCEPT ![t] = NoFiles]
  /\ shardFiles' = [shardFiles EXCEPT ![t] = NoShards]
  /\ handle' = Orphaned(t)
  /\ UNCHANGED <<given, phase, error, sinking, sdk>>

(* The store loses a batch it accepted; its row count is another record. *)
StoreLoses(t) ==
  /\ phase = "sink" /\ losses < setting.maxLosses
  /\ losses' = losses + 1
  /\ \E k \in 1 .. Len(store[t]) :
       store' = [store EXCEPT ![t] = RemoveAt(@, k)]
  /\ UNCHANGED <<given, phase, error, sinking, disk, counts, sweeps>>

Sink ==
  \/ \E s \in Stream : Take(s)
  \/ \E s \in Stream, w \in Worker :
       AppendSpool(s, w) \/ AppendStore(s, w) \/ AppendFails(s, w)
  \/ \E w \in Worker : Evict(w)
  \/ \E t \in Temp : Sweep(t) \/ StoreLoses(t)

(* Every batch was taken from the source and sunk. *)
Sunk == phase = "sink" /\ taken = Len(input) /\ \A s \in Stream : holding[s] = Idle

(* What is spooled under a temp directory: its sink files, sorted by name. *)
SinkRecords(t) ==
  FlattenSeq([j \in 1 .. Cardinality(Names) |-> sinkFiles[t][Nth(Names, j)]])
=============================================================================
