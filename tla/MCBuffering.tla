------------------------------ MODULE MCBuffering ------------------------------
(***************************************************************************)
(* Instances of the buffering phase for TLC: two sinks, relations of up to *)
(* five batches, two or three shards.                                      *)
(***************************************************************************)
EXTENDS Buffering

CONSTANTS s1, s2, w1, w2, t1, t2

MCInputs == {
  <<>>,
  <<<<1>>>>,
  <<<<0>>, <<1>>>>,
  <<<<0, 1, 2>>, <<0, 1>>, <<2, 0>>>>,
  <<<<0, 1>>, <<1, 0>>, <<0>>>>,
  <<<<0>>, <<0, 0>>, <<0>>>>,
  <<<<1, 0>>, <<1>>, <<0>>, <<1, 1>>>>,
  <<<<1>>, <<0>>, <<2>>, <<1>>, <<0>>>>
}

MCHash == [key \in 0 .. 2 |-> key]

(* Each sink has a worker of its own. *)
OneToOne == (s1 :> {w1}) @@ (s2 :> {w2})

(* A pool: a call goes to whichever thread of the server is free. *)
AnyWorker == [s \in Stream |-> Worker]

SharedTemp == [w \in Worker |-> t1]
(* A container for each worker, which share nothing. *)
TempEach == (w1 :> t1) @@ (w2 :> t2)

(* One process, or processes that see each other's pid. *)
OwnFile == (w1 :> 1) @@ (w2 :> 2)
(* A container for each worker, which share a volume: pid 1, thread 0. *)
SameFile == [w \in Worker |-> 1]

(* One host and one temp directory, where nothing goes wrong. *)
Stdio ==
  [serves |-> OneToOne, tempOf |-> SharedTemp, fileOf |-> OwnFile, mayFallBack |-> FALSE, mayFail |-> FALSE,
   sweepPhases |-> {}, maxSweeps |-> 0, maxLosses |-> 0, partitioned |-> TRUE, budget |-> 2]

(* Files that do not open and writes that fail; and the spool swept while   *)
(* producers run.                                                           *)
Failing == [Stdio EXCEPT !.mayFallBack = TRUE, !.mayFail = TRUE]
SweptLate == [Stdio EXCEPT !.sweepPhases = {"produce"}, !.maxSweeps = 1, !.budget = 3]
(* No PARTITION BY, sinks served by any thread, a store that loses a record. *)
Unpartitioned ==
  [Stdio EXCEPT !.serves = AnyWorker, !.mayFallBack = TRUE, !.maxLosses = 1, !.partitioned = FALSE]

MCSettings == {Failing, SweptLate, Unpartitioned}

(* Settings that break a property, one assumption dropped in each. *)
SplitTemp == {[Stdio EXCEPT !.tempOf = TempEach, !.fileOf = SameFile]}
SweptSink == {[Stdio EXCEPT !.sweepPhases = {"sink"}, !.maxSweeps = 1]}
SharedVolume == {[Stdio EXCEPT !.fileOf = SameFile]}
PooledSinks == {[Stdio EXCEPT !.serves = AnyWorker]}
Uncounted == {[Stdio EXCEPT !.mayFallBack = TRUE, !.maxLosses = 1]}
================================================================================
