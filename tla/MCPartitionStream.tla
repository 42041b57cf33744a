-------------------------- MODULE MCPartitionStream --------------------------
(***************************************************************************)
(* Instances of the finalize stream for TLC: up to four partitions whose   *)
(* matches are shorter, equal to and longer than a batch of two rows, with *)
(* empty matches, partitions without a match, failures of matching and of  *)
(* measures, both transports and one or two matching threads.              *)
(***************************************************************************)
EXTENDS PartitionStream

Part(n, matches) == [rows |-> n, matches |-> matches, fails |-> FALSE, bad |-> {}]
Failing(n) == [rows |-> n, matches |-> <<>>, fails |-> TRUE, bad |-> {}]
BadAt(part, where) == [part EXCEPT !.bad = {where}]

Shapes == {
  <<>>,
  <<Part(0, <<>>)>>,
  <<Part(5, <<5>>)>>,
  <<Part(3, <<1, 2>>), Part(1, <<>>), Part(1, <<0>>)>>,
  <<Part(1, <<0>>), Part(4, <<3, 0>>), Part(1, <<1>>), Part(2, <<2>>)>>,
  <<Part(2, <<2>>), Part(2, <<>>), Part(1, <<>>), Part(1, <<>>)>>,
  <<Part(1, <<1>>), Part(1, <<1>>), Part(1, <<1>>), Part(1, <<1>>)>>,
  <<Part(1, <<1>>), Failing(1), Part(1, <<1>>), Failing(2)>>,
  <<Failing(1), Failing(1), Part(2, <<2>>)>>,
  <<BadAt(Part(3, <<3>>), <<1, 3>>), Failing(3)>>,
  <<Part(2, <<2>>), BadAt(Part(1, <<1>>), <<1, 1>>), Failing(1)>>,
  <<Part(3, <<3>>), BadAt(Part(1, <<0>>), <<1, 0>>)>>
}

MCQueries ==
  {[parts |-> s, all |-> a, omit |-> o, http |-> h, threads |-> t] :
     s \in Shapes, a \in BOOLEAN, o \in BOOLEAN, h \in BOOLEAN, t \in 1 .. 3}
=============================================================================
