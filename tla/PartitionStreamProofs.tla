------------------------- MODULE PartitionStreamProofs -------------------------
(***************************************************************************)
(* Proofs about the finalize stream, for every query, every batch, chunk   *)
(* and lookahead size and any number of lost replies: the rows a producer  *)
(* holds are those its cursor says, what is live is one chunk and one      *)
(* batch, an error is the one a single uninterrupted run meets first, the  *)
(* spool outlives its readers, and the stream implements RowStream.        *)
(***************************************************************************)
EXTENDS PartitionStream, SequenceLemmas

-----------------------------------------------------------------------------
(* Where the rows of a query stand in its answer.                           *)

PartType == [rows : Nat, matches : Seq(Nat), fails : BOOLEAN, bad : SUBSET (Nat \X Nat)]

NumMatches(q, p) == Len(q.parts[p].matches)

(* How many rows a match has in the answer. *)
Width(q, p, m) ==
  LET binds == q.parts[p].matches[m]
  IN  IF q.all THEN IF binds > 0 THEN binds ELSE IF q.omit THEN 0 ELSE 1 ELSE 1

RowsByMatch(q, p) == [m \in 1 .. NumMatches(q, p) |-> MatchRows(q, p, m)]
RowsByPart(q) == [p \in 1 .. Len(q.parts) |-> RowsOf(q, p)]

(* How many rows of a partition precede those of its match m + 1, and how   *)
(* many of the answer precede those of partition p + 1.                     *)
MatchOffset(q, p) == Offsets(RowsByMatch(q, p))
PartOffset(q) == Offsets(RowsByPart(q))

(* The fields of a query have their types. *)
LEMMA QueryFacts ==
  ASSUME NEW q \in Queries
  PROVE  /\ q.all \in BOOLEAN /\ q.omit \in BOOLEAN /\ q.http \in BOOLEAN
         /\ q.parts \in Seq(PartType) /\ Len(q.parts) \in Nat
         /\ \A p \in 1 .. Len(q.parts) :
              /\ q.parts[p] \in PartType
              /\ q.parts[p].fails \in BOOLEAN
              /\ q.parts[p].matches \in Seq(Nat) /\ NumMatches(q, p) \in Nat
              /\ \A m \in 1 .. NumMatches(q, p) : q.parts[p].matches[m] \in Nat
<1>1. /\ q.all \in BOOLEAN /\ q.omit \in BOOLEAN /\ q.http \in BOOLEAN
      /\ q.parts \in Seq(PartType)
  BY QueryAssumption DEF PartType
<1>2. Len(q.parts) \in Nat /\ \A p \in 1 .. Len(q.parts) : q.parts[p] \in PartType
  BY <1>1
<1>3. ASSUME NEW part \in PartType
      PROVE  /\ part.fails \in BOOLEAN
             /\ part.matches \in Seq(Nat) /\ Len(part.matches) \in Nat
             /\ \A m \in 1 .. Len(part.matches) : part.matches[m] \in Nat
  <2>1. part.fails \in BOOLEAN /\ part.matches \in Seq(Nat)  BY DEF PartType
  <2>. QED  BY <2>1
<1>. QED  BY <1>1, <1>2, <1>3 DEF NumMatches

(* The rows of one match: how many, and whose they are. *)
LEMMA MatchRowsFacts ==
  ASSUME NEW q \in Queries, NEW p \in 1 .. Len(q.parts), NEW m \in 1 .. NumMatches(q, p)
  PROVE  /\ MatchRows(q, p, m) \in Seq(RowType)
         /\ Len(MatchRows(q, p, m)) = Width(q, p, m)
         /\ Width(q, p, m) \in Nat
         /\ \A k \in 1 .. Width(q, p, m) :
              MatchRows(q, p, m)[k].part = p /\ MatchRows(q, p, m)[k].match = m
<1>. DEFINE binds == q.parts[p].matches[m]
            one(index) == [part |-> p, match |-> m, row |-> 0, index |-> index,
                           fold |-> <<>>]
            row(k) == [part |-> p, match |-> m, row |-> k, index |-> m,
                       fold |-> [j \in 1 .. k |-> <<m, j>>]]
            all == [k \in 1 .. binds |-> row(k)]
<1>1. binds \in Nat /\ q.all \in BOOLEAN /\ q.omit \in BOOLEAN /\ p \in Nat /\ m \in Nat
  <2>1. binds \in Nat /\ q.all \in BOOLEAN /\ q.omit \in BOOLEAN  BY QueryFacts
  <2>2. Len(q.parts) \in Nat /\ NumMatches(q, p) \in Nat  BY QueryFacts
  <2>. QED  BY <2>1, <2>2
<1>2. \A i \in Nat : one(i) \in RowType
  BY <1>1 DEF RowType
<1>3. ASSUME NEW k \in Nat PROVE row(k) \in RowType
  <2>1. [j \in 1 .. k |-> <<m, j>>] \in Seq(Nat \X Nat)  BY <1>1
  <2>. QED  BY <1>1, <2>1 DEF RowType
<1>4. CASE binds > 0 /\ q.all
  <2>1. MatchRows(q, p, m) = all  BY <1>4 DEF MatchRows
  <2>2. all \in Seq(RowType) /\ Len(all) = binds
    <3>. HIDE DEF row
    <3>. QED  BY <1>1, <1>3
  <2>3. \A k \in 1 .. binds : all[k].part = p /\ all[k].match = m
    OBVIOUS
  <2>4. Width(q, p, m) = binds  BY <1>4 DEF Width
  <2>. HIDE DEF all, binds
  <2>. QED  BY <1>1, <2>1, <2>2, <2>3, <2>4
<1>5. CASE binds > 0 /\ ~q.all
  <2>1. MatchRows(q, p, m) = <<one(m)>>  BY <1>5 DEF MatchRows
  <2>2. one(m).part = p /\ one(m).match = m  OBVIOUS
  <2>3. Width(q, p, m) = 1  BY <1>5 DEF Width
  <2>. HIDE DEF one
  <2>. QED  BY <1>1, <1>2, <2>1, <2>2, <2>3
<1>6. CASE binds = 0 /\ q.all /\ q.omit
  <2>1. MatchRows(q, p, m) = <<>> /\ Width(q, p, m) = 0  BY <1>6 DEF MatchRows, Width
  <2>. QED  BY <2>1
<1>7. CASE binds = 0 /\ ~(q.all /\ q.omit)
  <2>1. MatchRows(q, p, m) = <<one(0)>>  BY <1>1, <1>7 DEF MatchRows
  <2>2. one(0).part = p /\ one(0).match = m  OBVIOUS
  <2>3. Width(q, p, m) = 1  BY <1>7 DEF Width
  <2>. HIDE DEF one
  <2>. QED  BY <1>1, <1>2, <2>1, <2>2, <2>3
<1>. QED  BY <1>1, <1>4, <1>5, <1>6, <1>7

(* The rows of a partition are those of its matches, one after the other.   *)
LEMMA PartRowsFacts ==
  ASSUME NEW q \in Queries, NEW p \in 1 .. Len(q.parts)
  PROVE  LET n == NumMatches(q, p)
             off == MatchOffset(q, p)
         IN  /\ n \in Nat
             /\ off \in [0 .. n -> Nat] /\ off[0] = 0
             /\ \A m \in 1 .. n : off[m] = off[m - 1] + Width(q, p, m)
             /\ \A i, j \in 0 .. n : i <= j => off[i] <= off[j]
             /\ RowsOf(q, p) \in Seq(RowType) /\ Len(RowsOf(q, p)) = off[n]
             /\ \A m \in 1 .. n : \A k \in 1 .. Width(q, p, m) :
                  RowsOf(q, p)[off[m - 1] + k] = MatchRows(q, p, m)[k]
<1>. DEFINE n == NumMatches(q, p)
            off == MatchOffset(q, p)
            ss == RowsByMatch(q, p)
<1>1. n \in Nat  BY QueryFacts
<1>2. /\ ss \in [1 .. n -> Seq(RowType)] /\ Len(ss) = n
      /\ \A m \in 1 .. n : ss[m] = MatchRows(q, p, m) /\ Len(ss[m]) = Width(q, p, m)
  <2>1. \A m \in 1 .. n : MatchRows(q, p, m) \in Seq(RowType)
                          /\ Len(MatchRows(q, p, m)) = Width(q, p, m)
    BY MatchRowsFacts
  <2>. QED  BY <1>1, <2>1 DEF RowsByMatch
<1>3. RowsOf(q, p) = FlattenSeq(ss)  BY DEF RowsOf, RowsByMatch, NumMatches
<1>4. off = Offsets(ss)  BY DEF MatchOffset
<1>. HIDE DEF ss, off, n
<1>5. /\ Lengths(ss) \in [1 .. n -> Nat]
      /\ IsOffsets(n, Lengths(ss), off)
      /\ IsJoin(FlattenSeq(ss), ss, n, RowType, off)
  BY <1>1, <1>2, <1>4, FlattenProperties
<1>6. \A m \in 1 .. n : Lengths(ss)[m] = Width(q, p, m)
  BY <1>2 DEF Lengths
<1>7. \A i, j \in 0 .. n : i <= j => off[i] <= off[j]
  BY <1>1, <1>5, OffsetsGrow
<1>8. /\ off \in [0 .. n -> Nat] /\ off[0] = 0
      /\ \A m \in 1 .. n : off[m] = off[m - 1] + Width(q, p, m)
  BY <1>5, <1>6 DEF IsOffsets
<1>9. /\ RowsOf(q, p) \in Seq(RowType) /\ Len(RowsOf(q, p)) = off[n]
      /\ \A m \in 1 .. n : \A k \in 1 .. Width(q, p, m) :
           RowsOf(q, p)[off[m - 1] + k] = MatchRows(q, p, m)[k]
  BY <1>2, <1>3, <1>5 DEF IsJoin
<1>. QED  BY <1>1, <1>7, <1>8, <1>9 DEF n, off

(* The answer is the rows of the partitions, one after the other.           *)
LEMMA AnswerFacts ==
  ASSUME NEW q \in Queries
  PROVE  LET n == Len(q.parts)
             off == PartOffset(q)
         IN  /\ n \in Nat
             /\ off \in [0 .. n -> Nat] /\ off[0] = 0
             /\ \A p \in 1 .. n : off[p] = off[p - 1] + MatchOffset(q, p)[NumMatches(q, p)]
             /\ \A i, j \in 0 .. n : i <= j => off[i] <= off[j]
             /\ AnswerOf(q) \in Seq(RowType) /\ Len(AnswerOf(q)) = off[n]
             /\ \A p \in 1 .. n : \A i \in 1 .. Len(RowsOf(q, p)) :
                  AnswerOf(q)[off[p - 1] + i] = RowsOf(q, p)[i]
<1>. DEFINE n == Len(q.parts)
            off == PartOffset(q)
            ss == RowsByPart(q)
            width(p) == MatchOffset(q, p)[NumMatches(q, p)]
<1>1. n \in Nat  BY QueryFacts
<1>2. /\ ss \in [1 .. n -> Seq(RowType)] /\ Len(ss) = n
      /\ \A p \in 1 .. n : ss[p] = RowsOf(q, p) /\ Len(ss[p]) = width(p)
  <2>1. \A p \in 1 .. n : RowsOf(q, p) \in Seq(RowType)
                          /\ Len(RowsOf(q, p)) = width(p)
    BY PartRowsFacts
  <2>. HIDE DEF width
  <2>. QED  BY <1>1, <2>1 DEF RowsByPart
<1>3. AnswerOf(q) = FlattenSeq(ss)  BY DEF AnswerOf, RowsByPart
<1>4. off = Offsets(ss)  BY DEF PartOffset
<1>. HIDE DEF ss, off, n, width
<1>5. /\ Lengths(ss) \in [1 .. n -> Nat]
      /\ IsOffsets(n, Lengths(ss), off)
      /\ IsJoin(FlattenSeq(ss), ss, n, RowType, off)
  BY <1>1, <1>2, <1>4, FlattenProperties
<1>6. \A p \in 1 .. n : Lengths(ss)[p] = width(p)
  BY <1>2 DEF Lengths
<1>7. \A i, j \in 0 .. n : i <= j => off[i] <= off[j]
  BY <1>1, <1>5, OffsetsGrow
<1>8. /\ off \in [0 .. n -> Nat] /\ off[0] = 0
      /\ \A p \in 1 .. n : off[p] = off[p - 1] + width(p)
  BY <1>5, <1>6 DEF IsOffsets
<1>9. /\ AnswerOf(q) \in Seq(RowType) /\ Len(AnswerOf(q)) = off[n]
      /\ \A p \in 1 .. n : \A i \in 1 .. Len(RowsOf(q, p)) :
           AnswerOf(q)[off[p - 1] + i] = RowsOf(q, p)[i]
  <2>1. /\ FlattenSeq(ss) \in Seq(RowType) /\ Len(FlattenSeq(ss)) = off[n]
        /\ \A p \in 1 .. n : \A i \in 1 .. Len(ss[p]) :
             FlattenSeq(ss)[off[p - 1] + i] = ss[p][i]
    BY <1>5 DEF IsJoin
  <2>2. \A p \in 1 .. n : ss[p] = RowsOf(q, p)  BY <1>2
  <2>. QED  BY <1>3, <2>1, <2>2, Zenon
<1>. QED  BY <1>1, <1>7, <1>8, <1>9 DEF n, off, width

(* The place of a row in the answer, by its partition, match and number.    *)
LEMMA AnswerPlaces ==
  ASSUME NEW q \in Queries, NEW p \in 1 .. Len(q.parts),
         NEW m \in 1 .. NumMatches(q, p), NEW k \in 1 .. Width(q, p, m)
  PROVE  LET r == PartOffset(q)[p - 1] + MatchOffset(q, p)[m - 1] + k
         IN  /\ r \in 1 .. PartOffset(q)[p]
             /\ AnswerOf(q)[r] = MatchRows(q, p, m)[k]
<1>. DEFINE i == MatchOffset(q, p)[m - 1] + k
            w == MatchOffset(q, p)[NumMatches(q, p)]
            before == PartOffset(q)[p - 1]
            moff == MatchOffset(q, p)
            N == NumMatches(q, p)
<1>1. Width(q, p, m) \in Nat  BY MatchRowsFacts
<1>2. /\ N \in Nat /\ moff \in [0 .. N -> Nat]
      /\ moff[m] = moff[m - 1] + Width(q, p, m)
      /\ moff[m] <= moff[N]
      /\ Len(RowsOf(q, p)) = moff[N]
      /\ RowsOf(q, p)[i] = MatchRows(q, p, m)[k]
  BY PartRowsFacts
<1>3. i \in 1 .. w
  <2>. HIDE DEF moff, N
  <2>0. m \in 1 .. N  BY DEF N
  <2>1. moff[m - 1] \in Nat /\ moff[N] \in Nat  BY <1>2, <2>0
  <2>2. k \in Nat /\ k >= 1 /\ k <= Width(q, p, m)  BY <1>1
  <2>3. moff[m - 1] + k \in 1 .. moff[N]  BY <1>1, <1>2, <2>1, <2>2, SMTT(30)
  <2>. QED  BY <2>3 DEF moff, N
<1>4. /\ before \in Nat
      /\ PartOffset(q)[p] = before + w
      /\ AnswerOf(q)[before + i] = RowsOf(q, p)[i]
  <2>1. i \in 1 .. Len(RowsOf(q, p))  BY <1>2, <1>3
  <2>2. AnswerOf(q)[before + i] = RowsOf(q, p)[i]
    <3>. HIDE DEF i
    <3>. QED  BY <2>1, AnswerFacts
  <2>3. before \in Nat /\ PartOffset(q)[p] = before + w
    <3>1. /\ Len(q.parts) \in Nat
          /\ PartOffset(q) \in [0 .. Len(q.parts) -> Nat]
          /\ PartOffset(q)[p] = PartOffset(q)[p - 1] + w
      BY AnswerFacts
    <3>. QED  BY <3>1
  <2>. QED  BY <2>2, <2>3
<1>5. moff[m - 1] \in Nat /\ w \in Nat /\ k \in Nat /\ i \in Nat
  BY <1>1, <1>2, <1>3
<1>6. before + moff[m - 1] + k = before + i
  <2>. HIDE DEF before, moff
  <2>. QED  BY <1>4, <1>5 DEF moff
<1>7. before + i \in 1 .. PartOffset(q)[p]
  <2>. HIDE DEF before, i, w
  <2>. QED  BY <1>3, <1>4, <1>5
<1>. QED  BY <1>2, <1>4, <1>6, <1>7

(* Every row of the answer is one of some partition's, and says so.         *)
LEMMA AnswerOwner ==
  ASSUME NEW q \in Queries, NEW r \in 1 .. Len(AnswerOf(q))
  PROVE  LET p == AnswerOf(q)[r].part
         IN  p \in 1 .. Len(q.parts) /\ PartOffset(q)[p - 1] < r /\ r <= PartOffset(q)[p]
<1>. DEFINE n == Len(q.parts)
            off == PartOffset(q)
            width == [p \in 1 .. n |-> MatchOffset(q, p)[NumMatches(q, p)]]
<1>1. /\ n \in Nat /\ off \in [0 .. n -> Nat] /\ off[0] = 0
      /\ \A p \in 1 .. n : off[p] = off[p - 1] + MatchOffset(q, p)[NumMatches(q, p)]
      /\ r \in 1 .. off[n]
  BY AnswerFacts
<1>2. ASSUME NEW p \in 1 .. n PROVE width[p] \in Nat
  BY PartRowsFacts
<1>3. width \in [1 .. n -> Nat] /\ IsOffsets(n, width, off)
  BY <1>1, <1>2 DEF IsOffsets
<1>. HIDE DEF width, off, n
<1>4. PICK p \in 1 .. n : \E i \in 1 .. width[p] : r = off[p - 1] + i
  <2>1. Covered(r, n, width, off)  BY <1>1, <1>3, JoinCovers
  <2>. QED  BY <2>1 DEF Covered
<1>5. PICK i \in 1 .. width[p] : r = off[p - 1] + i
  BY <1>4
<1>6. off[p - 1] \in Nat /\ off[p] \in Nat /\ width[p] \in Nat  BY <1>1, <1>3
<1>. DEFINE N == NumMatches(q, p)
            moff == MatchOffset(q, p)
            mwidth == [m \in 1 .. N |-> Width(q, p, m)]
<1>7. /\ N \in Nat /\ moff \in [0 .. N -> Nat] /\ moff[0] = 0
      /\ \A m \in 1 .. N : moff[m] = moff[m - 1] + Width(q, p, m)
  BY PartRowsFacts DEF n
<1>8. i \in 1 .. moff[N]  BY DEF width
<1>9. ASSUME NEW m \in 1 .. N PROVE mwidth[m] \in Nat
  BY MatchRowsFacts DEF n
<1>10. mwidth \in [1 .. N -> Nat] /\ IsOffsets(N, mwidth, moff)
  BY <1>7, <1>9 DEF IsOffsets
<1>. HIDE DEF mwidth, moff, N
<1>11. PICK m \in 1 .. N : \E k \in 1 .. mwidth[m] : i = moff[m - 1] + k
  <2>1. Covered(i, N, mwidth, moff)  BY <1>7, <1>8, <1>10, JoinCovers
  <2>. QED  BY <2>1 DEF Covered
<1>12. PICK k \in 1 .. mwidth[m] : i = moff[m - 1] + k
  BY <1>11
<1>13. /\ k \in 1 .. Width(q, p, m)
       /\ off[p - 1] + moff[m - 1] + k = r
       /\ off[p - 1] < r
  <2>1. mwidth[m] = Width(q, p, m)  BY DEF mwidth
  <2>2. moff[m - 1] \in Nat /\ k \in Nat  BY <1>7, <1>10
  <2>. QED  BY <1>5, <1>6, <1>12, <2>1, <2>2, SMTT(30)
<1>14. r \in 1 .. off[p] /\ AnswerOf(q)[r] = MatchRows(q, p, m)[k]
  BY <1>13, AnswerPlaces DEF off, moff, n, N
<1>15. AnswerOf(q)[r].part = p  BY <1>13, <1>14, MatchRowsFacts DEF n, N
<1>. QED  BY <1>13, <1>14, <1>15 DEF off, n

-----------------------------------------------------------------------------
(* One partition's run.                                                     *)

(* The fold of a match's first n binds. *)
FoldOf(m, n) == [j \in 1 .. n |-> <<m, j>>]

(* A run stands before a match, or inside a match whose folds have seen the *)
(* binds up to its last row.                                                *)
RunOK(q, run) ==
  /\ run \in RunType(q)
  /\ run.mi <= NumMatches(q, run.part) + 1
  /\ IF run.loaded
     THEN /\ q.all
          /\ run.mi <= NumMatches(q, run.part)
          /\ run.ri \in 1 .. q.parts[run.part].matches[run.mi] - 1
          /\ run.index = run.mi
          /\ run.memo = FoldOf(run.mi, run.ri)
     ELSE run.ri = 0

(* How many rows of the answer precede the run's next one. *)
RunPlace(q, run) ==
  PartOffset(q)[run.part - 1] + MatchOffset(q, run.part)[run.mi - 1] + run.ri

(* The facts about the partition and the match a run that is not done is at. *)
LEMMA RunFacts ==
  ASSUME query \in Queries, NEW run, RunOK(query, run)
  PROVE  /\ run.part \in 1 .. NumParts /\ NumParts \in Nat
         /\ run.mi \in 1 .. NumMatches(query, run.part) + 1
         /\ run.ri \in Nat /\ run.loaded \in BOOLEAN /\ run.index \in Nat
         /\ run.memo \in Seq(Nat \X Nat)
         /\ NumMatches(query, run.part) \in Nat
         /\ NumParts = Len(query.parts)
         /\ ~IsDone(run) => /\ run.mi \in 1 .. NumMatches(query, run.part)
                            /\ Bound(run) \in Nat
                            /\ Bound(run) = query.parts[run.part].matches[run.mi]
<1>1. /\ run.part \in 1 .. NumParts /\ run.mi \in Nat \ {0} /\ run.ri \in Nat
      /\ run.loaded \in BOOLEAN /\ run.index \in Nat /\ run.memo \in Seq(Nat \X Nat)
      /\ run.mi <= NumMatches(query, run.part) + 1
  BY DEF RunOK, RunType, NumParts, Parts
<1>2. NumParts = Len(query.parts)  BY DEF NumParts, Parts
<1>3. NumParts \in Nat /\ NumMatches(query, run.part) \in Nat
  BY <1>1, <1>2, QueryFacts
<1>4. ASSUME ~IsDone(run)
      PROVE  /\ run.mi \in 1 .. NumMatches(query, run.part)
             /\ Bound(run) \in Nat
             /\ Bound(run) = query.parts[run.part].matches[run.mi]
  <2>1. run.mi \in 1 .. NumMatches(query, run.part)
    BY <1>1, <1>3, <1>4 DEF IsDone, Parts, NumMatches
  <2>2. Bound(run) = query.parts[run.part].matches[run.mi]
    BY DEF Bound, Parts
  <2>. QED  BY <1>1, <1>2, <2>1, <2>2, QueryFacts
<1>. QED  BY <1>1, <1>2, <1>3, <1>4

(* The fold of n binds is a sequence of n of them. *)
LEMMA FoldOfFacts ==
  ASSUME NEW m \in Nat, NEW n \in Nat
  PROVE  /\ FoldOf(m, n) \in Seq(Nat \X Nat) /\ Len(FoldOf(m, n)) = n
         /\ \A j \in 1 .. n : FoldOf(m, n)[j] = <<m, j>>
BY DEF FoldOf

(* Indexing a match starts its folds afresh, and never again inside it.     *)
LEMMA LoadedFacts ==
  ASSUME query \in Queries, NEW run, RunOK(query, run), ~IsDone(run)
  PROVE  /\ Loaded(run) = [run EXCEPT !.loaded = TRUE, !.index = run.mi,
                                      !.memo = FoldOf(run.mi, run.ri)]
         /\ Loaded(run) \in RunType(query)
<1>1. run \in RunType(query) /\ run.mi \in Nat \ {0} /\ run.ri \in Nat
  BY DEF RunOK, RunType
<1>2. CASE run.loaded
  <2>1. Loaded(run) = run /\ run.index = run.mi /\ run.memo = FoldOf(run.mi, run.ri)
    BY <1>2 DEF Loaded, RunOK, FoldOf
  <2>2. run = [run EXCEPT !.loaded = TRUE, !.index = run.mi,
                          !.memo = FoldOf(run.mi, run.ri)]
    BY <1>1, <1>2, <2>1 DEF RunType
  <2>. QED  BY <1>1, <2>1, <2>2
<1>3. CASE ~run.loaded
  <2>1. run.ri = 0  BY <1>3 DEF RunOK
  <2>2. FoldOf(run.mi, 0) = <<>>  BY DEF FoldOf
  <2>3. Loaded(run) = [run EXCEPT !.loaded = TRUE, !.index = run.mi, !.memo = <<>>]
    BY <1>3 DEF Loaded
  <2>4. Loaded(run) = [run EXCEPT !.loaded = TRUE, !.index = run.mi,
                                  !.memo = FoldOf(run.mi, run.ri)]
    BY <2>1, <2>2, <2>3
  <2>5. <<>> \in Seq(Nat \X Nat)  OBVIOUS
  <2>6. Loaded(run) \in RunType(query)  BY <1>1, <2>3, <2>5 DEF RunType
  <2>. QED  BY <2>4, <2>6
<1>. QED  BY <1>2, <1>3

(* One more bind extends the fold by that bind. *)
LEMMA FoldExtends ==
  ASSUME NEW m \in Nat, NEW n \in Nat
  PROVE  FoldOf(m, n) \o <<<<m, n + 1>>>> = FoldOf(m, n + 1)
<1>. DEFINE memo == FoldOf(m, n)
            more == <<<<m, n + 1>>>>
            longer == FoldOf(m, n + 1)
            joined == memo \o more
<1>0. n + 1 \in Nat  OBVIOUS
<1>1. memo \in Seq(Nat \X Nat) /\ Len(memo) = n
  BY FoldOfFacts
<1>2. longer \in Seq(Nat \X Nat) /\ Len(longer) = n + 1
  BY <1>0, FoldOfFacts
<1>3. more \in Seq(Nat \X Nat) /\ Len(more) = 1
  OBVIOUS
<1>4. \A i \in 1 .. n : memo[i] = <<m, i>>
  BY FoldOfFacts
<1>5. \A i \in 1 .. n + 1 : longer[i] = <<m, i>>
  BY <1>0, FoldOfFacts
<1>6. more[1] = <<m, n + 1>>
  OBVIOUS
<1>. HIDE DEF memo, more, longer
<1>7. joined \in Seq(Nat \X Nat) /\ Len(joined) = n + 1
  <2>1. joined \in Seq(Nat \X Nat)  BY <1>1, <1>3, ConcatProperties
  <2>2. Len(joined) = Len(memo) + Len(more)  BY <1>1, <1>3, ConcatProperties
  <2>. QED  BY <1>1, <1>3, <2>1, <2>2
<1>8. ASSUME NEW i \in 1 .. n + 1
      PROVE  joined[i] = IF i <= n THEN memo[i] ELSE more[i - n]
  <2>1. i \in 1 .. Len(memo) + Len(more)  BY <1>1, <1>3
  <2>2. joined[i] = IF i <= Len(memo) THEN memo[i] ELSE more[i - Len(memo)]
    BY <1>1, <1>3, <2>1, ConcatProperties
  <2>. QED  BY <1>1, <2>2
<1>. HIDE DEF joined
<1>9. ASSUME NEW i \in 1 .. n + 1 PROVE joined[i] = longer[i]
  <2>0. joined[i] = IF i <= n THEN memo[i] ELSE more[i - n]  BY <1>8
  <2>1. CASE i <= n
    <3>1. i \in 1 .. n  BY <2>1
    <3>. QED  BY <1>4, <1>5, <2>0, <2>1, <3>1
  <2>2. CASE i = n + 1
    <3>1. ~(i <= n) /\ i - n = 1  BY <2>2
    <3>. QED  BY <1>5, <1>6, <2>0, <2>2, <3>1
  <2>. QED  BY <2>1, <2>2
<1>10. joined = longer
  BY <1>2, <1>7, <1>9, SeqEqual
<1>. QED  BY <1>10 DEF longer, memo, more, joined

(* Folded, at a run whose fold has seen n binds, sees the next one. *)
LEMMA FoldedFacts ==
  ASSUME NEW run, NEW m \in Nat, NEW n \in Nat, run.mi = m, run.memo = FoldOf(m, n)
  PROVE  Folded(run, n + 1) = FoldOf(m, n + 1)
<1>1. FoldOf(m, n) \in Seq(Nat \X Nat) /\ Len(FoldOf(m, n)) = n
  BY FoldOfFacts
<1>2. Folded(run, n + 1) = FoldOf(m, n) \o [j \in 1 .. 1 |-> <<m, n + j>>]
  <2>1. (n + 1) - Len(run.memo) = 1  BY <1>1
  <2>. QED  BY <1>1, <2>1 DEF Folded
<1>3. [j \in 1 .. 1 |-> <<m, n + j>>] = <<<<m, n + 1>>>>
  OBVIOUS
<1>. QED  BY <1>2, <1>3, FoldExtends

(* An emission moves the run by at most one row of the answer, which is the *)
(* one it yields: inside a match, at a match's end, or past an empty match. *)
LEMMA EmissionFacts ==
  ASSUME query \in Queries, NEW run, RunOK(query, run), ~IsDone(run)
  PROVE  LET e == Emission(run)
         IN  /\ RunOK(query, e.run) /\ e.run.part = run.part
             /\ \/ e.row = <<>> /\ RunPlace(query, e.run) = RunPlace(query, run)
                \/ /\ e.row = <<Answer[RunPlace(query, run) + 1]>>
                   /\ RunPlace(query, e.run) = RunPlace(query, run) + 1
                   /\ RunPlace(query, run) + 1 \in 1 .. PartOffset(query)[run.part]
<1>. DEFINE e == Emission(run)
            p == run.part
            m == run.mi
            k == run.ri + 1
            n == NumMatches(query, p)
            binds == Bound(run)
            all == Loaded(run)
            fold == Folded(all, k)
            next == [all EXCEPT !.ri = k, !.memo = fold]
            base == PartOffset(query)[p - 1]
            off == MatchOffset(query, p)
<1>1. /\ p \in 1 .. NumParts /\ NumParts \in Nat /\ n \in Nat
      /\ m \in 1 .. n /\ run.ri \in Nat /\ binds \in Nat
      /\ binds = query.parts[p].matches[m]
      /\ p \in 1 .. Len(query.parts) /\ m \in Nat \ {0} /\ k \in Nat
      /\ run \in RunType(query)
      /\ query.all \in BOOLEAN /\ query.omit \in BOOLEAN
  <2>1. run \in RunType(query)  BY DEF RunOK
  <2>. QED  BY <2>1, RunFacts, QueryFacts
<1>2. base \in Nat
  <2>1. Len(query.parts) \in Nat /\ PartOffset(query) \in [0 .. Len(query.parts) -> Nat]
    BY AnswerFacts
  <2>. QED  BY <1>1, <2>1
<1>3. /\ off \in [0 .. n -> Nat]
      /\ off[m] = off[m - 1] + Width(query, p, m)
  BY <1>1, PartRowsFacts
<1>4. off[m - 1] \in Nat /\ off[m] \in Nat
  <2>1. m - 1 \in 0 .. n /\ m \in 0 .. n  BY <1>1
  <2>. HIDE DEF off, m, n
  <2>. QED  BY <1>3, <2>1
<1>5. Width(query, p, m) = IF query.all THEN IF binds > 0 THEN binds
                                             ELSE IF query.omit THEN 0 ELSE 1
                           ELSE 1
  BY <1>1 DEF Width
(* The row of the answer that a row of this match is. *)
<1>6. ASSUME NEW i \in 1 .. Width(query, p, m)
      PROVE  /\ Answer[base + off[m - 1] + i] = MatchRows(query, p, m)[i]
             /\ base + off[m - 1] + i \in 1 .. PartOffset(query)[p]
  BY <1>1, <1>6, AnswerPlaces DEF Answer
<1>7. RunPlace(query, run) = base + off[m - 1] + run.ri  BY DEF RunPlace
(* The run before the next match. *)
<1>8. ASSUME NEW r, r \in RunType(query), r.part = p, r.mi = m + 1, r.ri = 0, ~r.loaded
      PROVE  RunOK(query, r) /\ RunPlace(query, r) = base + off[m]
  <2>1. r.mi - 1 = m /\ r.mi <= n + 1  BY <1>1, <1>8
  <2>2. RunPlace(query, r) = base + off[m] + 0  BY <1>8, <2>1 DEF RunPlace
  <2>. QED  BY <1>2, <1>4, <1>8, <2>1, <2>2 DEF RunOK
<1>9. /\ all \in RunType(query) /\ all.part = p /\ all.mi = m /\ all.ri = run.ri
      /\ all.loaded /\ all.index = m /\ all.memo = FoldOf(m, run.ri)
  <2>1. all = [run EXCEPT !.loaded = TRUE, !.index = run.mi, !.memo = FoldOf(run.mi, run.ri)]
        /\ all \in RunType(query)
    BY LoadedFacts
  <2>2. /\ all.part = run.part /\ all.mi = run.mi /\ all.ri = run.ri
        /\ all.loaded /\ all.index = run.mi /\ all.memo = FoldOf(run.mi, run.ri)
    BY <1>1, <2>1 DEF RunType
  <2>. QED  BY <2>1, <2>2
<1>10. fold = FoldOf(m, k) /\ fold \in Seq(Nat \X Nat)
  <2>. HIDE DEF all, k, m
  <2>1. Folded(all, run.ri + 1) = FoldOf(m, run.ri + 1)  BY <1>1, <1>9, FoldedFacts
  <2>2. FoldOf(m, k) \in Seq(Nat \X Nat)  BY <1>1, FoldOfFacts
  <2>. QED  BY <2>1, <2>2 DEF k
<1>11. ASSUME NEW r, r \in RunType(query), r.part = p, r.mi = m
       PROVE  /\ NextMatch(r) \in RunType(query) /\ NextMatch(r).part = p
              /\ NextMatch(r).mi = m + 1 /\ NextMatch(r).ri = 0 /\ ~NextMatch(r).loaded
  <2>1. r.mi + 1 \in Nat \ {0}  BY <1>1, <1>11
  <2>2. NextMatch(r) \in RunType(query)  BY <1>11, <2>1 DEF NextMatch, RunType
  <2>3. /\ NextMatch(r).part = r.part /\ NextMatch(r).mi = r.mi + 1
        /\ NextMatch(r).ri = 0 /\ ~NextMatch(r).loaded
    BY <1>11 DEF NextMatch, RunType
  <2>. QED  BY <1>11, <2>2, <2>3
<1>12. \/ run.loaded /\ query.all /\ run.ri \in 1 .. binds - 1
       \/ ~run.loaded /\ run.ri = 0
  <2>1. binds = query.parts[p].matches[m]  BY <1>1
  <2>. HIDE DEF binds
  <2>. QED  BY <2>1 DEF RunOK
<1>13. /\ binds = 0 => ~run.loaded /\ run.ri = 0
       /\ ~query.all => ~run.loaded /\ run.ri = 0
       /\ run.ri < binds \/ run.ri = 0
  <2>1. binds \in Nat /\ run.ri \in Nat  BY <1>1
  <2>. HIDE DEF binds
  <2>2. CASE run.loaded /\ query.all /\ run.ri \in 1 .. binds - 1  BY <2>1, <2>2
  <2>3. CASE ~run.loaded /\ run.ri = 0  BY <2>3
  <2>. QED  BY <1>12, <2>2, <2>3
<1>14. CASE binds = 0 /\ query.all /\ query.omit
  <2>. DEFINE r == [run EXCEPT !.mi = @ + 1]
  <2>1. e = [row |-> <<>>, run |-> r]  BY <1>14 DEF Emission
  <2>2. r \in RunType(query) /\ r.part = p /\ r.mi = m + 1 /\ r.ri = 0 /\ ~r.loaded
    <3>1. run \in RunType(query) /\ run.mi + 1 \in Nat \ {0}  BY <1>1
    <3>2. r \in RunType(query)  BY <3>1 DEF RunType
    <3>3. r.part = run.part /\ r.mi = run.mi + 1 /\ r.ri = run.ri /\ r.loaded = run.loaded
      BY <3>1 DEF RunType
    <3>. QED  BY <1>13, <1>14, <3>2, <3>3
  <2>3. RunOK(query, r) /\ RunPlace(query, r) = base + off[m]  BY <1>8, <2>2
  <2>4. off[m] = off[m - 1]  BY <1>3, <1>4, <1>5, <1>14
  <2>5. RunPlace(query, r) = RunPlace(query, run)  BY <1>2, <1>4, <1>7, <1>13, <1>14, <2>3, <2>4
  <2>. HIDE DEF r, e
  <2>6. e.row = <<>> /\ e.run = r  BY <2>1
  <2>. QED  BY <2>2, <2>3, <2>5, <2>6 DEF e
(* In the other cases the run yields the row its place says. *)
<1>. DEFINE Yields(row, r) ==
       /\ RunOK(query, r) /\ r.part = p
       /\ row = Answer[RunPlace(query, run) + 1]
       /\ RunPlace(query, r) = RunPlace(query, run) + 1
       /\ RunPlace(query, run) + 1 \in 1 .. PartOffset(query)[p]
<1>15. ASSUME NEW row, NEW r, Yields(row, r), e = [row |-> <<row>>, run |-> r]
       PROVE  /\ RunOK(query, e.run) /\ e.run.part = p
              /\ e.row = <<Answer[RunPlace(query, run) + 1]>>
              /\ RunPlace(query, e.run) = RunPlace(query, run) + 1
              /\ RunPlace(query, run) + 1 \in 1 .. PartOffset(query)[p]
  <2>1. e.row = <<row>> /\ e.run = r  BY <1>15
  <2>. HIDE DEF e, p
  <2>. QED  BY <1>15, <2>1
(* ... the last, if it goes on to the next match, *)
<1>16. ASSUME NEW row, NEW r, run.ri + 1 = Width(query, p, m),
              row = MatchRows(query, p, m)[run.ri + 1],
              r \in RunType(query), r.part = p, r.mi = m + 1, r.ri = 0, ~r.loaded
       PROVE  Yields(row, r)
  <2>1. RunOK(query, r) /\ RunPlace(query, r) = base + off[m]  BY <1>8, <1>16
  <2>2. k \in 1 .. Width(query, p, m)  BY <1>1, <1>16
  <2>3. /\ Answer[base + off[m - 1] + k] = MatchRows(query, p, m)[k]
        /\ base + off[m - 1] + k \in 1 .. PartOffset(query)[p]
    BY <1>6, <2>2
  <2>4. base + off[m - 1] + k = RunPlace(query, run) + 1
    <3>1. run.ri \in Nat  BY <1>1
    <3>. HIDE DEF base, off, m
    <3>. QED  BY <1>2, <1>4, <1>7, <3>1
  <2>5. base + off[m] = RunPlace(query, run) + 1
    <3>1. run.ri \in Nat  BY <1>1
    <3>. HIDE DEF base, off, m, p
    <3>. QED  BY <1>2, <1>3, <1>4, <1>7, <1>16, <3>1, SMTT(30)
  <2>. HIDE DEF base, off
  <2>. QED  BY <1>16, <2>1, <2>3, <2>4, <2>5
<1>17. CASE binds = 0 /\ ~(query.all /\ query.omit)
  <2>. DEFINE r == [run EXCEPT !.mi = @ + 1]
              row == [part |-> p, match |-> m, row |-> 0, index |-> 0, fold |-> <<>>]
  <2>1. e = [row |-> <<row>>, run |-> r]  BY <1>17 DEF Emission, Row
  <2>2. r \in RunType(query) /\ r.part = p /\ r.mi = m + 1 /\ r.ri = 0 /\ ~r.loaded
    BY <1>1, <1>13, <1>17 DEF RunType
  <2>3. Width(query, p, m) = 1 /\ run.ri + 1 = 1  BY <1>5, <1>13, <1>17
  <2>4. MatchRows(query, p, m) = <<row>>
    BY <1>1, <1>17 DEF MatchRows
  <2>5. row = MatchRows(query, p, m)[run.ri + 1]
    <3>. HIDE DEF row
    <3>. QED  BY <2>3, <2>4
  <2>6. Yields(row, r)
    <3>. HIDE DEF row, r, Yields
    <3>. QED  BY <1>16, <2>2, <2>3, <2>5
  <2>. HIDE DEF row, r, Yields, e
  <2>. QED  BY <1>15, <2>1, <2>6 DEF e
<1>18. CASE binds > 0 /\ ~query.all
  <2>. DEFINE r == NextMatch(all)
              row == [part |-> p, match |-> m, row |-> 0, index |-> m, fold |-> <<>>]
  <2>1. e = [row |-> <<row>>, run |-> r]
    <3>1. e = [row |-> <<Row(run, 0, all.index, <<>>)>>, run |-> NextMatch(all)]
      BY <1>18 DEF Emission
    <3>2. Row(run, 0, all.index, <<>>) = row  BY <1>9 DEF Row
    <3>. QED  BY <3>1, <3>2
  <2>2. r \in RunType(query) /\ r.part = p /\ r.mi = m + 1 /\ r.ri = 0 /\ ~r.loaded
    BY <1>9, <1>11
  <2>3. Width(query, p, m) = 1 /\ run.ri + 1 = 1  BY <1>5, <1>13, <1>18
  <2>4. MatchRows(query, p, m) = <<row>>
    BY <1>1, <1>18 DEF MatchRows
  <2>5. row = MatchRows(query, p, m)[run.ri + 1]
    <3>. HIDE DEF row
    <3>. QED  BY <2>3, <2>4
  <2>6. Yields(row, r)
    <3>. HIDE DEF row, r, Yields
    <3>. QED  BY <1>16, <2>2, <2>3, <2>5
  <2>. HIDE DEF row, r, Yields, e
  <2>. QED  BY <1>15, <2>1, <2>6 DEF e
<1>19. CASE binds > 0 /\ query.all
  <2>. DEFINE r == IF k < binds THEN next ELSE NextMatch(next)
              row == [part |-> p, match |-> m, row |-> k, index |-> m,
                      fold |-> [j \in 1 .. k |-> <<m, j>>]]
  <2>1. e = [row |-> <<row>>, run |-> r]
    <3>1. e = [row |-> <<Row(run, k, all.index, fold)>>, run |-> r]
      BY <1>19 DEF Emission
    <3>2. Row(run, k, all.index, fold) = row  BY <1>9, <1>10 DEF Row, FoldOf
    <3>. QED  BY <3>1, <3>2
  <2>2. /\ next \in RunType(query) /\ next.part = p /\ next.mi = m /\ next.ri = k
        /\ next.loaded /\ next.index = m /\ next.memo = FoldOf(m, k)
    <3>. HIDE DEF all, fold, k, m, p
    <3>. QED  BY <1>1, <1>9, <1>10 DEF RunType
  <2>3. Width(query, p, m) = binds /\ k \in 1 .. binds
    BY <1>1, <1>5, <1>13, <1>19, SMTT(30)
  <2>4. row = MatchRows(query, p, m)[k]
    <3>1. MatchRows(query, p, m) =
            [i \in 1 .. binds |-> [part |-> p, match |-> m, row |-> i, index |-> m,
                                   fold |-> [j \in 1 .. i |-> <<m, j>>]]]
      BY <1>1, <1>19 DEF MatchRows
    <3>. QED  BY <2>3, <3>1
  <2>5. CASE k < binds
    <3>1. RunOK(query, next)
      <4>1. next.ri \in 1 .. binds - 1
        <5>1. binds \in Nat /\ k \in Nat  BY <1>1
        <5>. HIDE DEF next, binds, k
        <5>. QED  BY <2>2, <2>3, <2>5, <5>1
      <4>2. next.mi <= NumMatches(query, next.part)  BY <1>1, <2>2
      <4>3. next.mi <= NumMatches(query, next.part) + 1  BY <1>1, <2>2
      <4>4. binds = query.parts[next.part].matches[next.mi]  BY <1>1, <2>2
      <4>. HIDE DEF next, binds
      <4>. QED  BY <1>19, <2>2, <4>1, <4>2, <4>3, <4>4 DEF RunOK
    <3>2. RunPlace(query, next) = RunPlace(query, run) + 1
      <4>1. RunPlace(query, next) = base + off[m - 1] + k  BY <2>2 DEF RunPlace
      <4>2. run.ri \in Nat  BY <1>1
      <4>. HIDE DEF base, off, m
      <4>. QED  BY <1>2, <1>4, <1>7, <4>1, <4>2
    <3>3. /\ row = Answer[RunPlace(query, run) + 1]
          /\ RunPlace(query, run) + 1 \in 1 .. PartOffset(query)[p]
      <4>1. base + off[m - 1] + k = RunPlace(query, run) + 1
        <5>1. run.ri \in Nat  BY <1>1
        <5>. HIDE DEF base, off, m
        <5>. QED  BY <1>2, <1>4, <1>7, <5>1
      <4>. HIDE DEF row, base, off, k
      <4>. QED  BY <1>6, <2>3, <2>4, <4>1
    <3>4. r = next  BY <2>5
    <3>. HIDE DEF r, next, row, e
    <3>5. Yields(row, r)  BY <2>2, <3>1, <3>2, <3>3, <3>4
    <3>. HIDE DEF Yields
    <3>. QED  BY <1>15, <2>1, <3>5 DEF e
  <2>6. CASE k = binds
    <3>1. r = NextMatch(next)  BY <1>1, <2>6
    <3>. HIDE DEF r, next, row, Yields
    <3>2. r \in RunType(query) /\ r.part = p /\ r.mi = m + 1 /\ r.ri = 0 /\ ~r.loaded
      BY <1>11, <2>2, <3>1
    <3>3. Yields(row, r)  BY <1>16, <2>3, <2>4, <2>6, <3>2
    <3>. HIDE DEF e
    <3>. QED  BY <1>15, <2>1, <3>3 DEF e
  <2>7. k < binds \/ k = binds  BY <1>1, <2>3
  <2>. QED  BY <2>5, <2>6, <2>7
<1>. QED  BY <1>1, <1>14, <1>17, <1>18, <1>19, SMTT(30)

(* A run stands inside its partition's part of the answer, and at the end of *)
(* it when it is done.                                                      *)
LEMMA PlaceFacts ==
  ASSUME query \in Queries, NEW run, RunOK(query, run)
  PROVE  /\ PartOffset(query)[run.part - 1] \in Nat
         /\ PartOffset(query)[run.part] \in Nat
         /\ RunPlace(query, run) \in Nat
         /\ PartOffset(query)[run.part - 1] <= RunPlace(query, run)
         /\ RunPlace(query, run) <= PartOffset(query)[run.part]
         /\ IsDone(run) => RunPlace(query, run) = PartOffset(query)[run.part]
<1>. DEFINE p == run.part
            m == run.mi
            n == NumMatches(query, p)
            base == PartOffset(query)[p - 1]
            end == PartOffset(query)[p]
            off == MatchOffset(query, p)
<1>1. /\ p \in 1 .. Len(query.parts) /\ n \in Nat /\ m \in 1 .. n + 1 /\ run.ri \in Nat
      /\ run.loaded \in BOOLEAN
  BY RunFacts
<1>2. base \in Nat /\ end \in Nat /\ end = base + off[n]
  <2>1. /\ Len(query.parts) \in Nat /\ PartOffset(query) \in [0 .. Len(query.parts) -> Nat]
        /\ end = base + off[n]
    BY <1>1, AnswerFacts
  <2>2. p - 1 \in 0 .. Len(query.parts) /\ p \in 0 .. Len(query.parts)  BY <1>1, <2>1
  <2>. HIDE DEF p, off, n
  <2>. QED  BY <2>1, <2>2
<1>3. /\ off \in [0 .. n -> Nat]
      /\ \A i \in 1 .. n : off[i] = off[i - 1] + Width(query, p, i)
      /\ \A i, j \in 0 .. n : i <= j => off[i] <= off[j]
  BY <1>1, PartRowsFacts
<1>4. RunPlace(query, run) = base + off[m - 1] + run.ri  BY DEF RunPlace
<1>5. off[m - 1] \in Nat /\ off[n] \in Nat /\ off[m - 1] <= off[n]
  <2>1. m - 1 \in 0 .. n /\ n \in 0 .. n /\ m - 1 <= n  BY <1>1
  <2>. HIDE DEF off, m, n
  <2>. QED  BY <1>3, <2>1
<1>6. off[m - 1] + run.ri <= off[n]
  <2>1. CASE ~run.loaded
    <3>1. run.ri = 0  BY <2>1 DEF RunOK
    <3>. HIDE DEF off, m, n
    <3>. QED  BY <1>5, <3>1
  <2>2. CASE run.loaded
    <3>. DEFINE binds == query.parts[p].matches[m]
    <3>1. query.all /\ m \in 1 .. n /\ run.ri \in 1 .. binds - 1 /\ binds \in Nat
      <4>1. query.all /\ m <= n /\ run.ri \in 1 .. binds - 1  BY <2>2 DEF RunOK
      <4>. QED  BY <1>1, <4>1, QueryFacts
    <3>2. Width(query, p, m) = binds
      <4>. HIDE DEF binds
      <4>1. Width(query, p, m) = IF query.all THEN IF binds > 0 THEN binds
                                                   ELSE IF query.omit THEN 0 ELSE 1
                                 ELSE 1
        BY DEF Width, binds
      <4>. QED  BY <3>1, <4>1
    <3>. HIDE DEF off, m, n, p, binds
    <3>3. off[m] = off[m - 1] + binds  BY <1>3, <3>1, <3>2
    <3>4. off[m] <= off[n] /\ off[m] \in Nat
      <4>1. m \in 0 .. n /\ n \in 0 .. n /\ m <= n  BY <1>1, <3>1
      <4>. QED  BY <1>3, <4>1
    <3>. QED  BY <1>1, <1>5, <3>1, <3>3, <3>4
  <2>. QED  BY <1>1, <2>1, <2>2
<1>7. ASSUME IsDone(run) PROVE RunPlace(query, run) = end
  <2>1. m = n + 1  BY <1>1, <1>7 DEF IsDone, NumMatches, Parts
  <2>2. ~run.loaded /\ run.ri = 0
    <3>1. ~(m <= n)  BY <1>1, <2>1
    <3>. QED  BY <3>1 DEF RunOK
  <2>3. m - 1 = n  BY <1>1, <2>1
  <2>. HIDE DEF off, m, n, base, end
  <2>. QED  BY <1>2, <1>4, <1>5, <2>2, <2>3
<1>8. RunPlace(query, run) \in Nat /\ base <= RunPlace(query, run) /\ RunPlace(query, run) <= end
  <2>. HIDE DEF off, m, n, base, end
  <2>. QED  BY <1>1, <1>2, <1>4, <1>5, <1>6, SMTT(30)
<1>. QED  BY <1>2, <1>7, <1>8

(* A run that has just been queued stands before its partition's rows.      *)
LEMMA NewRunFacts ==
  ASSUME query \in Queries, NEW p \in 1 .. NumParts
  PROVE  /\ RunOK(query, NewRun(p)) /\ NewRun(p).part = p
         /\ RunPlace(query, NewRun(p)) = PartOffset(query)[p - 1]
<1>1. p \in 1 .. Len(query.parts) /\ NumMatches(query, p) \in Nat
  BY QueryFacts DEF NumParts, Parts
<1>2. /\ NewRun(p).part = p /\ NewRun(p).mi = 1 /\ NewRun(p).ri = 0
      /\ NewRun(p).loaded = FALSE
      /\ NewRun(p) \in RunType(query)
  BY <1>1 DEF NewRun, RunType
<1>3. RunOK(query, NewRun(p))
  BY <1>1, <1>2 DEF RunOK
<1>4. MatchOffset(query, p)[0] = 0  BY <1>1, PartRowsFacts
<1>5. PartOffset(query)[p - 1] \in Nat  BY <1>2, <1>3, PlaceFacts
<1>6. RunPlace(query, NewRun(p)) = PartOffset(query)[p - 1] + MatchOffset(query, p)[1 - 1] + 0
  BY <1>2 DEF RunPlace
<1>. QED  BY <1>2, <1>3, <1>4, <1>5, <1>6

(* Whose a row of the answer is follows from where it stands. *)
LEMMA AnswerPart ==
  ASSUME NEW q \in Queries, NEW p \in 1 .. Len(q.parts), NEW r \in Nat,
         PartOffset(q)[p - 1] < r, r <= PartOffset(q)[p]
  PROVE  r \in 1 .. Len(AnswerOf(q)) /\ AnswerOf(q)[r].part = p
<1>. DEFINE n == Len(q.parts)
            off == PartOffset(q)
            p2 == AnswerOf(q)[r].part
<1>1. /\ n \in Nat /\ off \in [0 .. n -> Nat]
      /\ \A i, j \in 0 .. n : i <= j => off[i] <= off[j]
      /\ Len(AnswerOf(q)) = off[n]
      /\ p \in 1 .. n /\ off[p - 1] < r /\ r <= off[p]
  BY AnswerFacts
<1>. HIDE DEF n, off
<1>2. r \in 1 .. Len(AnswerOf(q))
  <2>1. off[p] <= off[n] /\ off[p] \in Nat /\ off[n] \in Nat /\ off[p - 1] \in Nat
    <3>1. p \in 0 .. n /\ n \in 0 .. n /\ p <= n /\ p - 1 \in 0 .. n  BY <1>1
    <3>. QED  BY <1>1, <3>1
  <2>. QED  BY <1>1, <2>1
<1>3. p2 \in 1 .. n /\ off[p2 - 1] < r /\ r <= off[p2]
  BY <1>2, AnswerOwner DEF n, off
<1>. HIDE DEF p2
<1>4. off[p] \in Nat /\ off[p - 1] \in Nat /\ off[p2] \in Nat /\ off[p2 - 1] \in Nat
  <2>1. p \in 0 .. n /\ p - 1 \in 0 .. n /\ p2 \in 0 .. n /\ p2 - 1 \in 0 .. n  BY <1>1, <1>3
  <2>. QED  BY <1>1, <2>1
<1>5. ~(p2 <= p - 1)
  <2>1. SUFFICES ASSUME p2 <= p - 1 PROVE FALSE  OBVIOUS
  <2>2. off[p2] <= off[p - 1]  BY <1>1, <1>3, <2>1
  <2>. QED  BY <1>1, <1>3, <1>4, <2>2
<1>6. ~(p <= p2 - 1)
  <2>1. SUFFICES ASSUME p <= p2 - 1 PROVE FALSE  OBVIOUS
  <2>2. off[p] <= off[p2 - 1]  BY <1>1, <1>3, <2>1
  <2>. QED  BY <1>1, <1>3, <1>4, <2>2
<1>7. p2 = p  BY <1>1, <1>3, <1>5, <1>6
<1>. QED  BY <1>2, <1>7 DEF p2

-----------------------------------------------------------------------------
(* Where the chunks of a query begin, and which error is its first.         *)

(* A chunk ends at or after its first partition. *)
LEMMA ChunkEndFacts ==
  ASSUME NEW q \in Queries, NEW from \in 1 .. Len(q.parts)
  PROVE  ChunkEnd(q, from) \in from .. Len(q.parts)
<1>. DEFINE n == Len(q.parts)
            ends == {to \in from .. n : \/ to = n
                                        \/ InputRows(q, from, to) >= LOOKAHEAD_ROWS
                                        \/ to - from + 1 >= MAX_CHUNK_PARTITIONS}
<1>1. n \in Nat  BY QueryFacts
<1>2. n \in ends /\ ends \in SUBSET Nat  BY <1>1
<1>3. Min(ends) \in ends
  <2>. HIDE DEF ends
  <2>. QED  BY <1>2, MinOfSet
<1>4. ChunkEnd(q, from) = Min(ends)  BY DEF ChunkEnd
<1>. QED  BY <1>3, <1>4

(* The first partition of each partition's chunk. *)
LEMMA ChunkStartFacts ==
  ASSUME NEW q \in Queries, Len(q.parts) > 0
  PROVE  LET n == Len(q.parts)
             start == ChunkStart(q)
         IN  /\ n \in Nat \ {0}
             /\ start \in [1 .. n -> 1 .. n]
             /\ start[1] = 1
             /\ \A p \in 2 .. n :
                  start[p] = IF p <= ChunkEnd(q, start[p - 1]) THEN start[p - 1] ELSE p
<1>. DEFINE n == Len(q.parts)
            Def(g) == [p \in 1 .. n |->
                         IF p = 1 THEN 1
                         ELSE IF p <= ChunkEnd(q, g[p - 1]) THEN g[p - 1] ELSE p]
            start == CHOOSE g : g = Def(g)
            step == [x \in (2 .. n) \X (1 .. n) |->
                       IF x[1] <= ChunkEnd(q, x[2]) THEN x[2] ELSE x[1]]
<1>1. n \in Nat \ {0}  BY QueryFacts
<1>2. step \in [(2 .. n) \X (1 .. n) -> 1 .. n]
  OBVIOUS
<1>3. PICK g : Follows(g, n, 1 .. n, 1, step)
  <2>1. 1 \in 1 .. n  BY <1>1
  <2>. HIDE DEF step, n
  <2>. QED  BY <1>1, <1>2, <2>1, RecursionExists
<1>4. /\ g \in [1 .. n -> 1 .. n] /\ g[1] = 1
      /\ \A i \in 2 .. n : g[i] = step[<<i, g[i - 1]>>]
  BY <1>3 DEF Follows
<1>5. ASSUME NEW p \in 1 .. n
      PROVE  g[p] = IF p = 1 THEN 1
                    ELSE IF p <= ChunkEnd(q, g[p - 1]) THEN g[p - 1] ELSE p
  <2>1. CASE p = 1  BY <1>4, <2>1
  <2>2. CASE p # 1
    <3>1. p \in 2 .. n /\ p - 1 \in 1 .. n  BY <1>1, <2>2
    <3>2. g[p - 1] \in 1 .. n
      <4>. HIDE DEF step, n
      <4>. QED  BY <1>4, <3>1
    <3>3. step[<<p, g[p - 1]>>] = IF p <= ChunkEnd(q, g[p - 1]) THEN g[p - 1] ELSE p
      BY <3>1, <3>2
    <3>. HIDE DEF step
    <3>. QED  BY <1>4, <2>2, <3>1, <3>3
  <2>. QED  BY <2>1, <2>2
<1>6. g = Def(g)
  <2>1. g = [p \in 1 .. n |-> g[p]]
    <3>. HIDE DEF step
    <3>. QED  BY <1>4
  <2>. QED  BY <1>5, <2>1, Zenon
<1>7. start = Def(start)
  <2>. HIDE DEF Def
  <2>. QED  BY <1>6
<1>. HIDE DEF start
<1>8. ASSUME NEW p \in 1 .. n
      PROVE  start[p] = IF p = 1 THEN 1
                        ELSE IF p <= ChunkEnd(q, start[p - 1]) THEN start[p - 1] ELSE p
  BY <1>7, Zenon
<1>. DEFINE T == {p \in 1 .. n : start[p] \in 1 .. n}
<1>9. 1 .. n \subseteq T
  <2>1. 1 \in T  BY <1>1, <1>8
  <2>2. ASSUME NEW p \in 1 .. n, p < n, p \in T PROVE p + 1 \in T
    <3>1. p + 1 \in 1 .. n /\ (p + 1) - 1 = p /\ p + 1 # 1  BY <1>1, <2>2
    <3>2. start[p + 1] = IF p + 1 <= ChunkEnd(q, start[p]) THEN start[p] ELSE p + 1
      BY <1>8, <3>1
    <3>. QED  BY <2>2, <3>1, <3>2
  <2>. HIDE DEF T
  <2>. QED  BY <1>1, <2>1, <2>2, IntervalInduction
<1>10. start \in [1 .. n -> 1 .. n]
  <2>1. start = [p \in 1 .. n |-> start[p]]
    <3>1. start = Def(start)  BY <1>7
    <3>. QED  BY <1>8, <3>1, Zenon
  <2>2. \A p \in 1 .. n : start[p] \in 1 .. n  BY <1>9
  <2>. QED  BY <2>1, <2>2
<1>11. start[1] = 1  BY <1>1, <1>8
<1>12. \A p \in 2 .. n :
         start[p] = IF p <= ChunkEnd(q, start[p - 1]) THEN start[p - 1] ELSE p
  <2>1. \A p \in 2 .. n : p \in 1 .. n /\ p # 1  BY <1>1
  <2>. QED  BY <1>8, <2>1
<1>13. start = ChunkStart(q)  BY Zenon DEF ChunkStart, start
<1>. QED  BY <1>1, <1>10, <1>11, <1>12, <1>13

(* A partition that begins a chunk is followed by its chunk, and the chunk by *)
(* the next one's first partition.                                          *)
LEMMA ChunkMembers ==
  ASSUME NEW q \in Queries, NEW f \in 1 .. Len(q.parts), ChunkStart(q)[f] = f
  PROVE  /\ \A p \in f .. ChunkEnd(q, f) : ChunkStart(q)[p] = f
         /\ ChunkEnd(q, f) < Len(q.parts) =>
              ChunkStart(q)[ChunkEnd(q, f) + 1] = ChunkEnd(q, f) + 1
<1>. DEFINE n == Len(q.parts)
            start == ChunkStart(q)
            e == ChunkEnd(q, f)
            T == {p \in f .. e : start[p] = f}
<1>1. n \in Nat \ {0}
  BY QueryFacts
<1>2. \A p \in 2 .. n : start[p] = IF p <= ChunkEnd(q, start[p - 1]) THEN start[p - 1] ELSE p
  BY <1>1, ChunkStartFacts
<1>3. e \in f .. n  BY ChunkEndFacts
<1>4. \A p \in f .. n - 1 :
         start[p] = f => start[p + 1] = IF p + 1 <= e THEN f ELSE p + 1
  <2>. SUFFICES ASSUME NEW p \in f .. n - 1, start[p] = f
                PROVE  start[p + 1] = IF p + 1 <= e THEN f ELSE p + 1
    OBVIOUS
  <2>1. p + 1 \in 2 .. n /\ (p + 1) - 1 = p  BY <1>1
  <2>. QED  BY <1>2, <2>1
<1>. HIDE DEF n, start, e
<1>5. f .. e \subseteq T
  <2>1. f \in T  BY <1>3 DEF start
  <2>2. ASSUME NEW p \in f .. e, p < e, p \in T PROVE p + 1 \in T
    <3>1. p \in f .. n - 1 /\ p + 1 <= e /\ p + 1 \in f .. e  BY <1>1, <1>3, <2>2
    <3>. QED  BY <1>4, <2>2, <3>1
  <2>3. f \in Nat /\ e \in Nat  BY <1>1, <1>3 DEF n
  <2>. HIDE DEF T
  <2>. QED  BY <2>1, <2>2, <2>3, IntervalInduction
<1>6. ASSUME e < n PROVE start[e + 1] = e + 1
  <2>1. e \in f .. n - 1 /\ e \in f .. e /\ ~(e + 1 <= e)  BY <1>1, <1>3, <1>6
  <2>2. start[e] = f  BY <1>5, <2>1
  <2>. QED  BY <1>4, <2>1, <2>2
<1>. QED  BY <1>5, <1>6 DEF n, start, e

(* A chunk begins no later than its partitions, and chunks follow each other *)
(* as their partitions do.                                                  *)
LEMMA ChunkStartGrows ==
  ASSUME NEW q \in Queries, Len(q.parts) > 0
  PROVE  \A i, j \in 1 .. Len(q.parts) : i <= j => ChunkStart(q)[i] <= ChunkStart(q)[j]
<1>. DEFINE n == Len(q.parts)
            start == ChunkStart(q)
            Early == {p \in 1 .. n : start[p] <= p}
<1>1. /\ n \in Nat \ {0} /\ start \in [1 .. n -> 1 .. n] /\ start[1] = 1
      /\ \A p \in 2 .. n : start[p] = start[p - 1] \/ start[p] = p
  BY ChunkStartFacts
<1>. HIDE DEF n, start
<1>2. ASSUME NEW p \in 1 .. n, p < n
      PROVE  p + 1 \in 1 .. n /\ (start[p + 1] = start[p] \/ start[p + 1] = p + 1)
             /\ start[p] \in 1 .. n /\ start[p + 1] \in 1 .. n
  <2>1. p + 1 \in 2 .. n /\ (p + 1) - 1 = p /\ p + 1 \in 1 .. n  BY <1>1, <1>2
  <2>2. start[p + 1] = start[p] \/ start[p + 1] = p + 1  BY <1>1, <2>1
  <2>. QED  BY <1>1, <2>1, <2>2
<1>3. 1 .. n \subseteq Early
  <2>1. 1 \in Early  BY <1>1
  <2>2. ASSUME NEW p \in 1 .. n, p < n, p \in Early PROVE p + 1 \in Early
    <3>1. p + 1 \in 1 .. n /\ (start[p + 1] = start[p] \/ start[p + 1] = p + 1)
          /\ start[p] \in 1 .. n /\ start[p + 1] \in 1 .. n
      BY <1>2, <2>2
    <3>. QED  BY <2>2, <3>1
  <2>. HIDE DEF Early
  <2>. QED  BY <1>1, <2>1, <2>2, IntervalInduction
<1>4. ASSUME NEW i \in 1 .. n PROVE \A j \in i .. n : start[i] <= start[j]
  <2>. DEFINE T == {j \in i .. n : start[i] <= start[j]}
  <2>1. i \in T  BY <1>1
  <2>2. ASSUME NEW j \in i .. n, j < n, j \in T PROVE j + 1 \in T
    <3>1. j \in 1 .. n  BY <1>1
    <3>2. j + 1 \in 1 .. n /\ (start[j + 1] = start[j] \/ start[j + 1] = j + 1)
          /\ start[j] \in 1 .. n /\ start[j + 1] \in 1 .. n /\ start[i] \in 1 .. n
      BY <1>1, <1>2, <2>2, <3>1
    <3>3. start[j] <= j  BY <1>3, <3>1
    <3>. QED  BY <1>1, <2>2, <3>2, <3>3, SMTT(30)
  <2>3. i \in Nat /\ n \in Nat  BY <1>1
  <2>4. i .. n \subseteq T
    <3>. HIDE DEF T
    <3>. QED  BY <2>1, <2>2, <2>3, IntervalInduction
  <2>. QED  BY <2>4
<1>5. ASSUME NEW i \in 1 .. n, NEW j \in 1 .. n, i <= j PROVE start[i] <= start[j]
  <2>1. j \in i .. n  BY <1>1, <1>5
  <2>. QED  BY <1>4, <2>1
<1>. QED  BY <1>5 DEF n, start

(* Which partitions fail, and at which rows of the answer a measure does. *)
FailingOf(q) == {p \in 1 .. Len(q.parts) : q.parts[p].fails}
BadRowsOf(q) == {r \in 1 .. Len(AnswerOf(q)) : BadRowOf(q, r)}

(* The first error is the first failing partition's, when every bad row     *)
(* stands in that partition's chunk or after it.                            *)
LEMMA FirstErrorMatch ==
  ASSUME NEW q \in Queries, NEW f \in 1 .. Len(q.parts), ChunkStart(q)[f] = f,
         NEW p0 \in f .. ChunkEnd(q, f), p0 \in FailingOf(q),
         \A p \in FailingOf(q) : p0 <= p,
         \A r \in BadRowsOf(q) : PartOffset(q)[f - 1] < r
  PROVE  FirstErrorOf(q) = <<"match", p0>>
<1>. DEFINE failing == FailingOf(q)
            badRows == BadRowsOf(q)
            start == ChunkStart(q)
            n == Len(q.parts)
            atRow == AnswerOf(q)[Min(badRows)]
<1>1. n \in Nat \ {0} /\ start \in [1 .. n -> 1 .. n]
  BY QueryFacts, ChunkStartFacts
<1>2. Min(failing) = p0 /\ p0 \in 1 .. n /\ failing # {}
  <2>1. failing \in SUBSET Nat /\ failing # {} /\ p0 \in 1 .. n  BY DEF FailingOf
  <2>2. Min(failing) \in failing /\ \A y \in failing : Min(failing) <= y
    <3>. HIDE DEF failing
    <3>. QED  BY <2>1, MinOfSet
  <2>3. Min(failing) <= p0 /\ p0 <= Min(failing) /\ Min(failing) \in Nat
    BY <2>1, <2>2
  <2>. HIDE DEF failing
  <2>. QED  BY <2>1, <2>3
<1>3. start[p0] = f  BY ChunkMembers
<1>4. ASSUME badRows # {} PROVE start[p0] <= start[atRow.part]
  <2>1. badRows \in SUBSET Nat
    <3>1. Len(AnswerOf(q)) \in Nat
      <4>1. AnswerOf(q) \in Seq(RowType)  BY AnswerFacts
      <4>. QED  BY <4>1
    <3>. QED  BY <3>1 DEF BadRowsOf
  <2>2. Min(badRows) \in badRows
    <3>. HIDE DEF badRows
    <3>. QED  BY <1>4, <2>1, MinOfSet
  <2>3. Min(badRows) \in 1 .. Len(AnswerOf(q)) /\ PartOffset(q)[f - 1] < Min(badRows)
    BY <2>2 DEF BadRowsOf
  <2>. DEFINE p == atRow.part
  <2>4. p \in 1 .. n /\ Min(badRows) <= PartOffset(q)[p]
    <3>. HIDE DEF badRows
    <3>. QED  BY <2>3, AnswerOwner
  <2>5. /\ PartOffset(q) \in [0 .. n -> Nat]
        /\ \A i, j \in 0 .. n : i <= j => PartOffset(q)[i] <= PartOffset(q)[j]
    BY AnswerFacts
  <2>. HIDE DEF n, p, badRows
  <2>6. f <= p
    <3>1. SUFFICES ASSUME p <= f - 1 PROVE FALSE  BY <1>1, <2>4 DEF n
    <3>2. f - 1 \in 0 .. n /\ p \in 0 .. n  BY <1>1, <2>4 DEF n
    <3>3. PartOffset(q)[p] <= PartOffset(q)[f - 1]  BY <2>5, <3>1, <3>2
    <3>4. PartOffset(q)[p] \in Nat /\ PartOffset(q)[f - 1] \in Nat /\ Min(badRows) \in Nat
      BY <1>4, <2>1, <2>2, <2>5, <3>2
    <3>. QED  BY <2>3, <2>4, <3>3, <3>4
  <2>7. start[f] <= start[p]
    BY <1>1, <2>4, <2>6, ChunkStartGrows DEF n
  <2>. QED  BY <1>3, <2>7 DEF p
<1>5. FirstErrorOf(q) = <<"match", Min(failing)>>
  BY <1>2, <1>4, Zenon DEF FirstErrorOf, FailingOf, BadRowsOf
<1>. QED  BY <1>2, <1>5

(* The first error is the first bad row's, when no partition fails up to    *)
(* the end of that row's chunk.                                             *)
LEMMA FirstErrorRow ==
  ASSUME NEW q \in Queries, NEW f \in 1 .. Len(q.parts), ChunkStart(q)[f] = f,
         NEW r \in BadRowsOf(q), \A r2 \in BadRowsOf(q) : r <= r2,
         AnswerOf(q)[r].part \in f .. ChunkEnd(q, f),
         \A p \in FailingOf(q) : ChunkEnd(q, f) < p
  PROVE  FirstErrorOf(q) = <<"row", AnswerOf(q)[r].part, AnswerOf(q)[r].match,
                             AnswerOf(q)[r].row>>
<1>. DEFINE failing == FailingOf(q)
            badRows == BadRowsOf(q)
            start == ChunkStart(q)
            n == Len(q.parts)
            atRow == AnswerOf(q)[Min(badRows)]
            e == ChunkEnd(q, f)
<1>1. n \in Nat \ {0} /\ start \in [1 .. n -> 1 .. n] /\ e \in f .. n
  BY QueryFacts, ChunkStartFacts, ChunkEndFacts
<1>2. Min(badRows) = r /\ badRows # {}
  <2>1. badRows \in SUBSET Nat
    <3>1. Len(AnswerOf(q)) \in Nat
      <4>1. AnswerOf(q) \in Seq(RowType)  BY AnswerFacts
      <4>. QED  BY <4>1
    <3>. QED  BY <3>1 DEF BadRowsOf
  <2>2. badRows # {}  OBVIOUS
  <2>3. Min(badRows) \in badRows /\ \A y \in badRows : Min(badRows) <= y
    <3>. HIDE DEF badRows
    <3>. QED  BY <2>1, <2>2, MinOfSet
  <2>4. Min(badRows) <= r /\ r <= Min(badRows) /\ Min(badRows) \in Nat /\ r \in Nat
    BY <2>1, <2>3
  <2>. HIDE DEF badRows
  <2>. QED  BY <2>2, <2>4
<1>3. atRow = AnswerOf(q)[r] /\ start[atRow.part] = f
  <2>1. atRow = AnswerOf(q)[r]  BY <1>2
  <2>. QED  BY <2>1, ChunkMembers
<1>4. ASSUME failing # {} PROVE ~(start[Min(failing)] <= start[atRow.part])
  <2>1. failing \in SUBSET Nat /\ failing \subseteq 1 .. n  BY DEF FailingOf
  <2>2. Min(failing) \in failing
    <3>. HIDE DEF failing
    <3>. QED  BY <1>4, <2>1, MinOfSet
  <2>3. e < Min(failing) /\ Min(failing) \in 1 .. n  BY <2>1, <2>2
  <2>. HIDE DEF failing, n, e, start
  <2>4. e < n /\ e + 1 \in 1 .. n /\ e + 1 <= Min(failing)  BY <1>1, <2>3 DEF n
  <2>5. start[e + 1] = e + 1  BY <2>4, ChunkMembers DEF n, e, start
  <2>6. start[e + 1] <= start[Min(failing)]
    BY <1>1, <2>3, <2>4, ChunkStartGrows DEF n, start
  <2>7. start[Min(failing)] \in Nat  BY <1>1, <2>3
  <2>8. f < e + 1 /\ f \in Nat /\ e \in Nat  BY <1>1 DEF n
  <2>. QED  BY <1>3, <2>5, <2>6, <2>7, <2>8
<1>5. FirstErrorOf(q) = <<"row", atRow.part, atRow.match, atRow.row>>
  BY <1>2, <1>4, Zenon DEF FirstErrorOf, FailingOf, BadRowsOf
<1>. QED  BY <1>3, <1>5

(* Without a failing partition or a bad row there is no error. *)
LEMMA FirstErrorNone ==
  ASSUME NEW q \in Queries, FailingOf(q) = {}, BadRowsOf(q) = {}
  PROVE  FirstErrorOf(q) = <<"none">>
BY Zenon DEF FirstErrorOf, FailingOf, BadRowsOf

-----------------------------------------------------------------------------
(* The inductive invariant.                                                 *)

(* A producer that may still answer: it is filling, its batch is on its way, *)
(* or it is held for the client's next request.                             *)
Filling == pc \in {"enter", "fill", "match"}
Live == \/ Filling
        \/ reply.kind = "batch"
        \/ pc = "client" /\ alive /\ outcome = "open"

(* How many rows of the answer precede the next one the producer will emit. *)
Reached ==
  IF pc = "match" THEN PartOffset(query)[chunk.from - 1]
  ELSE IF ready # <<>> THEN RunPlace(query, ready[1])
  ELSE PartOffset(query)[next_part - 1]

(* How many rows the producer holds and has not sent or discarded. *)
Held == IF pc \in {"fill", "match"} THEN Len(rows) ELSE 0

(* Where the control is: a stream that ended asks for nothing more, and what *)
(* fills has a producer and a limit.                                        *)
ControlOK ==
  /\ outcome # "open" => pc = "client"
  /\ pc = "reply" <=> reply.kind # "none"
  /\ Filling \/ reply.kind = "batch" => alive
  /\ pc \in {"fill", "match"} =>
       limit = IF resume_skip > 0 THEN Min({resume_skip, TARGET_BATCH_ROWS})
               ELSE TARGET_BATCH_ROWS

(* The runs that are queued are those left of one whole chunk, in order, and *)
(* only the first has begun; the next chunk begins where a chunk does.      *)
QueueOK ==
  /\ \A j \in 1 .. Len(ready) : RunOK(query, ready[j])
  /\ \A j \in 2 .. Len(ready) : ready[j] = NewRun(ready[j].part)
  /\ ready # <<>> \/ pc = "match" =>
       /\ chunk.from \in 1 .. NumParts
       /\ chunk.to = ChunkEnd(query, chunk.from)
       /\ next_part = chunk.to + 1
       /\ ChunkStart(query)[chunk.from] = chunk.from
  /\ next_part <= NumParts => ChunkStart(query)[next_part] = next_part

(* The client has the rows its token counts, the first of the answer; a     *)
(* batch on its way holds the next ones, and is full unless it is the last. *)
ClientOK ==
  /\ token = Len(delivered) /\ token <= Len(Answer)
  /\ \A i \in 1 .. token : delivered[i] = Answer[i]
  /\ Filling => emitted_rows = token
  /\ pc = "client" /\ alive /\ outcome = "open" => emitted_rows = token /\ resume_skip = 0
  /\ reply.kind = "batch" =>
       /\ resume_skip = 0
       /\ reply.token = emitted_rows
       /\ emitted_rows = token + Len(reply.rows)
       /\ emitted_rows <= Len(Answer)
       /\ Len(reply.rows) \in 1 .. TARGET_BATCH_ROWS
       /\ Len(reply.rows) = TARGET_BATCH_ROWS \/ emitted_rows = Len(Answer)
       /\ \A i \in 1 .. Len(reply.rows) : reply.rows[i] = Answer[token + i]
  /\ reply.kind = "eof" => token = Len(Answer)

(* The producer stands where the rows it sent, discarded and holds end, and  *)
(* what it holds is what stands before there.                               *)
CursorOK ==
  Live => /\ Reached + resume_skip = emitted_rows + Held
          /\ \A i \in 1 .. Held : rows[i] = Answer[emitted_rows - resume_skip + i]

(* Nothing it went past failed. *)
ErrorOK ==
  /\ Live => /\ \A p \in 1 .. NumParts :
                  p < (IF pc = "match" THEN chunk.from ELSE next_part) => ~Parts[p].fails
             /\ \A r \in 1 .. Len(Answer) : r <= Reached => ~BadRowOf(query, r)
  /\ ErrorReproducible
  /\ reply.kind = "eof" => FirstError = <<"none">>

(* The spool goes with the end of the stream. *)
SpoolOK ==
  /\ spool = "gone" => /\ token = Len(Answer)
                       /\ FirstError = <<"none">>
                       /\ losses > 0 \/ outcome = "done" \/ reply.kind = "eof"
  /\ reply.kind = "error" /\ reply.what = <<"spool">> => losses > 0

IInv ==
  /\ TypeOK /\ OneChunkLive
  /\ ControlOK /\ QueueOK /\ ClientOK /\ CursorOK /\ ErrorOK /\ SpoolOK

(* What the type invariant says of the query. *)
LEMMA StateFacts ==
  ASSUME query \in Queries
  PROVE  /\ NumParts = Len(query.parts) /\ NumParts \in Nat /\ Parts = query.parts
         /\ PartOffset(query) \in [0 .. NumParts -> Nat]
         /\ PartOffset(query)[0] = 0
         /\ Answer \in Seq(RowType) /\ Len(Answer) \in Nat
         /\ Len(Answer) = PartOffset(query)[NumParts]
<1>1. NumParts = Len(query.parts) /\ Parts = query.parts  BY DEF NumParts, Parts
<1>2. /\ Len(query.parts) \in Nat
      /\ PartOffset(query) \in [0 .. Len(query.parts) -> Nat]
      /\ PartOffset(query)[0] = 0
      /\ AnswerOf(query) \in Seq(RowType)
      /\ Len(AnswerOf(query)) = PartOffset(query)[Len(query.parts)]
  BY AnswerFacts
<1>3. Answer \in Seq(RowType)  BY <1>2 DEF Answer
<1>. QED  BY <1>1, <1>2, <1>3 DEF Answer

(* What is said of the query alone stays as it is. *)
LEMMA QuerySame ==
  ASSUME query' = query
  PROVE  Parts' = Parts /\ NumParts' = NumParts /\ Answer' = Answer
         /\ FirstError' = FirstError
BY DEF Parts, NumParts, Answer, FirstError

(* The initial states satisfy the invariant. *)
LEMMA InitHolds ==
  ASSUME Init
  PROVE  IInv
<1>. USE DEF Init
<1>1. query \in Queries  OBVIOUS
<1>2. /\ NumParts \in Nat /\ Len(Answer) \in Nat /\ NumParts = Len(query.parts)
  BY <1>1, StateFacts
<1>3. reply.kind = "none" /\ ~Filling /\ ~Live  BY DEF NoReply, Filling, Live
<1>4. TypeOK
  <2>1. chunk \in [from : 1 .. NumParts + 1, to : 0 .. NumParts]
    <3>1. 1 \in 1 .. NumParts + 1 /\ 0 \in 0 .. NumParts  BY <1>2
    <3>. QED  BY <3>1
  <2>2. /\ 1 \in 1 .. NumParts + 1 /\ 0 \in 0 .. MaxLosses /\ 0 \in 0 .. TARGET_BATCH_ROWS
    BY <1>2, LimitAssumption
  <2>3. delivered \in Seq(RowType) /\ rows \in Seq(RowType) /\ ready \in Seq(RunType(query))
    OBVIOUS
  <2>4. matched \subseteq chunk.from .. chunk.to  OBVIOUS
  <2>5. resume_skip \in 0 .. emitted_rows /\ emitted_rows \in Nat /\ token \in Nat  OBVIOUS
  <2>6. reply.kind \in {"none", "batch", "eof", "error"} /\ reply.kind # "batch"  BY <1>3
  <2>. QED  BY <1>1, <2>1, <2>2, <2>3, <2>4, <2>5, <2>6 DEF TypeOK
<1>5. OneChunkLive  BY DEF OneChunkLive
<1>6. ControlOK  BY <1>3 DEF ControlOK
<1>7. QueueOK
  <2>1. NumParts > 0 => ChunkStart(query)[1] = 1  BY <1>1, <1>2, ChunkStartFacts
  <2>. QED  BY <1>2, <2>1 DEF QueueOK
<1>8. ClientOK  BY <1>2, <1>3 DEF ClientOK
<1>9. CursorOK  BY <1>3 DEF CursorOK
<1>10. ErrorOK  BY <1>3 DEF ErrorOK, ErrorReproducible
<1>11. SpoolOK  BY <1>3 DEF SpoolOK
<1>. QED  BY <1>4, <1>5, <1>6, <1>7, <1>8, <1>9, <1>10, <1>11 DEF IInv

(* A producer built for the client's token starts where every row the client *)
(* has is still to be replayed.                                             *)
LEMMA RebuildStep ==
  ASSUME IInv, Rebuild
  PROVE  IInv'
<1>. USE DEF Rebuild, client
<1>1. /\ query' = query /\ query \in Queries
      /\ Parts' = Parts /\ NumParts' = NumParts /\ Answer' = Answer /\ FirstError' = FirstError
  BY QuerySame DEF IInv, TypeOK
<1>2. /\ NumParts \in Nat /\ PartOffset(query) \in [0 .. NumParts -> Nat]
      /\ PartOffset(query)[0] = 0 /\ Len(Answer) \in Nat /\ NumParts = Len(query.parts)
  BY <1>1, StateFacts
<1>3. reply.kind = "none" /\ reply' = reply  BY DEF IInv, ControlOK
<1>4. Filling' /\ Live' /\ Reached' = 0 /\ Held' = 0
  BY <1>1, <1>2 DEF Filling, Live, Reached, Held
<1>5. TypeOK'
  BY <1>1, <1>2, <1>3, LimitAssumption DEF IInv, TypeOK
<1>6. OneChunkLive'  BY DEF OneChunkLive
<1>7. ControlOK'  BY <1>3 DEF IInv, ControlOK
<1>8. QueueOK'
  <2>1. NumParts > 0 => ChunkStart(query)[1] = 1  BY <1>1, <1>2, ChunkStartFacts
  <2>. QED  BY <1>1, <1>2, <2>1 DEF QueueOK
<1>9. ClientOK'  BY <1>1, <1>3, <1>4 DEF IInv, ClientOK
<1>10. CursorOK'
  <2>1. token \in Nat  BY DEF IInv, TypeOK
  <2>. QED  BY <1>4, <2>1 DEF CursorOK
<1>11. ErrorOK'
  <2>1. ErrorReproducible'  BY <1>1, <1>3 DEF IInv, ErrorOK, ErrorReproducible
  <2>. QED  BY <1>1, <1>2, <1>3, <1>4, <2>1 DEF ErrorOK
<1>12. SpoolOK'  BY <1>1, <1>3 DEF IInv, SpoolOK
<1>. QED  BY <1>5, <1>6, <1>7, <1>8, <1>9, <1>10, <1>11, <1>12 DEF IInv

(* What every step of a query keeps, with what its type says. *)
LEMMA Steady ==
  ASSUME IInv, query' = query
  PROVE  /\ query \in Queries
         /\ Parts' = Parts /\ NumParts' = NumParts /\ Answer' = Answer
         /\ FirstError' = FirstError
         /\ NumParts = Len(query.parts) /\ NumParts \in Nat /\ Parts = query.parts
         /\ PartOffset(query) \in [0 .. NumParts -> Nat]
         /\ PartOffset(query)[0] = 0
         /\ Answer \in Seq(RowType) /\ Len(Answer) \in Nat
         /\ Len(Answer) = PartOffset(query)[NumParts]
<1>1. query \in Queries  BY DEF IInv, TypeOK
<1>. QED  BY <1>1, StateFacts, QuerySame

(* A request that finds neither a producer nor a spool fails. *)
LEMMA RebuildFailsStep ==
  ASSUME IInv, RebuildFails
  PROVE  IInv'
<1>. USE DEF RebuildFails, client, cursor
<1>1. /\ query' = query /\ query \in Queries
      /\ Parts' = Parts /\ NumParts' = NumParts /\ Answer' = Answer /\ FirstError' = FirstError
  BY Steady
<1>2. reply'.kind = "error" /\ reply'.what = <<"spool">> /\ pc' = "reply"  OBVIOUS
<1>3. reply.kind = "none"  BY DEF IInv, ControlOK
<1>4. ~Live'  BY <1>2 DEF Filling, Live
<1>5. TypeOK'  BY <1>1, <1>2 DEF IInv, TypeOK
<1>6. OneChunkLive'  BY <1>2 DEF IInv, OneChunkLive
<1>7. ControlOK'  BY <1>2, <1>4 DEF IInv, ControlOK, Live
<1>8. QueueOK'  BY <1>1, <1>2 DEF IInv, QueueOK
<1>9. ClientOK'  BY <1>1, <1>2, <1>4 DEF IInv, ClientOK, Live
<1>10. CursorOK'  BY <1>4 DEF CursorOK
<1>11. ErrorOK'
  BY <1>1, <1>2, <1>4 DEF IInv, ErrorOK, ErrorReproducible
<1>12. SpoolOK'
  BY <1>1, <1>2, <1>3 DEF IInv, SpoolOK
<1>. QED  BY <1>5, <1>6, <1>7, <1>8, <1>9, <1>10, <1>11, <1>12 DEF IInv

(* A request that finds the producer goes on where that one stands. *)
LEMMA ContinueStep ==
  ASSUME IInv, Continue
  PROVE  IInv'
<1>. USE DEF Continue, client, cursor
<1>1. /\ query' = query /\ query \in Queries
      /\ Parts' = Parts /\ NumParts' = NumParts /\ Answer' = Answer /\ FirstError' = FirstError
  BY Steady
<1>2. reply.kind = "none" /\ pc' = "enter" /\ reply' = reply  BY DEF IInv, ControlOK
<1>3. Live /\ Live' /\ Filling'  BY DEF Filling, Live
<1>4. Reached' = Reached /\ Held' = 0 /\ Held = 0  BY <1>1 DEF Reached, Held
<1>5. TypeOK'  BY <1>1, <1>2 DEF IInv, TypeOK
<1>6. OneChunkLive'  BY <1>2 DEF IInv, OneChunkLive
<1>7. ControlOK'  BY <1>2 DEF IInv, ControlOK
<1>8. QueueOK'  BY <1>1, <1>2 DEF IInv, QueueOK
<1>9. ClientOK'  BY <1>1, <1>2, <1>3 DEF IInv, ClientOK
<1>10. CursorOK'  BY <1>1, <1>3, <1>4 DEF IInv, CursorOK
<1>11. ErrorOK'
  BY <1>1, <1>2, <1>3, <1>4 DEF IInv, ErrorOK, ErrorReproducible
<1>12. SpoolOK'  BY <1>1, <1>2 DEF IInv, SpoolOK
<1>. QED  BY <1>5, <1>6, <1>7, <1>8, <1>9, <1>10, <1>11, <1>12 DEF IInv

(* A reply that is lost leaves the client with the token it has. *)
LEMMA LoseStep ==
  ASSUME IInv, Lose
  PROVE  IInv'
<1>. USE DEF Lose, cursor
<1>1. /\ query' = query /\ query \in Queries
      /\ Parts' = Parts /\ NumParts' = NumParts /\ Answer' = Answer /\ FirstError' = FirstError
  BY Steady
<1>2. reply'.kind = "none" /\ pc' = "client" /\ ~alive' /\ losses' > 0 /\ losses' \in 0 .. MaxLosses
  BY LimitAssumption DEF NoReply, IInv, TypeOK
<1>3. ~Live' /\ ~Filling'  BY <1>2 DEF Filling, Live
<1>4. outcome = "open"  BY DEF IInv, ControlOK
<1>5. TypeOK'  BY <1>1, <1>2 DEF IInv, TypeOK
<1>6. OneChunkLive'  BY <1>2 DEF IInv, OneChunkLive
<1>7. ControlOK'  BY <1>2, <1>3 DEF IInv, ControlOK
<1>8. QueueOK'  BY <1>1, <1>2 DEF IInv, QueueOK
<1>9. ClientOK'  BY <1>1, <1>2, <1>3 DEF IInv, ClientOK
<1>10. CursorOK'  BY <1>3 DEF CursorOK
<1>11. ErrorOK'
  BY <1>1, <1>2, <1>3, <1>4 DEF IInv, ErrorOK, ErrorReproducible
<1>12. SpoolOK'  BY <1>1, <1>2 DEF IInv, SpoolOK
<1>. QED  BY <1>5, <1>6, <1>7, <1>8, <1>9, <1>10, <1>11, <1>12 DEF IInv

(* A round starts with no row and a limit that a batch does not exceed. *)
LEMMA EnterStep ==
  ASSUME IInv, Enter
  PROVE  IInv'
<1>. USE DEF Enter, client
<1>1. /\ query' = query /\ query \in Queries
      /\ Parts' = Parts /\ NumParts' = NumParts /\ Answer' = Answer /\ FirstError' = FirstError
  BY Steady
<1>2. reply.kind = "none" /\ pc' = "fill" /\ reply' = reply  BY DEF IInv, ControlOK
<1>3. Live /\ Live' /\ Filling /\ Filling'  BY DEF Filling, Live
<1>4. Reached' = Reached /\ Held' = 0 /\ Held = 0  BY <1>1 DEF Reached, Held
<1>5. limit' \in 0 .. TARGET_BATCH_ROWS
  <2>1. resume_skip \in Nat /\ TARGET_BATCH_ROWS \in Nat
    BY LimitAssumption DEF IInv, TypeOK
  <2>2. Min({resume_skip, TARGET_BATCH_ROWS}) \in {resume_skip, TARGET_BATCH_ROWS}
        /\ Min({resume_skip, TARGET_BATCH_ROWS}) <= TARGET_BATCH_ROWS
    BY <2>1, MinOfSet
  <2>. QED  BY <2>1, <2>2
<1>6. TypeOK'  BY <1>1, <1>2, <1>5 DEF IInv, TypeOK
<1>7. OneChunkLive'
  <2>1. limit' \in Nat  BY <1>5, LimitAssumption
  <2>. QED  BY <1>2, <2>1 DEF IInv, OneChunkLive
<1>8. ControlOK'  BY <1>2, <1>3 DEF IInv, ControlOK
<1>9. QueueOK'  BY <1>1, <1>2 DEF IInv, QueueOK
<1>10. ClientOK'  BY <1>1, <1>2, <1>3 DEF IInv, ClientOK
<1>11. CursorOK'  BY <1>1, <1>3, <1>4 DEF IInv, CursorOK
<1>12. ErrorOK'
  BY <1>1, <1>2, <1>3, <1>4 DEF IInv, ErrorOK, ErrorReproducible
<1>13. SpoolOK'  BY <1>1, <1>2 DEF IInv, SpoolOK
<1>. QED  BY <1>6, <1>7, <1>8, <1>9, <1>10, <1>11, <1>12, <1>13 DEF IInv

(* A thread of a chunk touches nothing but its slot. *)
LEMMA MatchNextStep ==
  ASSUME IInv, NEW first \in 1 .. NumParts, MatchNext(first)
  PROVE  IInv'
<1>. USE DEF MatchNext, client, cursor
<1>1. /\ query' = query /\ query \in Queries
      /\ Parts' = Parts /\ NumParts' = NumParts /\ Answer' = Answer /\ FirstError' = FirstError
  BY Steady
<1>2. matched' \subseteq chunk.from .. chunk.to
  <2>. DEFINE left == Slice(chunk, first) \ matched
              last == first + PerThread(chunk) - 1
  <2>1. Slice(chunk, first) = first .. Min({last, chunk.to})  BY DEF Slice
  <2>2. left # {} /\ matched' = matched \cup {Min(left)}  OBVIOUS
  <2>3. chunk.from \in Nat /\ chunk.to \in Nat /\ matched \subseteq chunk.from .. chunk.to
    BY <1>1, StateFacts DEF IInv, TypeOK
  <2>4. first \in chunk.from .. chunk.to  BY DEF Slices
  <2>5. PerThread(chunk) \in Nat
    <3>1. ChunkSize(chunk) \in Nat  BY <2>3, <2>4 DEF ChunkSize
    <3>2. query.threads \in Nat  BY <1>1, QueryAssumption
    <3>3. Min({query.threads, ChunkSize(chunk)}) \in Nat
      BY <3>1, <3>2, MinOfSet
    <3>4. \A size \in Nat, threads \in Nat :
             threads > 1 => (size + threads - 1) \div threads \in Nat
      OBVIOUS
    <3>. QED  BY <3>1, <3>3, <3>4 DEF PerThread
  <2>6. Min({last, chunk.to}) <= chunk.to /\ Min({last, chunk.to}) \in Nat
    <3>1. last \in Nat  BY <2>3, <2>4, <2>5
    <3>. HIDE DEF last
    <3>. QED  BY <2>3, <3>1, MinOfSet
  <2>7. left \subseteq chunk.from .. chunk.to
    <3>. HIDE DEF last
    <3>. QED  BY <2>1, <2>3, <2>4, <2>6
  <2>8. left \in SUBSET Nat  BY <2>3, <2>7
  <2>9. Min(left) \in left
    <3>. HIDE DEF left
    <3>. QED  BY <2>2, <2>8, MinOfSet
  <2>. HIDE DEF left
  <2>. QED  BY <2>2, <2>3, <2>7, <2>9
<1>3. TypeOK'  BY <1>1, <1>2 DEF IInv, TypeOK
<1>4. OneChunkLive'  BY DEF IInv, OneChunkLive
<1>5. ControlOK'  BY DEF IInv, ControlOK, Filling
<1>6. QueueOK'  BY <1>1 DEF IInv, QueueOK
<1>7. ClientOK'  BY <1>1 DEF IInv, ClientOK, Filling
<1>8. CursorOK'  BY <1>1 DEF IInv, CursorOK, Filling, Live, Reached, Held
<1>9. ErrorOK'  BY <1>1 DEF IInv, ErrorOK, ErrorReproducible, Filling, Live, Reached
<1>10. SpoolOK'  BY <1>1 DEF IInv, SpoolOK
<1>. QED  BY <1>3, <1>4, <1>5, <1>6, <1>7, <1>8, <1>9, <1>10 DEF IInv

(* A reply that arrives: the rows of a batch follow those the client has.   *)
LEMMA ReceiveStep ==
  ASSUME IInv, Receive
  PROVE  IInv'
<1>. USE DEF Receive, cursor
<1>1. /\ query' = query /\ query \in Queries
      /\ Parts' = Parts /\ NumParts' = NumParts /\ Answer' = Answer /\ FirstError' = FirstError
      /\ Len(Answer) \in Nat
  BY Steady
<1>2. /\ pc = "reply" /\ pc' = "client" /\ reply'.kind = "none" /\ outcome = "open"
      /\ reply.kind # "none" /\ alive \in BOOLEAN /\ alive' \in BOOLEAN
      /\ reply.kind \in {"batch", "eof", "error"}
      /\ alive' => alive
  <2>1. reply.kind \in {"none", "batch", "eof", "error"} /\ alive \in BOOLEAN
    BY DEF IInv, TypeOK
  <2>2. reply.kind # "none" /\ outcome = "open"  BY DEF IInv, ControlOK
  <2>3. alive' \in BOOLEAN /\ (alive' => alive)  BY <2>1
  <2>. QED  BY <2>1, <2>2, <2>3 DEF NoReply
<1>3. ~Filling' /\ (Live' <=> alive' /\ outcome' = "open") /\ Held' = 0 /\ Held = 0
      /\ Reached' = Reached
  BY <1>1, <1>2 DEF Filling, Live, Held, Reached
<1>4. OneChunkLive'  BY <1>2 DEF IInv, OneChunkLive
<1>5. ControlOK'  BY <1>2, <1>3 DEF IInv, ControlOK
<1>6. QueueOK'  BY <1>1, <1>2 DEF IInv, QueueOK
<1>7. CASE reply.kind = "batch"
  <2>. DEFINE n == Len(reply.rows)
  <2>1. /\ delivered' = delivered \o reply.rows /\ token' = reply.token /\ outcome' = outcome
        /\ Live
    BY <1>7 DEF Live
  <2>2. /\ token = Len(delivered) /\ delivered \in Seq(RowType)
        /\ reply.rows \in Seq(RowType) /\ n \in Nat /\ token \in Nat /\ n > 0
        /\ resume_skip = 0 /\ reply.token = emitted_rows /\ emitted_rows = token + n
        /\ emitted_rows <= Len(Answer)
    <3>1. reply.rows \in Seq(RowType) /\ n \in 1 .. TARGET_BATCH_ROWS
      BY <1>7 DEF IInv, TypeOK, ClientOK
    <3>2. n \in Nat /\ n > 0  BY <3>1, LimitAssumption
    <3>. QED  BY <1>7, <3>1, <3>2 DEF IInv, TypeOK, ClientOK
  <2>3. delivered' \in Seq(RowType) /\ Len(delivered') = token + n
    BY <2>1, <2>2, ConcatProperties
  <2>4. ASSUME NEW i \in 1 .. token + n PROVE delivered'[i] = Answer[i]
    <3>1. delivered'[i] = IF i <= token THEN delivered[i] ELSE reply.rows[i - token]
      BY <2>1, <2>2, ConcatProperties
    <3>2. CASE i <= token
      <4>1. i \in 1 .. token  BY <2>2, <3>2
      <4>. QED  BY <3>1, <3>2, <4>1 DEF IInv, ClientOK
    <3>3. CASE i > token
      <4>1. i - token \in 1 .. n /\ token + (i - token) = i /\ ~(i <= token)
        BY <2>2, <3>3
      <4>2. reply.rows[i - token] = Answer[token + (i - token)]
        BY <1>7, <4>1 DEF IInv, ClientOK
      <4>. QED  BY <3>1, <4>1, <4>2
    <3>. QED  BY <2>2, <3>2, <3>3
  <2>5. TypeOK'  BY <1>1, <1>2, <2>1, <2>2, <2>3 DEF IInv, TypeOK
  <2>6. ClientOK'
    <3>1. token' = token + n /\ token' <= Len(Answer) /\ token' = emitted_rows
      BY <2>1, <2>2
    <3>. HIDE DEF n
    <3>. QED  BY <1>1, <1>2, <1>3, <2>2, <2>3, <2>4, <3>1 DEF ClientOK
  <2>7. CursorOK'  BY <1>1, <1>3, <2>1 DEF IInv, CursorOK
  <2>8. ErrorOK'
    BY <1>1, <1>2, <1>3, <2>1 DEF IInv, ErrorOK, ErrorReproducible
  <2>9. SpoolOK'
    <3>1. spool # "gone"  BY <1>1, <2>2 DEF IInv, SpoolOK
    <3>. QED  BY <1>2, <3>1 DEF SpoolOK
  <2>. QED  BY <1>4, <1>5, <1>6, <2>5, <2>6, <2>7, <2>8, <2>9 DEF IInv
<1>8. CASE reply.kind \in {"eof", "error"}
  <2>1. /\ delivered' = delivered /\ token' = token
        /\ outcome' = IF reply.kind = "eof" THEN "done" ELSE "error"
    BY <1>8
  <2>2. ~Live'  BY <1>3, <2>1
  <2>3. TypeOK'  BY <1>1, <1>2, <2>1 DEF IInv, TypeOK
  <2>4. ClientOK'  BY <1>1, <1>2, <1>3, <2>1, <2>2 DEF IInv, ClientOK
  <2>5. CursorOK'  BY <2>2 DEF CursorOK
  <2>6. ErrorOK'
    BY <1>1, <1>2, <2>1, <2>2 DEF IInv, ErrorOK, ErrorReproducible
  <2>7. SpoolOK'  BY <1>1, <1>2, <2>1 DEF IInv, SpoolOK
  <2>. QED  BY <1>4, <1>5, <1>6, <2>3, <2>4, <2>5, <2>6, <2>7 DEF IInv
<1>. QED  BY <1>2, <1>7, <1>8

(* What emitting a row, or failing to, finds: the first queued run, standing *)
(* where the producer does, and the row it yields, which is the next of the *)
(* answer.                                                                  *)
LEMMA EmittingFacts ==
  ASSUME IInv, Emitting
  PROVE  LET e == Emission(Current)
         IN  /\ Current = ready[1] /\ 1 \in 1 .. Len(ready) /\ RunOK(query, Current)
             /\ RunOK(query, e.run) /\ e.run.part = Current.part
             /\ Reached = RunPlace(query, Current) /\ Reached \in Nat
             /\ Live /\ Held = Len(rows)
             /\ \/ /\ e.row = <<>> /\ ~BadRow(e)
                   /\ RunPlace(query, e.run) = Reached
                \/ /\ e.row = <<Answer[Reached + 1]>>
                   /\ RunPlace(query, e.run) = Reached + 1
                   /\ Reached + 1 \in 1 .. Len(Answer)
                   /\ Answer[Reached + 1].part = Current.part
                   /\ BadRow(e) <=> BadRowOf(query, Reached + 1)
<1>. DEFINE e == Emission(Current)
            p == Current.part
<1>1. /\ query \in Queries /\ ready \in Seq(RunType(query)) /\ ready # <<>> /\ pc = "fill"
      /\ ~IsDone(Current)
  BY DEF IInv, TypeOK, Emitting
<1>2. Current = ready[1] /\ 1 \in 1 .. Len(ready)
  BY <1>1 DEF Current
<1>3. RunOK(query, Current)  BY <1>2 DEF IInv, QueueOK
<1>4. Reached = RunPlace(query, Current) /\ Live /\ Held = Len(rows)
  BY <1>1, <1>2 DEF Reached, Live, Filling, Held
<1>5. /\ Reached \in Nat /\ PartOffset(query)[p - 1] \in Nat /\ PartOffset(query)[p] \in Nat
      /\ PartOffset(query)[p - 1] <= Reached
  BY <1>1, <1>3, <1>4, PlaceFacts
<1>6. p \in 1 .. Len(query.parts)  BY <1>1, <1>3, RunFacts
<1>7. /\ RunOK(query, e.run) /\ e.run.part = p
      /\ \/ e.row = <<>> /\ RunPlace(query, e.run) = Reached
         \/ /\ e.row = <<Answer[Reached + 1]>>
            /\ RunPlace(query, e.run) = Reached + 1
            /\ Reached + 1 \in 1 .. PartOffset(query)[p]
  BY <1>1, <1>3, <1>4, EmissionFacts
<1>. HIDE DEF e
<1>8. ASSUME e.row = <<>> PROVE ~BadRow(e)  BY <1>8 DEF BadRow
<1>9. ASSUME e.row = <<Answer[Reached + 1]>>, Reached + 1 \in 1 .. PartOffset(query)[p]
      PROVE  /\ Reached + 1 \in 1 .. Len(Answer) /\ Answer[Reached + 1].part = p
             /\ BadRow(e) <=> BadRowOf(query, Reached + 1)
  <2>1. /\ Reached + 1 \in Nat /\ PartOffset(query)[p - 1] < Reached + 1
        /\ Reached + 1 <= PartOffset(query)[p]
    BY <1>5, <1>9
  <2>2. Reached + 1 \in 1 .. Len(Answer) /\ Answer[Reached + 1].part = p
    BY <1>1, <1>6, <2>1, AnswerPart DEF Answer
  <2>3. e.row # <<>> /\ e.row[1] = Answer[Reached + 1]
    <3>. HIDE DEF p
    <3>. QED  BY <1>9
  <2>4. BadRow(e) <=> BadRowOf(query, Reached + 1)
    BY <2>2, <2>3, Zenon DEF BadRow, BadRowOf, Answer, Parts
  <2>. QED  BY <2>2, <2>4
<1>. QED  BY <1>2, <1>3, <1>4, <1>5, <1>7, <1>8, <1>9 DEF e

(* A row is emitted: the run, the rows held and the place in the answer move *)
(* on together.                                                             *)
LEMMA EmitRowStep ==
  ASSUME IInv, EmitRow
  PROVE  IInv'
<1>. USE DEF client
<1>. DEFINE e == Emission(Current)
<1>1. /\ query' = query /\ query \in Queries
      /\ Parts' = Parts /\ NumParts' = NumParts /\ Answer' = Answer /\ FirstError' = FirstError
      /\ Answer \in Seq(RowType) /\ Len(Answer) \in Nat
  <2>1. query' = query  BY DEF EmitRow
  <2>. QED  BY <2>1, Steady
<1>2. /\ Emitting /\ ~BadRow(e) /\ rows' = rows \o e.row
      /\ ready' = <<e.run>> \o Tail(ready)
      /\ UNCHANGED <<delivered, token, outcome, losses, pc, reply, alive, next_part, limit,
                     emitted_rows, resume_skip, chunk, matched, spool>>
  BY DEF EmitRow
<1>3. /\ pc = "fill" /\ ready # <<>> /\ Len(rows) < limit
      /\ ready \in Seq(RunType(query)) /\ rows \in Seq(RowType) /\ limit \in 0 .. TARGET_BATCH_ROWS
      /\ Len(rows) \in Nat /\ Len(ready) \in Nat /\ reply.kind = "none"
  BY <1>2 DEF Emitting, IInv, TypeOK, ControlOK
<1>4. /\ Current = ready[1] /\ 1 \in 1 .. Len(ready)
      /\ RunOK(query, e.run) /\ e.run.part = Current.part
      /\ Reached \in Nat /\ Live /\ Held = Len(rows)
      /\ \/ e.row = <<>> /\ RunPlace(query, e.run) = Reached
         \/ /\ e.row = <<Answer[Reached + 1]>>
            /\ RunPlace(query, e.run) = Reached + 1
            /\ Reached + 1 \in 1 .. Len(Answer)
            /\ BadRow(e) <=> BadRowOf(query, Reached + 1)
  BY <1>2, EmittingFacts
<1>. HIDE DEF e
<1>5. /\ ready' \in Seq(RunType(query)) /\ Len(ready') = Len(ready) /\ ready' # <<>>
      /\ ready'[1] = e.run
      /\ \A j \in 2 .. Len(ready) : ready'[j] = ready[j]
  <2>1. e.run \in RunType(query)  BY <1>4 DEF RunOK
  <2>2. /\ ready' \in Seq(RunType(query)) /\ Len(ready') = Len(ready)
        /\ ready'[1] = e.run
        /\ \A j \in 2 .. Len(ready) : ready'[j] = ready[j]
    BY <1>2, <1>3, <2>1, ReplaceHead
  <2>. QED  BY <1>3, <1>4, <2>2
<1>6. Live' /\ Filling /\ Held' = Len(rows') /\ Reached' = RunPlace(query, e.run)
  BY <1>1, <1>2, <1>3, <1>5 DEF Live, Filling, Held, Reached
(* Either nothing was emitted, or the next row of the answer was. *)
<1>7. /\ rows' \in Seq(RowType) /\ Len(rows') \in Nat
      /\ \A i \in 1 .. Len(rows) : rows'[i] = rows[i]
      /\ \/ Len(rows') = Len(rows) /\ Reached' = Reached
         \/ /\ Len(rows') = Len(rows) + 1 /\ Reached' = Reached + 1
            /\ rows'[Len(rows) + 1] = Answer[Reached + 1]
            /\ Reached + 1 \in 1 .. Len(Answer) /\ ~BadRowOf(query, Reached + 1)
  <2>1. CASE e.row = <<>> /\ RunPlace(query, e.run) = Reached
    <3>1. rows' = rows  BY <1>2, <1>3, <2>1, ConcatEmptySeq
    <3>. QED  BY <1>3, <1>6, <2>1, <3>1
  <2>2. CASE /\ e.row = <<Answer[Reached + 1]>>
             /\ RunPlace(query, e.run) = Reached + 1
             /\ Reached + 1 \in 1 .. Len(Answer)
             /\ BadRow(e) <=> BadRowOf(query, Reached + 1)
    <3>. DEFINE x == Answer[Reached + 1]
    <3>1. x \in RowType  BY <1>1, <2>2
    <3>2. rows' = rows \o <<x>>  BY <1>2, <2>2
    <3>. HIDE DEF x
    <3>3. /\ rows' \in Seq(RowType) /\ Len(rows') = Len(rows) + 1
          /\ \A i \in 1 .. Len(rows) : rows'[i] = rows[i]
          /\ rows'[Len(rows) + 1] = x
      BY <1>3, <3>1, <3>2, ConcatOne
    <3>. QED  BY <1>2, <1>3, <1>6, <2>2, <3>3 DEF x
  <2>. QED  BY <1>4, <2>1, <2>2
<1>8. TypeOK'
  <2>1. ready' \in Seq(RunType(query'))  BY <1>1, <1>5
  <2>. QED  BY <1>1, <1>2, <1>3, <1>7, <2>1 DEF IInv, TypeOK
<1>9. OneChunkLive'
  <2>1. Len(rows') <= limit  BY <1>3, <1>7
  <2>2. ASSUME NEW j \in 1 .. Len(ready') PROVE ready'[j].part = ready[j].part
    <3>1. j = 1 \/ j \in 2 .. Len(ready)  BY <1>3, <1>5
    <3>. QED  BY <1>4, <1>5, <3>1
  <2>. QED  BY <1>2, <1>3, <1>5, <2>1, <2>2 DEF IInv, OneChunkLive
<1>10. ControlOK'  BY <1>2 DEF IInv, ControlOK, Filling
<1>11. QueueOK'
  <2>1. ASSUME NEW j \in 1 .. Len(ready') PROVE RunOK(query, ready'[j])
    <3>1. j = 1 \/ j \in 2 .. Len(ready)  BY <1>3, <1>5
    <3>2. CASE j \in 2 .. Len(ready)
      <4>1. ready'[j] = ready[j] /\ j \in 1 .. Len(ready)  BY <1>3, <1>5, <3>2
      <4>. QED  BY <4>1 DEF IInv, QueueOK
    <3>. QED  BY <1>4, <1>5, <3>1, <3>2
  <2>2. ASSUME NEW j \in 2 .. Len(ready') PROVE ready'[j] = NewRun(ready'[j].part)
    <3>1. ready'[j] = ready[j] /\ j \in 2 .. Len(ready)  BY <1>5
    <3>. QED  BY <3>1 DEF IInv, QueueOK
  <2>. QED  BY <1>1, <1>2, <1>3, <2>1, <2>2 DEF IInv, QueueOK, NewRun
<1>12. ClientOK'  BY <1>1, <1>2 DEF IInv, ClientOK, Filling
<1>13. CursorOK'
  <2>1. /\ Reached + resume_skip = emitted_rows + Len(rows)
        /\ \A i \in 1 .. Len(rows) : rows[i] = Answer[emitted_rows - resume_skip + i]
        /\ resume_skip \in Nat /\ emitted_rows \in Nat
    BY <1>4 DEF IInv, CursorOK, TypeOK
  <2>2. Reached' + resume_skip = emitted_rows + Len(rows')
    <3>1. \/ Len(rows') = Len(rows) /\ Reached' = Reached
          \/ Len(rows') = Len(rows) + 1 /\ Reached' = Reached + 1
      BY <1>7
    <3>2. Len(rows) \in Nat /\ Reached \in Nat  BY <1>3, <1>4
    <3>3. Reached + resume_skip = emitted_rows + Len(rows) /\ resume_skip \in Nat
          /\ emitted_rows \in Nat
      BY <2>1
    <3>. QED  BY <3>1, <3>2, <3>3
  <2>3. ASSUME NEW i \in 1 .. Len(rows')
        PROVE  rows'[i] = Answer[emitted_rows - resume_skip + i]
    <3>1. CASE i \in 1 .. Len(rows)  BY <1>7, <2>1, <3>1
    <3>2. CASE i \notin 1 .. Len(rows)
      <4>1. i = Len(rows) + 1 /\ Len(rows') = Len(rows) + 1  BY <1>3, <1>7, <3>2
      <4>2. rows'[Len(rows) + 1] = Answer[Reached + 1]  BY <1>3, <1>7, <4>1
      <4>3. emitted_rows - resume_skip + i = Reached + 1  BY <1>3, <1>4, <2>1, <4>1
      <4>. QED  BY <4>1, <4>2, <4>3
    <3>. QED  BY <3>1, <3>2
  <2>. QED  BY <1>1, <1>2, <1>6, <2>2, <2>3 DEF CursorOK
<1>14. ErrorOK'
  <2>1. \A r \in 1 .. Len(Answer) : r <= Reached => ~BadRowOf(query, r)
    BY <1>4 DEF IInv, ErrorOK
  <2>2. \A r \in 1 .. Len(Answer) : r <= Reached' => ~BadRowOf(query, r)
    <3>. SUFFICES ASSUME NEW r \in 1 .. Len(Answer), r <= Reached' PROVE ~BadRowOf(query, r)
      OBVIOUS
    <3>1. r <= Reached \/ (r = Reached + 1 /\ ~BadRowOf(query, Reached + 1))
      <4>1. \/ Reached' = Reached
            \/ Reached' = Reached + 1 /\ ~BadRowOf(query, Reached + 1)
        BY <1>7
      <4>2. Reached \in Nat /\ r \in Nat  BY <1>1, <1>4
      <4>3. CASE Reached' = Reached  BY <4>2, <4>3
      <4>4. CASE Reached' = Reached + 1 /\ ~BadRowOf(query, Reached + 1)
        <5>1. r <= Reached \/ r = Reached + 1  BY <4>2, <4>4
        <5>. QED  BY <4>4, <5>1
      <4>. QED  BY <4>1, <4>3, <4>4
    <3>. QED  BY <2>1, <3>1
  <2>. QED  BY <1>1, <1>2, <1>3, <1>4, <2>2 DEF IInv, ErrorOK, ErrorReproducible
<1>15. SpoolOK'  BY <1>1, <1>2 DEF IInv, SpoolOK
<1>. QED  BY <1>8, <1>9, <1>10, <1>11, <1>12, <1>13, <1>14, <1>15 DEF IInv

(* A measure that fails does so at the first bad row, in a chunk in which no *)
(* partition failed, nor in any before it.                                  *)
LEMMA EmitFailsStep ==
  ASSUME IInv, EmitFails
  PROVE  IInv'
<1>. USE DEF client, cursor
<1>. DEFINE e == Emission(Current)
            r == Reached + 1
<1>1. /\ query' = query /\ query \in Queries
      /\ Parts' = Parts /\ NumParts' = NumParts /\ Answer' = Answer /\ FirstError' = FirstError
      /\ NumParts = Len(query.parts) /\ NumParts \in Nat /\ Parts = query.parts
      /\ Len(Answer) \in Nat
  <2>1. query' = query  BY DEF EmitFails
  <2>. QED  BY <2>1, Steady
<1>2. /\ Emitting /\ BadRow(e) /\ pc' = "reply"
      /\ reply' = [kind |-> "error",
                   what |-> <<"row", Current.part, e.row[1].match, e.row[1].row>>]
      /\ UNCHANGED <<delivered, token, outcome, losses, next_part, ready, rows, limit,
                     emitted_rows, resume_skip, alive, chunk, matched, spool>>
  BY DEF EmitFails
<1>3. pc = "fill" /\ ready # <<>>  BY <1>2 DEF Emitting
<1>4. /\ Current = ready[1] /\ 1 \in 1 .. Len(ready) /\ Live /\ Reached \in Nat
      /\ e.row = <<Answer[r]>> /\ r \in 1 .. Len(Answer)
      /\ Answer[r].part = Current.part /\ BadRowOf(query, r)
  BY <1>2, EmittingFacts
<1>5. e.row[1] = Answer[r]
  <2>. HIDE DEF e, r
  <2>. QED  BY <1>4
<1>. HIDE DEF e, r
<1>6. FirstError = <<"row", Current.part, Answer[r].match, Answer[r].row>>
  <2>. DEFINE f == chunk.from
  <2>1. /\ f \in 1 .. Len(query.parts) /\ ChunkStart(query)[f] = f
        /\ chunk.to = ChunkEnd(query, f) /\ next_part = chunk.to + 1
    BY <1>1, <1>3 DEF IInv, QueueOK
  <2>2. AnswerOf(query)[r].part \in f .. ChunkEnd(query, f)
    <3>1. Current.part \in chunk.from .. chunk.to  BY <1>4 DEF IInv, OneChunkLive
    <3>. QED  BY <1>4, <2>1, <3>1 DEF Answer
  <2>3. r \in BadRowsOf(query)  BY <1>4 DEF BadRowsOf, Answer
  <2>4. \A r2 \in BadRowsOf(query) : r <= r2
    <3>. SUFFICES ASSUME NEW r2 \in BadRowsOf(query), r2 < r PROVE FALSE
      BY <1>1, <1>4 DEF BadRowsOf, Answer
    <3>1. r2 \in 1 .. Len(Answer) /\ BadRowOf(query, r2)  BY DEF BadRowsOf, Answer
    <3>2. r2 <= Reached  BY <1>1, <1>4, <3>1 DEF r
    <3>. QED  BY <1>4, <3>1, <3>2 DEF IInv, ErrorOK
  <2>5. \A p \in FailingOf(query) : ChunkEnd(query, f) < p
    <3>. SUFFICES ASSUME NEW p \in FailingOf(query), ~(ChunkEnd(query, f) < p) PROVE FALSE
      OBVIOUS
    <3>1. p \in 1 .. NumParts /\ Parts[p].fails  BY <1>1 DEF FailingOf
    <3>2. p < next_part
      <4>1. ChunkEnd(query, f) \in Nat  BY <1>1, <2>1, ChunkEndFacts
      <4>. QED  BY <1>1, <2>1, <3>1, <4>1
    <3>. QED  BY <1>3, <1>4, <3>1, <3>2 DEF IInv, ErrorOK
  <2>6. FirstErrorOf(query) = <<"row", AnswerOf(query)[r].part, AnswerOf(query)[r].match,
                                AnswerOf(query)[r].row>>
    <3>. HIDE DEF f
    <3>. QED  BY <1>1, <2>1, <2>2, <2>3, <2>4, <2>5, FirstErrorRow
  <2>. QED  BY <1>4, <2>6 DEF FirstError, Answer
<1>7. /\ reply'.kind = "error" /\ reply'.what = FirstError /\ reply'.what # <<"spool">>
  <2>1. <<"row", Current.part, Answer[r].match, Answer[r].row>> # <<"spool">>  OBVIOUS
  <2>. QED  BY <1>2, <1>5, <1>6, <2>1
<1>8. ~Live'  BY <1>2, <1>7 DEF Filling, Live
<1>9. reply.kind = "none" /\ outcome = "open"  BY <1>3 DEF IInv, ControlOK
<1>10. TypeOK'  BY <1>1, <1>2, <1>7 DEF IInv, TypeOK
<1>11. OneChunkLive'  BY <1>2 DEF IInv, OneChunkLive
<1>12. ControlOK'  BY <1>2, <1>7, <1>8, <1>9 DEF ControlOK, Live
<1>13. QueueOK'  BY <1>1, <1>2 DEF IInv, QueueOK, NewRun
<1>14. ClientOK'  BY <1>1, <1>2, <1>7, <1>8 DEF IInv, ClientOK, Live
<1>15. CursorOK'  BY <1>8 DEF CursorOK
<1>16. ErrorOK'
  BY <1>1, <1>2, <1>7, <1>8, <1>9 DEF ErrorOK, ErrorReproducible
<1>17. SpoolOK'  BY <1>1, <1>2, <1>7, <1>9 DEF IInv, SpoolOK
<1>. QED  BY <1>10, <1>11, <1>12, <1>13, <1>14, <1>15, <1>16, <1>17 DEF IInv

(* The end of one partition's rows is where the next one's begin. *)
LEMMA PopDoneStep ==
  ASSUME IInv, PopDone
  PROVE  IInv'
<1>. USE DEF client
<1>1. /\ query' = query /\ query \in Queries
      /\ Parts' = Parts /\ NumParts' = NumParts /\ Answer' = Answer /\ FirstError' = FirstError
      /\ NumParts = Len(query.parts) /\ NumParts \in Nat
  <2>1. query' = query  BY DEF PopDone
  <2>. QED  BY <2>1, Steady
<1>2. /\ pc = "fill" /\ pc' = "fill" /\ ready # <<>> /\ IsDone(ready[1])
      /\ ready' = Tail(ready)
      /\ UNCHANGED <<delivered, token, outcome, losses, reply, alive, next_part, rows, limit,
                     emitted_rows, resume_skip, chunk, matched, spool>>
  BY DEF PopDone, Current
<1>3. /\ ready' \in Seq(RunType(query)) /\ Len(ready') = Len(ready) - 1
      /\ Len(ready) \in Nat \ {0}
      /\ \A j \in 1 .. Len(ready') : ready'[j] = ready[j + 1]
  <2>1. ready \in Seq(RunType(query))  BY DEF IInv, TypeOK
  <2>. QED  BY <1>2, <2>1, HeadTailProperties, EmptySeq
<1>4. \A j \in 1 .. Len(ready) : /\ RunOK(query, ready[j])
                                 /\ ready[j].part \in chunk.from .. chunk.to
                                 /\ ready[j].part = next_part - 1 - Len(ready) + j
  BY DEF IInv, QueueOK, OneChunkLive
<1>5. \A j \in 2 .. Len(ready) : ready[j] = NewRun(ready[j].part)
  BY DEF IInv, QueueOK
<1>6. Reached = RunPlace(query, ready[1]) /\ Live /\ Live' /\ Held' = Held
  BY <1>2 DEF Reached, Live, Filling, Held
<1>7. 1 \in 1 .. Len(ready) /\ next_part \in Nat  BY <1>1, <1>3 DEF IInv, TypeOK
<1>8. Reached = PartOffset(query)[ready[1].part]
  <2>1. RunOK(query, ready[1])  BY <1>4, <1>7
  <2>. QED  BY <1>1, <1>2, <1>6, <2>1, PlaceFacts
<1>9. Reached' = Reached
  <2>1. CASE Len(ready) = 1
    <3>1. ready' = <<>>  BY <1>3, <2>1, EmptySeq
    <3>2. Reached' = PartOffset(query)[next_part - 1]  BY <1>1, <1>2, <3>1 DEF Reached
    <3>3. ready[1].part = next_part - 1
      <4>1. ready[1].part = next_part - 1 - 1 + 1  BY <1>4, <1>7, <2>1
      <4>. QED  BY <1>7, <4>1
    <3>. QED  BY <1>8, <3>2, <3>3
  <2>2. CASE Len(ready) > 1
    <3>. DEFINE p == ready[2].part
    <3>1. 2 \in 1 .. Len(ready) /\ 2 \in 2 .. Len(ready) /\ 1 \in 1 .. Len(ready')
      BY <1>3, <2>2
    <3>2. ready'[1] = NewRun(p)
      <4>1. ready'[1] = ready[1 + 1] /\ 1 + 1 = 2  BY <1>3, <3>1
      <4>. QED  BY <1>5, <3>1, <4>1
    <3>3. ready' # <<>>  BY <1>3, <3>1, EmptySeq
    <3>4. p \in 1 .. NumParts
      <4>1. RunOK(query, ready[2])  BY <1>4, <3>1
      <4>. QED  BY <1>1, <4>1, RunFacts
    <3>5. ready[1].part = p - 1
      <4>1. ready[1].part = next_part - 1 - Len(ready) + 1 /\ p = next_part - 1 - Len(ready) + 2
        BY <1>4, <1>7, <3>1
      <4>. HIDE DEF p
      <4>. QED  BY <1>3, <1>7, <4>1
    <3>. HIDE DEF p
    <3>6. RunPlace(query, NewRun(p)) = PartOffset(query)[p - 1]
      BY <1>1, <3>4, NewRunFacts
    <3>7. Reached' = RunPlace(query, ready'[1])  BY <1>1, <1>2, <3>3 DEF Reached
    <3>. QED  BY <1>8, <3>2, <3>5, <3>6, <3>7
  <2>. QED  BY <1>3, <2>1, <2>2
<1>10. TypeOK'
  <2>1. ready' \in Seq(RunType(query'))  BY <1>1, <1>3
  <2>. QED  BY <1>1, <1>2, <2>1 DEF IInv, TypeOK
<1>11. ASSUME NEW j \in 1 .. Len(ready')
       PROVE  /\ j + 1 \in 2 .. Len(ready) /\ j + 1 \in 1 .. Len(ready)
              /\ ready'[j] = ready[j + 1]
  BY <1>3
<1>12. OneChunkLive'
  <2>1. ASSUME NEW j \in 1 .. Len(ready')
        PROVE  /\ ready'[j].part \in chunk.from .. chunk.to
               /\ ready'[j].part = next_part - 1 - Len(ready') + j
    <3>1. /\ ready'[j].part \in chunk.from .. chunk.to
          /\ ready'[j].part = next_part - 1 - Len(ready) + (j + 1)
      BY <1>4, <1>11
    <3>2. next_part - 1 - Len(ready) + (j + 1) = next_part - 1 - Len(ready') + j
      BY <1>3, <1>7
    <3>. QED  BY <3>1, <3>2
  <2>2. Len(rows') <= limit'  BY <1>2 DEF IInv, OneChunkLive
  <2>. QED  BY <1>2, <2>1, <2>2 DEF OneChunkLive
<1>13. ControlOK'  BY <1>2 DEF IInv, ControlOK, Filling
<1>14. QueueOK'
  <2>1. ASSUME NEW j \in 1 .. Len(ready') PROVE RunOK(query, ready'[j])
    BY <1>4, <1>11
  <2>2. ASSUME NEW j \in 2 .. Len(ready') PROVE ready'[j] = NewRun(ready'[j].part)
    <3>1. j \in 1 .. Len(ready')  BY <1>3
    <3>. QED  BY <1>5, <1>11, <3>1
  <2>. QED  BY <1>1, <1>2, <2>1, <2>2 DEF IInv, QueueOK, NewRun
<1>15. ClientOK'  BY <1>1, <1>2 DEF IInv, ClientOK, Filling
<1>16. CursorOK'  BY <1>1, <1>2, <1>6, <1>9 DEF IInv, CursorOK
<1>17. ErrorOK'  BY <1>1, <1>2, <1>6, <1>9 DEF IInv, ErrorOK, ErrorReproducible
<1>18. SpoolOK'  BY <1>1, <1>2 DEF IInv, SpoolOK
<1>. QED  BY <1>10, <1>12, <1>13, <1>14, <1>15, <1>16, <1>17, <1>18 DEF IInv

(* A chunk starts where the last one ended. *)
LEMMA StartChunkStep ==
  ASSUME IInv, StartChunk
  PROVE  IInv'
<1>. USE DEF client
<1>. DEFINE end == ChunkEnd(query, next_part)
<1>1. /\ query' = query /\ query \in Queries
      /\ Parts' = Parts /\ NumParts' = NumParts /\ Answer' = Answer /\ FirstError' = FirstError
      /\ NumParts = Len(query.parts) /\ NumParts \in Nat
  <2>1. query' = query  BY DEF StartChunk
  <2>. QED  BY <2>1, Steady
<1>2. /\ pc = "fill" /\ pc' = "match" /\ ready = <<>> /\ next_part <= NumParts
      /\ chunk' = [from |-> next_part, to |-> end]
      /\ chunk'.from = next_part /\ chunk'.to = end
      /\ matched' = {} /\ next_part' = end + 1
      /\ UNCHANGED <<delivered, token, outcome, losses, reply, alive, ready, rows, limit,
                     emitted_rows, resume_skip, spool>>
  BY DEF StartChunk
<1>3. next_part \in 1 .. NumParts /\ end \in next_part .. NumParts
  <2>1. next_part \in 1 .. NumParts  BY <1>1, <1>2 DEF IInv, TypeOK
  <2>. QED  BY <1>1, <2>1, ChunkEndFacts
<1>. HIDE DEF end
<1>4. Live /\ Live' /\ Filling /\ Filling' /\ Held' = Held /\ Reached' = Reached
  BY <1>1, <1>2 DEF Live, Filling, Held, Reached
<1>5. TypeOK'
  <2>1. chunk' \in [from : 1 .. NumParts + 1, to : 0 .. NumParts]
        /\ next_part' \in 1 .. NumParts + 1
    BY <1>1, <1>2, <1>3
  <2>. QED  BY <1>1, <1>2, <2>1 DEF IInv, TypeOK
<1>6. OneChunkLive'  BY <1>2 DEF IInv, OneChunkLive
<1>7. ControlOK'  BY <1>2 DEF IInv, ControlOK, Filling
<1>8. QueueOK'
  <2>1. ChunkStart(query)[next_part] = next_part  BY <1>2 DEF IInv, QueueOK
  <2>2. end + 1 <= NumParts => ChunkStart(query)[end + 1] = end + 1
    <3>1. end < Len(query.parts) => ChunkStart(query)[end + 1] = end + 1
      BY <1>1, <1>3, <2>1, ChunkMembers DEF end
    <3>. QED  BY <1>1, <1>3, <3>1
  <2>. QED  BY <1>1, <1>2, <1>3, <2>1, <2>2 DEF QueueOK, end
<1>9. ClientOK'  BY <1>1, <1>2, <1>4 DEF IInv, ClientOK
<1>10. CursorOK'  BY <1>1, <1>2, <1>4 DEF IInv, CursorOK
<1>11. ErrorOK'  BY <1>1, <1>2, <1>4 DEF IInv, ErrorOK, ErrorReproducible
<1>12. SpoolOK'  BY <1>1, <1>2 DEF IInv, SpoolOK
<1>. QED  BY <1>5, <1>6, <1>7, <1>8, <1>9, <1>10, <1>11, <1>12 DEF IInv

(* The join queues the chunk's runs in order, before their first rows, or   *)
(* fails with the first failure of the query.                               *)
LEMMA JoinStep ==
  ASSUME IInv, Join
  PROVE  IInv'
<1>. USE DEF client
<1>. DEFINE f == chunk.from
            size == ChunkSize(chunk)
            queue == [j \in 1 .. size |-> NewRun(f + j - 1)]
<1>1. /\ query' = query /\ query \in Queries
      /\ Parts' = Parts /\ NumParts' = NumParts /\ Answer' = Answer /\ FirstError' = FirstError
      /\ NumParts = Len(query.parts) /\ NumParts \in Nat /\ Parts = query.parts
      /\ PartOffset(query) \in [0 .. NumParts -> Nat] /\ Len(Answer) \in Nat
  <2>1. query' = query  BY DEF Join
  <2>. QED  BY <2>1, Steady
<1>2. /\ pc = "match"
      /\ UNCHANGED <<delivered, token, outcome, losses, alive, next_part, rows, limit,
                     emitted_rows, resume_skip, chunk, matched, spool>>
      /\ \/ Failures = {} /\ ready' = queue /\ pc' = "fill" /\ reply' = reply
         \/ /\ Failures # {} /\ pc' = "reply" /\ ready' = ready
            /\ reply' = [kind |-> "error", what |-> <<"match", Min(Failures)>>]
  BY DEF Join
<1>3. /\ f \in 1 .. NumParts /\ chunk.to = ChunkEnd(query, f) /\ next_part = chunk.to + 1
      /\ ChunkStart(query)[f] = f
      /\ chunk.to \in f .. NumParts
  <2>1. /\ f \in 1 .. NumParts /\ chunk.to = ChunkEnd(query, f) /\ next_part = chunk.to + 1
        /\ ChunkStart(query)[f] = f
    BY <1>2 DEF IInv, QueueOK
  <2>2. ChunkEnd(query, f) \in f .. NumParts  BY <1>1, <2>1, ChunkEndFacts
  <2>. QED  BY <2>1, <2>2
<1>4. /\ Live /\ Reached = PartOffset(query)[f - 1] /\ Held = Len(rows) /\ reply.kind = "none"
      /\ outcome = "open" /\ ready = <<>>
  BY <1>2 DEF Live, Filling, Reached, Held, IInv, ControlOK, OneChunkLive
<1>5. PartOffset(query)[f - 1] \in Nat  BY <1>1, <1>3
<1>6. ASSUME NEW p \in 1 .. NumParts, p < f PROVE ~Parts[p].fails
  BY <1>2, <1>4, <1>6 DEF IInv, ErrorOK
<1>7. CASE Failures = {} /\ ready' = queue /\ pc' = "fill" /\ reply' = reply
  <2>1. size \in Nat \ {0} /\ size = chunk.to - f + 1  BY <1>1, <1>3 DEF ChunkSize
  <2>2. ASSUME NEW j \in 1 .. size
        PROVE  /\ f + j - 1 \in 1 .. NumParts
               /\ f + j - 1 \in f .. chunk.to
               /\ f + j - 1 = next_part - 1 - size + j
    <3>1. f \in Nat /\ chunk.to \in Nat /\ chunk.to <= NumParts /\ j \in Nat
          /\ 1 <= j /\ j <= size /\ 1 <= f /\ NumParts \in Nat
          /\ size = chunk.to - f + 1 /\ next_part = chunk.to + 1
      BY <1>1, <1>3, <2>1
    <3>. DEFINE to == chunk.to
    <3>. HIDE DEF size, f, to
    <3>2. /\ f \in Nat /\ to \in Nat /\ to <= NumParts /\ j \in Nat
          /\ 1 <= j /\ j <= size /\ 1 <= f /\ NumParts \in Nat
          /\ size = to - f + 1 /\ next_part = to + 1
      BY <3>1 DEF to
    <3>3. j <= to - f + 1  BY <3>2
    <3>4. f + j - 1 \in Nat /\ f <= f + j - 1 /\ f + j - 1 <= to  BY <3>2, <3>3
    <3>5. f + j - 1 = next_part - 1 - size + j  BY <3>2
    <3>. QED  BY <3>2, <3>4, <3>5 DEF to
  <2>3. ASSUME NEW j \in 1 .. size
        PROVE  /\ RunOK(query, NewRun(f + j - 1)) /\ NewRun(f + j - 1).part = f + j - 1
               /\ NewRun(f + j - 1) \in RunType(query)
    <3>1. RunOK(query, NewRun(f + j - 1)) /\ NewRun(f + j - 1).part = f + j - 1
      BY <1>1, <2>2, NewRunFacts
    <3>. QED  BY <3>1 DEF RunOK
  <2>. HIDE DEF size
  <2>4. ready' \in Seq(RunType(query))  BY <1>7, <2>1, <2>3
  <2>5. Len(ready') = size
    <3>1. size \in Nat  BY <2>1
    <3>. QED  BY <1>7, <3>1
  <2>6. ASSUME NEW j \in 1 .. Len(ready')
        PROVE  /\ j \in 1 .. size /\ ready'[j] = NewRun(f + j - 1)
               /\ RunOK(query, ready'[j])
               /\ ready'[j].part = f + j - 1
    <3>1. j \in 1 .. size  BY <2>5
    <3>2. ready'[j] = NewRun(f + j - 1)  BY <1>7, <3>1
    <3>. QED  BY <2>3, <3>1, <3>2
  <2>. HIDE DEF queue
  <2>7. ready' # <<>> /\ Reached' = Reached
    <3>1. 1 \in 1 .. Len(ready')  BY <2>1, <2>5
    <3>2. ready' # <<>>  BY <3>1
    <3>3. f + 1 - 1 = f  BY <1>3
    <3>4. ready'[1] = NewRun(f)  BY <2>6, <3>1, <3>3
    <3>5. RunPlace(query, NewRun(f)) = PartOffset(query)[f - 1]
      BY <1>1, <1>3, NewRunFacts
    <3>6. Reached' = RunPlace(query, ready'[1])  BY <1>1, <1>7, <3>2 DEF Reached
    <3>. QED  BY <1>4, <3>2, <3>4, <3>5, <3>6
  <2>8. Live' /\ Filling /\ Filling' /\ Held' = Held
    BY <1>2, <1>7 DEF Live, Filling, Held
  <2>9. TypeOK'
    <3>1. ready' \in Seq(RunType(query'))  BY <1>1, <2>4
    <3>. QED  BY <1>1, <1>2, <1>7, <3>1 DEF IInv, TypeOK
  <2>10. OneChunkLive'
    <3>1. ASSUME NEW j \in 1 .. Len(ready')
          PROVE  /\ ready'[j].part \in chunk.from .. chunk.to
                 /\ ready'[j].part = next_part - 1 - Len(ready') + j
      BY <2>2, <2>5, <2>6
    <3>. QED  BY <1>2, <1>7, <3>1 DEF IInv, OneChunkLive
  <2>11. ControlOK'  BY <1>2, <1>7, <2>8 DEF IInv, ControlOK
  <2>12. QueueOK'
    <3>1. ASSUME NEW j \in 2 .. Len(ready') PROVE ready'[j] = NewRun(ready'[j].part)
      <4>1. j \in 1 .. Len(ready')  BY <2>1, <2>5
      <4>. QED  BY <2>6, <4>1
    <3>2. \A j \in 1 .. Len(ready') : RunOK(query, ready'[j])  BY <2>6
    <3>. QED  BY <1>1, <1>2, <1>3, <3>1, <3>2 DEF IInv, QueueOK, NewRun
  <2>13. ClientOK'  BY <1>1, <1>2, <1>7, <2>8 DEF IInv, ClientOK
  <2>14. CursorOK'  BY <1>1, <1>2, <1>4, <2>7, <2>8 DEF IInv, CursorOK
  <2>15. ErrorOK'
    <3>1. ASSUME NEW p \in 1 .. NumParts, p < next_part PROVE ~Parts[p].fails
      <4>1. p < f \/ p \in f .. chunk.to  BY <1>1, <1>3, <3>1
      <4>2. CASE p \in f .. chunk.to  BY <1>7, <4>2 DEF Failures
      <4>. QED  BY <1>6, <4>1, <4>2
    <3>. QED  BY <1>1, <1>2, <1>4, <1>7, <2>7, <3>1 DEF IInv, ErrorOK, ErrorReproducible
  <2>16. SpoolOK'  BY <1>1, <1>2, <1>7 DEF IInv, SpoolOK
  <2>. QED  BY <2>9, <2>10, <2>11, <2>12, <2>13, <2>14, <2>15, <2>16 DEF IInv
<1>8. CASE /\ Failures # {} /\ pc' = "reply" /\ ready' = ready
           /\ reply' = [kind |-> "error", what |-> <<"match", Min(Failures)>>]
  <2>. DEFINE p0 == Min(Failures)
  <2>1. Failures \in SUBSET Nat  BY <1>1, <1>3 DEF Failures
  <2>2. p0 \in Failures /\ \A p \in Failures : p0 <= p  BY <1>8, <2>1, MinOfSet
  <2>3. p0 \in f .. chunk.to /\ Parts[p0].fails /\ p0 \in 1 .. NumParts
    BY <1>1, <1>3, <2>2 DEF Failures
  <2>4. FirstErrorOf(query) = <<"match", p0>>
    <3>1. p0 \in FailingOf(query)  BY <1>1, <2>3 DEF FailingOf
    <3>2. \A p \in FailingOf(query) : p0 <= p
      <4>. SUFFICES ASSUME NEW p \in FailingOf(query) PROVE p0 <= p  OBVIOUS
      <4>1. p \in 1 .. NumParts /\ Parts[p].fails  BY <1>1 DEF FailingOf
      <4>2. ~(p < f)  BY <1>6, <4>1
      <4>3. CASE p <= chunk.to
        <5>1. p \in Failures  BY <1>1, <1>3, <4>1, <4>2, <4>3 DEF Failures
        <5>. QED  BY <2>2, <5>1
      <4>4. CASE ~(p <= chunk.to)  BY <1>1, <1>3, <2>3, <4>1, <4>4
      <4>. QED  BY <4>3, <4>4
    <3>3. \A r \in BadRowsOf(query) : PartOffset(query)[f - 1] < r
      <4>. SUFFICES ASSUME NEW r \in BadRowsOf(query), ~(PartOffset(query)[f - 1] < r)
                    PROVE  FALSE
        OBVIOUS
      <4>1. r \in 1 .. Len(Answer) /\ BadRowOf(query, r)  BY DEF BadRowsOf, Answer
      <4>2. r <= Reached  BY <1>1, <1>4, <1>5, <4>1
      <4>. QED  BY <1>4, <4>1, <4>2 DEF IInv, ErrorOK
    <3>4. f \in 1 .. Len(query.parts) /\ p0 \in f .. ChunkEnd(query, f)
      BY <1>1, <1>3, <2>3
    <3>. HIDE DEF p0, f
    <3>. QED  BY <1>1, <1>3, <3>1, <3>2, <3>3, <3>4, FirstErrorMatch DEF f
  <2>5. reply'.kind = "error" /\ reply'.what = FirstError /\ reply'.what # <<"spool">>
    <3>1. <<"match", p0>> # <<"spool">>  OBVIOUS
    <3>. QED  BY <1>8, <2>4, <3>1 DEF FirstError
  <2>6. ~Live'  BY <1>8, <2>5 DEF Filling, Live
  <2>7. TypeOK'  BY <1>1, <1>2, <1>8, <2>5 DEF IInv, TypeOK
  <2>8. OneChunkLive'  BY <1>2, <1>8 DEF IInv, OneChunkLive
  <2>9. ControlOK'  BY <1>2, <1>4, <1>8, <2>5, <2>6 DEF ControlOK, Live
  <2>10. QueueOK'  BY <1>1, <1>2, <1>8 DEF IInv, QueueOK, NewRun
  <2>11. ClientOK'  BY <1>1, <1>2, <1>8, <2>5, <2>6 DEF IInv, ClientOK, Live
  <2>12. CursorOK'  BY <2>6 DEF CursorOK
  <2>13. ErrorOK'
    BY <1>1, <1>2, <1>4, <2>5, <2>6 DEF ErrorOK, ErrorReproducible
  <2>14. SpoolOK'  BY <1>1, <1>2, <1>4, <2>5 DEF IInv, SpoolOK
  <2>. QED  BY <2>7, <2>8, <2>9, <2>10, <2>11, <2>12, <2>13, <2>14 DEF IInv
<1>. QED  BY <1>2, <1>7, <1>8

(* A producer is somewhere in the answer. *)
LEMMA ReachedFacts ==
  ASSUME IInv
  PROVE  Reached \in Nat /\ Reached <= Len(Answer)
<1>1. /\ query \in Queries /\ next_part \in 1 .. NumParts + 1
      /\ ready \in Seq(RunType(query))
      /\ chunk \in [from : 1 .. NumParts + 1, to : 0 .. NumParts]
  BY DEF IInv, TypeOK
<1>2. /\ NumParts \in Nat /\ PartOffset(query) \in [0 .. NumParts -> Nat]
      /\ Len(Answer) = PartOffset(query)[NumParts]
      /\ NumParts = Len(query.parts)
  BY <1>1, StateFacts
<1>3. \A i, j \in 0 .. NumParts : i <= j => PartOffset(query)[i] <= PartOffset(query)[j]
  BY <1>1, <1>2, AnswerFacts
<1>4. ASSUME NEW i \in 0 .. NumParts
      PROVE  PartOffset(query)[i] \in Nat /\ PartOffset(query)[i] <= Len(Answer)
  <2>1. NumParts \in 0 .. NumParts /\ i <= NumParts  BY <1>2
  <2>. QED  BY <1>2, <1>3, <2>1
<1>5. CASE pc = "match"
  <2>1. chunk.from - 1 \in 0 .. NumParts  BY <1>1, <1>2
  <2>. QED  BY <1>4, <1>5, <2>1 DEF Reached
<1>6. CASE pc # "match" /\ ready # <<>>
  <2>. DEFINE run == ready[1]
  <2>1. RunOK(query, run)
    <3>1. 1 \in 1 .. Len(ready)  BY <1>1, <1>6, EmptySeq
    <3>. QED  BY <3>1 DEF IInv, QueueOK
  <2>2. Reached = RunPlace(query, run)  BY <1>6 DEF Reached
  <2>. HIDE DEF run
  <2>3. run.part \in 0 .. NumParts /\ run.part \in 1 .. NumParts
    BY <1>1, <1>2, <2>1, RunFacts
  <2>4. RunPlace(query, run) \in Nat /\ RunPlace(query, run) <= PartOffset(query)[run.part]
    BY <1>1, <2>1, PlaceFacts
  <2>5. PartOffset(query)[run.part] \in Nat /\ PartOffset(query)[run.part] <= Len(Answer)
    BY <1>4, <2>3
  <2>6. Len(Answer) \in Nat  BY <1>1, StateFacts
  <2>. QED  BY <2>2, <2>4, <2>5, <2>6
<1>7. CASE pc # "match" /\ ready = <<>>
  <2>1. next_part - 1 \in 0 .. NumParts  BY <1>1, <1>2
  <2>. QED  BY <1>4, <1>7, <2>1 DEF Reached
<1>. QED  BY <1>5, <1>6, <1>7

(* When fill_rows returns, the batch is full or every row was reached.      *)
LEMMA FilledFacts ==
  ASSUME IInv, Filled
  PROVE  /\ pc = "fill" /\ Live /\ Filling /\ Held = Len(rows) /\ reply.kind = "none"
         /\ outcome = "open" /\ alive
         /\ Reached \in Nat /\ Reached <= Len(Answer) /\ Len(rows) \in Nat
         /\ limit \in 1 .. TARGET_BATCH_ROWS
         /\ resume_skip = 0 => limit = TARGET_BATCH_ROWS
         /\ resume_skip > 0 => limit <= resume_skip
         /\ \/ Len(rows) = limit
            \/ ready = <<>> /\ next_part = NumParts + 1 /\ Reached = Len(Answer)
<1>1. /\ query \in Queries /\ next_part \in 1 .. NumParts + 1 /\ resume_skip \in Nat
      /\ limit \in 0 .. TARGET_BATCH_ROWS /\ rows \in Seq(RowType) /\ Len(rows) \in Nat
      /\ Len(rows) <= limit /\ emitted_rows \in Nat
  BY DEF IInv, TypeOK, OneChunkLive
<1>2. NumParts \in Nat /\ Len(Answer) = PartOffset(query)[NumParts]  BY <1>1, StateFacts
<1>3. pc = "fill"  BY DEF Filled
<1>4. /\ Live /\ Filling /\ Held = Len(rows) /\ reply.kind = "none"
      /\ outcome = "open" /\ alive
      /\ limit = IF resume_skip > 0 THEN Min({resume_skip, TARGET_BATCH_ROWS})
                 ELSE TARGET_BATCH_ROWS
  BY <1>3 DEF Live, Filling, Held, IInv, ControlOK
<1>5. /\ limit \in 1 .. TARGET_BATCH_ROWS
      /\ resume_skip = 0 => limit = TARGET_BATCH_ROWS
      /\ resume_skip > 0 => limit <= resume_skip
  <2>1. TARGET_BATCH_ROWS \in Nat \ {0}  BY LimitAssumption
  <2>2. CASE resume_skip > 0
    <3>. DEFINE S == {resume_skip, TARGET_BATCH_ROWS}
    <3>1. S \in SUBSET Nat /\ S # {}  BY <1>1, <2>1
    <3>2. Min(S) \in S /\ \A y \in S : Min(S) <= y
      <4>. HIDE DEF S
      <4>. QED  BY <3>1, MinOfSet
    <3>. QED  BY <1>1, <1>4, <2>1, <2>2, <3>2
  <2>3. CASE resume_skip = 0  BY <1>4, <2>1, <2>3
  <2>. QED  BY <1>1, <2>2, <2>3
<1>6. \/ Len(rows) = limit
      \/ ready = <<>> /\ next_part = NumParts + 1 /\ Reached = Len(Answer)
  <2>1. \/ Len(rows) >= limit
        \/ ready = <<>> /\ next_part > NumParts
    BY DEF Filled
  <2>2. CASE Len(rows) >= limit  BY <1>1, <1>5, <2>2
  <2>3. CASE ready = <<>> /\ next_part > NumParts
    <3>1. next_part = NumParts + 1 /\ next_part - 1 = NumParts  BY <1>1, <1>2, <2>3
    <3>2. Reached = PartOffset(query)[next_part - 1]  BY <1>3, <2>3 DEF Reached
    <3>. QED  BY <1>2, <2>3, <3>1, <3>2
  <2>. QED  BY <2>1, <2>2, <2>3
<1>. QED  BY <1>1, <1>3, <1>4, <1>5, <1>6, ReachedFacts

(* A round of the replay discards rows the client has; there are enough.    *)
LEMMA DiscardStep ==
  ASSUME IInv, Discard
  PROVE  IInv'
<1>. USE DEF client
<1>1. /\ query' = query /\ query \in Queries
      /\ Parts' = Parts /\ NumParts' = NumParts /\ Answer' = Answer /\ FirstError' = FirstError
      /\ Len(Answer) \in Nat
  <2>1. query' = query  BY DEF Discard
  <2>. QED  BY <2>1, Steady
<1>2. /\ Filled /\ resume_skip > 0 /\ resume_skip' = resume_skip - Len(rows)
      /\ rows # <<>> => pc' = "enter" /\ reply' = reply
      /\ UNCHANGED <<delivered, token, outcome, losses, alive, next_part, ready, rows, limit,
                     emitted_rows, chunk, matched, spool>>
  BY DEF Discard
<1>3. /\ pc = "fill" /\ Live /\ Filling /\ Held = Len(rows) /\ reply.kind = "none"
      /\ outcome = "open" /\ alive
      /\ Reached \in Nat /\ Reached <= Len(Answer) /\ Len(rows) \in Nat
      /\ limit \in 1 .. TARGET_BATCH_ROWS /\ limit <= resume_skip
      /\ \/ Len(rows) = limit
         \/ ready = <<>> /\ next_part = NumParts + 1 /\ Reached = Len(Answer)
  BY <1>2, FilledFacts
<1>4. /\ resume_skip \in 0 .. emitted_rows /\ emitted_rows \in Nat /\ Len(rows) <= limit
      /\ emitted_rows = token /\ token <= Len(Answer) /\ token \in Nat
      /\ Reached + resume_skip = emitted_rows + Len(rows)
  BY <1>2, <1>3 DEF IInv, TypeOK, OneChunkLive, ClientOK, CursorOK
(* Not to find a row would mean to have replayed more than the answer has. *)
<1>5. rows # <<>>
  <2>1. SUFFICES ASSUME Len(rows) = 0 PROVE FALSE  OBVIOUS
  <2>2. Reached = Len(Answer)  BY <1>3, <2>1, LimitAssumption
  <2>. QED  BY <1>1, <1>2, <1>3, <1>4, <2>1, <2>2
<1>6. pc' = "enter" /\ reply' = reply  BY <1>2, <1>5
<1>7. /\ Live' /\ Filling' /\ Held' = 0 /\ Reached' = Reached
      /\ resume_skip' \in 0 .. emitted_rows
      /\ Reached + resume_skip' = emitted_rows
  <2>1. Live' /\ Filling' /\ Held' = 0 /\ Reached' = Reached
    BY <1>1, <1>2, <1>3, <1>6 DEF Live, Filling, Held, Reached
  <2>2. limit \in Nat  BY <1>3, LimitAssumption
  <2>3. resume_skip' \in 0 .. emitted_rows /\ Reached + resume_skip' = emitted_rows
    BY <1>2, <1>3, <1>4, <2>2
  <2>. QED  BY <2>1, <2>3
<1>8. TypeOK'  BY <1>1, <1>2, <1>6, <1>7 DEF IInv, TypeOK
<1>9. OneChunkLive'  BY <1>2, <1>6 DEF IInv, OneChunkLive
<1>10. ControlOK'  BY <1>2, <1>3, <1>6 DEF IInv, ControlOK
<1>11. QueueOK'  BY <1>1, <1>2, <1>3, <1>6 DEF IInv, QueueOK, NewRun
<1>12. ClientOK'  BY <1>1, <1>2, <1>3, <1>4, <1>6 DEF IInv, ClientOK
<1>13. CursorOK'
  BY <1>1, <1>2, <1>4, <1>7 DEF CursorOK
<1>14. ErrorOK'
  BY <1>1, <1>2, <1>3, <1>6, <1>7 DEF IInv, ErrorOK, ErrorReproducible
<1>15. SpoolOK'  BY <1>1, <1>2, <1>6 DEF IInv, SpoolOK
<1>. QED  BY <1>8, <1>9, <1>10, <1>11, <1>12, <1>13, <1>14, <1>15 DEF IInv

(* A batch holds the rows that follow the client's, and is full unless they *)
(* are the last.                                                            *)
LEMMA SendBatchStep ==
  ASSUME IInv, SendBatch
  PROVE  IInv'
<1>. USE DEF client
<1>1. /\ query' = query /\ query \in Queries
      /\ Parts' = Parts /\ NumParts' = NumParts /\ Answer' = Answer /\ FirstError' = FirstError
      /\ Len(Answer) \in Nat
  <2>1. query' = query  BY DEF SendBatch
  <2>. QED  BY <2>1, Steady
<1>2. /\ Filled /\ resume_skip = 0 /\ rows # <<>> /\ pc' = "reply"
      /\ emitted_rows' = emitted_rows + Len(rows)
      /\ reply'.kind = "batch" /\ reply'.rows = rows /\ reply'.token = emitted_rows'
      /\ UNCHANGED <<delivered, token, outcome, losses, alive, next_part, ready, rows, limit,
                     resume_skip, chunk, matched, spool>>
  BY DEF SendBatch
<1>3. /\ pc = "fill" /\ Live /\ Filling /\ Held = Len(rows) /\ reply.kind = "none"
      /\ outcome = "open" /\ alive
      /\ Reached \in Nat /\ Reached <= Len(Answer) /\ Len(rows) \in Nat
      /\ limit = TARGET_BATCH_ROWS
      /\ \/ Len(rows) = limit
         \/ ready = <<>> /\ next_part = NumParts + 1 /\ Reached = Len(Answer)
  BY <1>2, FilledFacts
<1>4. /\ rows \in Seq(RowType) /\ emitted_rows \in Nat /\ Len(rows) <= limit
      /\ emitted_rows = token /\ token \in Nat
      /\ Reached = emitted_rows + Len(rows)
      /\ \A i \in 1 .. Len(rows) : rows[i] = Answer[emitted_rows + i]
  <2>1. /\ rows \in Seq(RowType) /\ emitted_rows \in Nat /\ Len(rows) <= limit
        /\ emitted_rows = token /\ token \in Nat
    BY <1>3 DEF IInv, TypeOK, OneChunkLive, ClientOK
  <2>2. /\ Reached + 0 = emitted_rows + Len(rows)
        /\ \A i \in 1 .. Len(rows) : rows[i] = Answer[emitted_rows - 0 + i]
    BY <1>2, <1>3 DEF IInv, CursorOK
  <2>3. emitted_rows - 0 = emitted_rows /\ Reached + 0 = Reached  BY <1>3, <2>1
  <2>. QED  BY <2>1, <2>2, <2>3
<1>5. /\ Len(rows) \in 1 .. TARGET_BATCH_ROWS
      /\ Len(rows) = TARGET_BATCH_ROWS \/ emitted_rows' = Len(Answer)
      /\ emitted_rows' \in Nat /\ emitted_rows' <= Len(Answer)
  <2>1. Len(rows) # 0  BY <1>2, <1>4
  <2>2. TARGET_BATCH_ROWS \in Nat  BY LimitAssumption
  <2>. QED  BY <1>2, <1>3, <1>4, <2>1, <2>2
<1>6. Live' /\ ~Filling' /\ Held' = 0 /\ Reached' = Reached
  BY <1>1, <1>2, <1>3 DEF Live, Filling, Held, Reached
<1>7. TypeOK'
  <2>1. resume_skip' \in 0 .. emitted_rows'  BY <1>2, <1>5
  <2>. QED  BY <1>1, <1>2, <1>4, <1>5, <2>1 DEF IInv, TypeOK
<1>8. OneChunkLive'  BY <1>2 DEF IInv, OneChunkLive
<1>9. ControlOK'  BY <1>2, <1>3, <1>6 DEF ControlOK
<1>10. QueueOK'  BY <1>1, <1>2, <1>3 DEF IInv, QueueOK, NewRun
<1>11. ClientOK'
  BY <1>1, <1>2, <1>4, <1>5, <1>6 DEF IInv, ClientOK
<1>12. CursorOK'  BY <1>2, <1>3, <1>4, <1>6 DEF CursorOK
<1>13. ErrorOK'
  <2>1. ErrorReproducible'  BY <1>1, <1>2, <1>3 DEF ErrorReproducible
  <2>. QED  BY <1>1, <1>2, <1>3, <1>6, <2>1 DEF IInv, ErrorOK
<1>14. SpoolOK'  BY <1>1, <1>2, <1>3 DEF IInv, SpoolOK
<1>. QED  BY <1>7, <1>8, <1>9, <1>10, <1>11, <1>12, <1>13, <1>14 DEF IInv

(* The end is told, and the spool discarded, when the client has every row  *)
(* and nothing failed.                                                      *)
LEMMA SendEofStep ==
  ASSUME IInv, SendEof
  PROVE  IInv'
<1>. USE DEF client, cursor
<1>1. /\ query' = query /\ query \in Queries
      /\ Parts' = Parts /\ NumParts' = NumParts /\ Answer' = Answer /\ FirstError' = FirstError
      /\ Len(Answer) \in Nat /\ NumParts = Len(query.parts) /\ NumParts \in Nat
      /\ Parts = query.parts
  <2>1. query' = query  BY DEF SendEof
  <2>. QED  BY <2>1, Steady
<1>2. /\ Filled /\ resume_skip = 0 /\ rows = <<>> /\ pc' = "reply"
      /\ reply'.kind = "eof" /\ spool' = "gone"
      /\ UNCHANGED <<delivered, token, outcome, losses, alive, next_part, ready, rows, limit,
                     emitted_rows, resume_skip, chunk, matched>>
  BY DEF SendEof
<1>3. /\ pc = "fill" /\ Live /\ Filling /\ Held = 0 /\ reply.kind = "none"
      /\ outcome = "open" /\ alive
      /\ next_part = NumParts + 1 /\ Reached = Len(Answer)
  <2>1. Len(rows) = 0  BY <1>2
  <2>2. limit # 0
    <3>1. limit \in 1 .. TARGET_BATCH_ROWS  BY <1>2, FilledFacts
    <3>. QED  BY <3>1, LimitAssumption
  <2>. QED  BY <1>2, <2>1, <2>2, FilledFacts
<1>4. token = Len(Answer)
  <2>1. emitted_rows = token /\ token \in Nat /\ Reached + 0 = emitted_rows + 0
    BY <1>2, <1>3 DEF IInv, TypeOK, ClientOK, CursorOK
  <2>. QED  BY <1>1, <1>3, <2>1
<1>5. FirstError = <<"none">>
  <2>1. FailingOf(query) = {}
    <3>1. \A p \in 1 .. NumParts : p < next_part => ~Parts[p].fails
      BY <1>3 DEF IInv, ErrorOK
    <3>. QED  BY <1>1, <1>3, <3>1 DEF FailingOf
  <2>2. BadRowsOf(query) = {}
    <3>1. \A r \in 1 .. Len(Answer) : r <= Len(Answer) => ~BadRowOf(query, r)
      BY <1>3 DEF IInv, ErrorOK
    <3>. QED  BY <1>1, <3>1 DEF BadRowsOf, Answer
  <2>. QED  BY <1>1, <2>1, <2>2, FirstErrorNone DEF FirstError
<1>6. ~Live' /\ ~Filling'  BY <1>2 DEF Live, Filling
<1>7. TypeOK'  BY <1>1, <1>2 DEF IInv, TypeOK
<1>8. OneChunkLive'  BY <1>2 DEF IInv, OneChunkLive
<1>9. ControlOK'  BY <1>2, <1>3, <1>6 DEF ControlOK
<1>10. QueueOK'  BY <1>1, <1>2, <1>3 DEF IInv, QueueOK, NewRun
<1>11. ClientOK'  BY <1>1, <1>2, <1>4, <1>6 DEF IInv, ClientOK
<1>12. CursorOK'  BY <1>6 DEF CursorOK
<1>13. ErrorOK'  BY <1>1, <1>2, <1>3, <1>5, <1>6 DEF ErrorOK, ErrorReproducible
<1>14. SpoolOK'  BY <1>1, <1>2, <1>4, <1>5 DEF SpoolOK
<1>. QED  BY <1>7, <1>8, <1>9, <1>10, <1>11, <1>12, <1>13, <1>14 DEF IInv

-----------------------------------------------------------------------------
(* The theorems.                                                            *)

(* The invariant is inductive. *)
LEMMA StepHolds ==
  ASSUME IInv, [Next]_vars
  PROVE  IInv'
<1>1. CASE Next
  <2>1. ASSUME NEW first \in 1 .. NumParts, MatchNext(first) PROVE IInv'
    BY <2>1, MatchNextStep
  <2>. QED
    BY <1>1, <2>1, RebuildStep, RebuildFailsStep, ContinueStep, ReceiveStep, LoseStep,
       EnterStep, EmitRowStep, EmitFailsStep, PopDoneStep, StartChunkStep, JoinStep,
       DiscardStep, SendBatchStep, SendEofStep, Zenon DEF Next
<1>2. CASE UNCHANGED vars
  <2>. USE DEF vars, client, cursor
  <2>1. /\ Parts' = Parts /\ NumParts' = NumParts /\ Answer' = Answer
        /\ FirstError' = FirstError
    BY <1>2, QuerySame
  <2>2. Filling' = Filling /\ Live' = Live /\ Held' = Held /\ Reached' = Reached
    BY <1>2 DEF Filling, Live, Held, Reached
  <2>3. TypeOK'  BY <1>2, <2>1 DEF IInv, TypeOK
  <2>4. OneChunkLive'  BY <1>2 DEF IInv, OneChunkLive
  <2>5. ControlOK'  BY <1>2, <2>2 DEF IInv, ControlOK
  <2>6. QueueOK'  BY <1>2, <2>1 DEF IInv, QueueOK, NewRun
  <2>7. ClientOK'  BY <1>2, <2>1, <2>2 DEF IInv, ClientOK
  <2>8. CursorOK'  BY <1>2, <2>1, <2>2 DEF IInv, CursorOK
  <2>9. ErrorOK'  BY <1>2, <2>1, <2>2 DEF IInv, ErrorOK, ErrorReproducible
  <2>10. SpoolOK'  BY <1>2, <2>1 DEF IInv, SpoolOK
  <2>. QED  BY <2>3, <2>4, <2>5, <2>6, <2>7, <2>8, <2>9, <2>10 DEF IInv
<1>. QED  BY <1>1, <1>2

(* The inductive invariant holds in every reachable state. *)
THEOREM StreamInvariant == Spec => []IInv
<1>. QED  BY InitHolds, StepHolds, PTL DEF Spec

(* Every variable of the producer and of the client keeps its type.         *)
THEOREM StreamTyped == Spec => []TypeOK
<1>1. IInv => TypeOK  BY DEF IInv
<1>. QED  BY <1>1, StreamInvariant, PTL

(* What is live is one chunk of runs and one batch of rows, for every query, *)
(* every limit and however often the producer is rebuilt.                   *)
THEOREM StreamBounded == Spec => []OneChunkLive
<1>1. IInv => OneChunkLive  BY DEF IInv
<1>. QED  BY <1>1, StreamInvariant, PTL

(* A query that fails fails with the error one uninterrupted thread meets   *)
(* first, and a query that fails is never told that it ended.               *)
THEOREM StreamErrorReproducible == Spec => []ErrorReproducible
<1>1. IInv => ErrorReproducible  BY DEF IInv, ErrorOK
<1>. QED  BY <1>1, StreamInvariant, PTL

(* The rows of the client are the answer when there are as many. *)
LEMMA WholeAnswer ==
  ASSUME IInv, token = Len(Answer)
  PROVE  delivered = Answer
<1>1. /\ delivered \in Seq(RowType) /\ token = Len(delivered)
      /\ \A i \in 1 .. token : delivered[i] = Answer[i]
      /\ query \in Queries
  BY DEF IInv, TypeOK, ClientOK
<1>2. Answer \in Seq(RowType)  BY <1>1, StateFacts
<1>. QED  BY <1>1, <1>2, SeqEqual

(* The spool goes only when no row is left to send, and a rebuild fails for *)
(* want of it only after a reply was lost.                                  *)
THEOREM StreamSpoolKept == Spec => []SpoolKept
<1>1. ASSUME IInv PROVE SpoolKept
  <2>1. spool = "gone" => delivered = Answer /\ FirstError = <<"none">>
    BY <1>1, WholeAnswer DEF IInv, SpoolOK
  <2>2. reply = [kind |-> "error", what |-> <<"spool">>] => losses > 0
    BY <1>1 DEF IInv, SpoolOK
  <2>. QED  BY <2>1, <2>2 DEF SpoolKept
<1>. QED  BY <1>1, StreamInvariant, PTL

(* The rows a producer holds are those of the answer that follow what it    *)
(* sent and discarded.                                                      *)
THEOREM StreamCursorExact == Spec => []CursorExact
<1>1. ASSUME IInv, pc \in {"fill", "match"}
      PROVE  rows = SubSeq(Answer, emitted_rows - resume_skip + 1,
                                   emitted_rows - resume_skip + Len(rows))
  <2>. DEFINE before == emitted_rows - resume_skip
  <2>1. /\ rows \in Seq(RowType) /\ Len(rows) \in Nat /\ emitted_rows \in Nat
        /\ resume_skip \in 0 .. emitted_rows /\ query \in Queries
    BY <1>1 DEF IInv, TypeOK
  <2>2. before \in Nat  BY <2>1
  <2>3. /\ Reached + resume_skip = emitted_rows + Len(rows)
        /\ \A i \in 1 .. Len(rows) : rows[i] = Answer[before + i]
    BY <1>1 DEF IInv, CursorOK, Live, Filling, Held
  <2>4. Reached \in Nat /\ Reached <= Len(Answer)  BY <1>1, ReachedFacts
  <2>5. Answer \in Seq(RowType) /\ Len(Answer) \in Nat  BY <2>1, StateFacts
  <2>6. before + Len(rows) <= Len(Answer)  BY <2>1, <2>3, <2>4, <2>5
  <2>. HIDE DEF before
  <2>7. \A i \in before + 1 .. before + Len(rows) : Answer[i] \in RowType
    BY <2>1, <2>2, <2>5, <2>6
  <2>. DEFINE part == SubSeq(Answer, before + 1, before + Len(rows))
  <2>8. /\ part \in Seq(RowType)
        /\ Len(part) = IF before + 1 <= before + Len(rows)
                       THEN before + Len(rows) - (before + 1) + 1 ELSE 0
        /\ \A i \in 1 .. before + Len(rows) - (before + 1) + 1 :
             part[i] = Answer[before + 1 + i - 1]
    BY <2>1, <2>2, <2>7, SubSeqProperties
  <2>9. Len(part) = Len(rows)  BY <2>1, <2>2, <2>8
  <2>10. ASSUME NEW i \in 1 .. Len(rows) PROVE rows[i] = part[i]
    <3>1. /\ i \in 1 .. before + Len(rows) - (before + 1) + 1
          /\ before + 1 + i - 1 = before + i
      BY <2>1, <2>2
    <3>. QED  BY <2>3, <2>8, <3>1
  <2>. HIDE DEF part
  <2>11. rows = part  BY <2>1, <2>8, <2>9, <2>10, SeqEqual
  <2>. QED  BY <2>11 DEF part, before
<1>2. IInv => CursorExact  BY <1>1 DEF CursorExact
<1>. QED  BY <1>2, StreamInvariant, PTL

(* A step of the finalize stream is one of RowStream's, or none: a batch     *)
(* that arrives is the answer's next rows, full unless it is the last; the  *)
(* end arrives after the last row; an error ends the stream; and nothing    *)
(* else changes what the client has.                                        *)
LEMMA StepRefines ==
  ASSUME IInv, [Next]_vars
  PROVE  [Stream!Next]_(Stream!vars)
<1>1. ASSUME query' = query, delivered' = delivered, outcome' = outcome
      PROVE  [Stream!Next]_(Stream!vars)
  BY <1>1, QuerySame DEF Stream!vars
<1>2. CASE Receive
  <2>1. /\ query' = query /\ Answer' = Answer /\ query \in Queries /\ Answer \in Seq(RowType)
        /\ Len(Answer) \in Nat
    <3>1. query' = query  BY <1>2 DEF Receive
    <3>. QED  BY <3>1, Steady
  <2>2. /\ outcome = "open" /\ reply.kind \in {"batch", "eof", "error"}
    BY <1>2 DEF Receive, IInv, TypeOK, ControlOK
  <2>3. CASE reply.kind = "batch"
    <3>. DEFINE n == Len(reply.rows)
    <3>1. /\ delivered' = delivered \o reply.rows /\ outcome' = outcome
      BY <1>2, <2>3 DEF Receive
    <3>2. /\ token = Len(delivered) /\ delivered \in Seq(RowType) /\ token \in Nat
          /\ reply.rows \in Seq(RowType) /\ n \in 1 .. TARGET_BATCH_ROWS /\ n \in Nat
          /\ token + n <= Len(Answer)
          /\ n = TARGET_BATCH_ROWS \/ token + n = Len(Answer)
          /\ \A i \in 1 .. token : delivered[i] = Answer[i]
          /\ \A i \in 1 .. n : reply.rows[i] = Answer[token + i]
      BY <2>3, LimitAssumption, SMTT(30) DEF IInv, TypeOK, ClientOK
    <3>3. n >= 1  BY <3>2, LimitAssumption
    <3>. HIDE DEF n
    <3>4. delivered' \in Seq(RowType) /\ Len(delivered') = token + n
      BY <3>1, <3>2, ConcatProperties DEF n
    <3>5. ASSUME NEW i \in 1 .. token + n PROVE delivered'[i] = Answer[i]
      <4>1. delivered'[i] = IF i <= token THEN delivered[i] ELSE reply.rows[i - token]
        BY <3>1, <3>2, ConcatProperties DEF n
      <4>2. CASE i <= token
        <5>1. i \in 1 .. token  BY <3>2, <4>2
        <5>. QED  BY <3>2, <4>1, <4>2, <5>1
      <4>3. CASE i > token
        <5>1. i - token \in 1 .. n /\ token + (i - token) = i /\ ~(i <= token)
          BY <3>2, <4>3
        <5>. QED  BY <3>2, <4>1, <5>1
      <4>. QED  BY <3>2, <4>2, <4>3
    <3>. DEFINE part == SubSeq(Answer, 1, token + n)
    <3>6. /\ part \in Seq(RowType) /\ Len(part) = token + n
          /\ \A i \in 1 .. token + n : part[i] = Answer[i]
      <4>. DEFINE m == token + n
      <4>1. m \in Nat /\ m >= 1 /\ m <= Len(Answer)  BY <3>2, <3>3
      <4>. HIDE DEF m
      <4>2. \A i \in 1 .. m : Answer[i] \in RowType  BY <2>1, <4>1
      <4>3. /\ SubSeq(Answer, 1, m) \in Seq(RowType)
            /\ Len(SubSeq(Answer, 1, m)) = IF 1 <= m THEN m - 1 + 1 ELSE 0
            /\ \A i \in 1 .. m - 1 + 1 : SubSeq(Answer, 1, m)[i] = Answer[1 + i - 1]
        BY <4>1, <4>2, SubSeqProperties
      <4>4. m - 1 + 1 = m /\ \A i \in 1 .. m : 1 + i - 1 = i  BY <4>1
      <4>5. Len(SubSeq(Answer, 1, m)) = m  BY <4>1, <4>3, <4>4
      <4>6. \A i \in 1 .. m : SubSeq(Answer, 1, m)[i] = Answer[i]  BY <4>3, <4>4
      <4>. QED  BY <4>3, <4>5, <4>6 DEF m
    <3>. HIDE DEF part
    <3>7. delivered' = part  BY <3>4, <3>5, <3>6, SeqEqual
    <3>8. delivered' = SubSeq(Answer, 1, Len(delivered) + n)  BY <3>2, <3>7 DEF part
    <3>9. Len(delivered) < Len(Answer)  BY <2>1, <3>2, <3>3
    <3>10. Stream!Deliver
      BY <2>1, <2>2, <3>1, <3>2, <3>8, <3>9 DEF Stream!Deliver
    <3>. QED  BY <3>10 DEF Stream!Next
  <2>4. CASE reply.kind = "eof"
    <3>1. delivered' = delivered /\ outcome' = "done"  BY <1>2, <2>4 DEF Receive
    <3>2. delivered = Answer
      <4>1. token = Len(Answer)  BY <2>4 DEF IInv, ClientOK
      <4>. QED  BY <4>1, WholeAnswer
    <3>. QED  BY <2>1, <2>2, <3>1, <3>2 DEF Stream!Finish, Stream!Next
  <2>5. CASE reply.kind = "error"
    <3>1. delivered' = delivered /\ outcome' = "error"  BY <1>2, <2>5 DEF Receive
    <3>. QED  BY <2>1, <2>2, <3>1 DEF Stream!Fail, Stream!Next
  <2>. QED  BY <2>2, <2>3, <2>4, <2>5
<1>3. CASE \/ Rebuild \/ RebuildFails \/ Continue \/ Lose \/ Enter \/ EmitRow \/ EmitFails
           \/ PopDone \/ StartChunk \/ (\E first \in 1 .. NumParts : MatchNext(first))
           \/ Join \/ Discard \/ SendBatch \/ SendEof
  <2>1. query' = query /\ delivered' = delivered /\ outcome' = outcome
    BY <1>3 DEF Rebuild, RebuildFails, Continue, Lose, Enter, EmitRow, EmitFails, PopDone,
                StartChunk, MatchNext, Join, Discard, SendBatch, SendEof, client
  <2>. QED  BY <1>1, <2>1
<1>4. CASE UNCHANGED vars  BY <1>1, <1>4 DEF vars, client
<1>. QED  BY <1>2, <1>3, <1>4 DEF Next

(* The stream implements RowStream's safety for every query: the client     *)
(* receives the rows of the answer in order, each once, in batches that are *)
(* full except the last, and is told the end only when it has them all.     *)
THEOREM StreamRefinesRowStream == Spec => Stream!SafeSpec
<1>1. Init => Stream!Init
  BY DEF Init, Stream!Init, Answer
<1>2. IInv /\ [Next]_vars => [Stream!Next]_(Stream!vars)
  BY StepRefines
<1>. QED  BY <1>1, <1>2, StreamInvariant, PTL DEF Spec, Stream!SafeSpec

=============================================================================
